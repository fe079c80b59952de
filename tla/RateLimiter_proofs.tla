------------------------- MODULE RateLimiter_proofs -------------------------
(***************************************************************************)
(* Proofs about RateLimiter, for every set of clients and every value of   *)
(* the settings that start-up validation lets through.                     *)
(***************************************************************************)
EXTENDS RateLimiter, FilterLemmas, SequenceTheorems

-----------------------------------------------------------------------------
(* The list comprehension of is_rate_limited keeps the end of the list, if *)
(* the list is the end of an ascending history: nothing in the window is   *)
(* lost, and a list that is not emptied keeps its last entry.              *)
LEMMA PruneLemma ==
    ASSUME TypeOK, TimeOrder, NEW c \in Clients, NEW ts \in Seq(Nat), Recorded(ts, c)
    PROVE  /\ Pruned(ts, clock) \in Seq(Nat)
           /\ Len(Pruned(ts, clock)) <= Len(ts)
           /\ Recorded(Pruned(ts, clock), c)
           /\ \A j \in 1..Len(Pruned(ts, clock)) : clock - Pruned(ts, clock)[j] < Window
           /\ Pruned(ts, clock) # <<>> =>
                 ts # <<>> /\ Latest(Pruned(ts, clock)) = Latest(ts)
<1> DEFINE K == {i \in DOMAIN ts : clock - ts[i] < Window}
           p == Pruned(ts, clock)
           n == Cardinality(K)
           h == served[c]
           old == Len(h) - Len(ts)
<1>1. /\ clock \in Nat /\ Window \in Nat
      /\ h \in Seq(Nat)
      /\ DOMAIN h = 1..Len(h) /\ Len(h) \in Nat
      /\ DOMAIN ts = 1..Len(ts) /\ Len(ts) \in Nat
    BY SettingsAssumption DEF TypeOK
<1>2. /\ old \in Nat /\ Len(h) = old + Len(ts)
      /\ \A i \in DOMAIN ts : ts[i] = h[old + i]
      /\ \A i \in 1..old : clock - h[i] >= Window
    BY <1>1 DEF Recorded
<1>3. \A i \in 1..Len(ts) : ts[i] \in Nat /\ old + i \in DOMAIN h
    BY <1>1, <1>2
<1>4. K \in SUBSET DOMAIN ts
    OBVIOUS
<1>5. p = Keep(ts, K)
    BY DEF Pruned
<1>6. \A i \in K : \A k \in DOMAIN ts : i < k => k \in K
    <2> SUFFICES ASSUME NEW i \in K, NEW k \in DOMAIN ts, i < k
                 PROVE  clock - ts[k] < Window
        OBVIOUS
    <2>1. i \in 1..Len(ts) /\ k \in 1..Len(ts) /\ clock - ts[i] < Window
        BY <1>1
    <2>2. h[old + i] <= h[old + k]
        <3>1. old + i <= old + k
            BY <2>1, <1>2
        <3> HIDE DEF old
        <3> QED
            BY <3>1, <2>1, <1>3 DEF TimeOrder
    <2>3. ts[i] <= ts[k]
        BY <1>1, <1>2, <2>1, <2>2
    <2> QED
        BY <1>1, <1>3, <2>1, <2>3
<1> HIDE DEF K, p
<1>7. /\ p \in Seq(Nat) /\ Len(p) = n /\ n \in 0..Len(ts) /\ DOMAIN p = 1..n
      /\ \A j \in 1..n : Nth(K, j) \in K /\ p[j] = ts[Nth(K, j)]
      /\ \A i \in K : \E j \in 1..n : Nth(K, j) = i
    <2>1. /\ Keep(ts, K) \in Seq(Nat)
          /\ Len(Keep(ts, K)) = Cardinality(K)
          /\ Cardinality(K) \in 0..Len(ts)
          /\ DOMAIN Keep(ts, K) = 1..Cardinality(K)
          /\ \A j \in 1..Cardinality(K) :
                Nth(K, j) \in K /\ Keep(ts, K)[j] = ts[Nth(K, j)]
          /\ \A i \in K : \E j \in 1..Cardinality(K) : Nth(K, j) = i
        BY ONLY <1>4, KeepProperties, ts \in Seq(Nat)
    <2> QED
        BY ONLY <1>5, <2>1
<1>8. \A j \in 1..n : Nth(K, j) = Len(ts) - n + j
    BY <1>4, <1>6, KeepSuffix
<1> HIDE DEF n, h, old
<1>9. n \in Nat /\ n <= Len(ts)
    BY <1>1, <1>7
<1>10. \A j \in 1..n : p[j] = ts[Len(ts) - n + j] /\ p[j] = h[Len(h) - n + j]
    <2> SUFFICES ASSUME NEW j \in 1..n
                 PROVE  p[j] = ts[Len(ts) - n + j] /\ p[j] = h[Len(h) - n + j]
        OBVIOUS
    <2>1. p[j] = ts[Len(ts) - n + j]
        BY <1>7, <1>8
    <2>2. Len(ts) - n + j \in DOMAIN ts
        BY <1>1, <1>9
    <2>3. old + (Len(ts) - n + j) = Len(h) - n + j
        BY <1>1, <1>2, <1>9
    <2> QED
        BY <2>1, <2>2, <2>3, <1>2
<1>11. \A i \in 1..(Len(h) - n) : clock - h[i] >= Window
    <2> SUFFICES ASSUME NEW i \in 1..(Len(h) - n)
                 PROVE  clock - h[i] >= Window
        OBVIOUS
    <2>1. CASE i <= old
        <3>1. i \in 1..old
            BY <2>1, <1>1, <1>2
        <3> QED
            BY <3>1, <1>2
    <2>2. CASE i > old
        <3> DEFINE k == i - old
        <3>1. k \in 1..Len(ts) /\ k <= Len(ts) - n /\ old + k = i
            BY <2>2, <1>1, <1>2, <1>9
        <3>2. k \notin K
            <4> SUFFICES ASSUME k \in K PROVE FALSE
                OBVIOUS
            <4>1. PICK j \in 1..n : Nth(K, j) = k
                BY <1>7
            <4>2. k = Len(ts) - n + j
                BY <4>1, <1>8
            <4> HIDE DEF k
            <4> QED
                BY <4>2, <3>1, <1>1, <1>9
        <3>3. ts[k] = h[i] /\ ts[k] \in Nat
            BY <3>1, <1>1, <1>2, <1>3
        <3> HIDE DEF k
        <3>4. ~(clock - ts[k] < Window)
            BY <3>1, <3>2, <1>1 DEF K
        <3> QED
            BY <3>3, <3>4, <1>1
    <2> QED
        BY <2>1, <2>2, <1>1, <1>2
<1>12. Recorded(p, c)
    <2>1. Len(h) - n >= 0 /\ Len(p) = n /\ DOMAIN p = 1..n
        BY <1>1, <1>2, <1>7, <1>9
    <2>2. \A i \in DOMAIN p : p[i] = h[(Len(h) - Len(p)) + i]
        BY <1>10, <2>1
    <2> QED
        BY <1>11, <2>1, <2>2 DEF Recorded, h
<1>13. p # <<>> => ts # <<>> /\ Latest(p) = Latest(ts)
    <2> SUFFICES ASSUME p # <<>> PROVE ts # <<>> /\ Latest(p) = Latest(ts)
        OBVIOUS
    <2>1. n \in 1..n /\ Len(ts) - n + n = Len(ts) /\ Len(ts) > 0
        BY <1>1, <1>7, <1>9
    <2> QED
        BY <2>1, <1>7, <1>10 DEF Latest
<1>14. \A j \in 1..n : clock - p[j] < Window
    BY <1>7 DEF K
<1> QED
    BY <1>7, <1>9, <1>12, <1>13, <1>14 DEF p

-----------------------------------------------------------------------------
(* Dropping keys from a dict: what is left is a part of the keys, each     *)
(* still once and in the same order.                                       *)
LEMMA KeepKeysLemma ==
    ASSUME NEW S, NEW ks \in Seq(S), NEW K \in SUBSET DOMAIN ks,
           \A i, j \in DOMAIN ks : ks[i] = ks[j] => i = j
    PROVE  /\ Keep(ks, K) \in Seq(S)
           /\ Len(Keep(ks, K)) \in Nat /\ Len(Keep(ks, K)) <= Len(ks)
           /\ \A i, j \in DOMAIN Keep(ks, K) : Keep(ks, K)[i] = Keep(ks, K)[j] => i = j
           /\ \A i, j \in DOMAIN Keep(ks, K) : i < j =>
                 \E a, b \in K : /\ a < b
                                 /\ Keep(ks, K)[i] = ks[a]
                                 /\ Keep(ks, K)[j] = ks[b]
           /\ Range(Keep(ks, K)) = {ks[i] : i \in K}
<1> DEFINE n == Cardinality(K)
           q == Keep(ks, K)
<1>1. /\ q \in Seq(S)
      /\ Len(q) = n
      /\ n \in 0..Len(ks)
      /\ DOMAIN q = 1..n
      /\ \A j \in 1..n : Nth(K, j) \in K /\ q[j] = ks[Nth(K, j)]
      /\ \A j, k \in 1..n : j < k => Nth(K, j) < Nth(K, k)
      /\ \A i \in K : \E j \in 1..n : Nth(K, j) = i
    BY ONLY KeepProperties, ks \in Seq(S), K \in SUBSET DOMAIN ks
<1>2. /\ Len(ks) \in Nat /\ n \in Nat
      /\ DOMAIN ks = 1..Len(ks)
      /\ \A i \in K : i \in Nat /\ i \in DOMAIN ks
    BY <1>1
<1> HIDE DEF q, n
<1>3. n <= Len(ks)
    BY <1>1, <1>2
<1>4. \A i, j \in 1..n : q[i] = q[j] => i = j
    <2> SUFFICES ASSUME NEW i \in 1..n, NEW j \in 1..n, q[i] = q[j]
                 PROVE  i = j
        OBVIOUS
    <2>1. Nth(K, i) = Nth(K, j)
        BY <1>1, <1>2
    <2>2. Nth(K, i) \in Nat /\ i \in Nat /\ j \in Nat
        BY <1>1, <1>2
    <2>3. ~(i < j) /\ ~(j < i)
        BY <1>1, <2>1, <2>2
    <2> QED
        BY <2>2, <2>3
<1>5. \A i, j \in 1..n : i < j =>
         \E a, b \in K : a < b /\ q[i] = ks[a] /\ q[j] = ks[b]
    BY <1>1
<1>6. Range(q) = {ks[i] : i \in K}
    <2>1. ASSUME NEW x \in Range(q) PROVE x \in {ks[i] : i \in K}
        <3>1. PICK j \in 1..n : x = q[j]
            BY <1>1 DEF Range
        <3> QED
            BY <3>1, <1>1
    <2>2. ASSUME NEW i \in K PROVE ks[i] \in Range(q)
        <3>1. PICK j \in 1..n : Nth(K, j) = i
            BY <1>1
        <3> QED
            BY <3>1, <1>1 DEF Range
    <2> QED
        BY <2>1, <2>2
<1> QED
    BY <1>1, <1>2, <1>3, <1>4, <1>5, <1>6 DEF q

(* _cleanup_rate_limit_store leaves every part of the invariant that       *)
(* speaks of the store, and no entry that was out of the window.           *)
LEMMA CleanupLemma ==
    ASSUME IInv
    PROVE  /\ KeysAfterCleanup(clock) \in Seq(Clients)
           /\ StampsAfterCleanup(clock) \in [Clients -> Seq(Nat)]
           /\ LastCleanupAfter(clock) \in Nat
           /\ LastCleanupAfter(clock) <= clock
           /\ Len(KeysAfterCleanup(clock)) <= MaxClients
           /\ KeysMatch(KeysAfterCleanup(clock), StampsAfterCleanup(clock))
           /\ Ordered(KeysAfterCleanup(clock), StampsAfterCleanup(clock))
           /\ \A c \in Clients : /\ Len(StampsAfterCleanup(clock)[c]) <= Limit
                                 /\ Recorded(StampsAfterCleanup(clock)[c], c)
           /\ \A c \in Range(KeysAfterCleanup(clock)) :
                 LastCleanupAfter(clock) - Latest(StampsAfterCleanup(clock)[c]) < Window
<1> USE DEF IInv
<1> DEFINE ks == KeysAfterCleanup(clock)
           st == StampsAfterCleanup(clock)
           K  == {i \in DOMAIN keys : ~IsStale(stamps[keys[i]], clock)}
<1>1. CASE ~CleanupDue(clock)
    <2>1. ks = keys /\ LastCleanupAfter(clock) = lastCleanup
        BY <1>1 DEF KeysAfterCleanup, LastCleanupAfter
    <2>2. st = stamps
        BY <1>1 DEF StampsAfterCleanup, TypeOK
    <2> QED
        BY <2>1, <2>2 DEF TypeOK, TimeOrder, StoreBounded, LruOrder, NoDeadEntry, HistoryKept
<1>2. CASE CleanupDue(clock)
    <2>1. /\ ks = Keep(keys, K)
          /\ st = [c \in Clients |-> IF IsStale(stamps[c], clock) THEN <<>> ELSE stamps[c]]
          /\ LastCleanupAfter(clock) = clock
        BY <1>2 DEF KeysAfterCleanup, StampsAfterCleanup, LastCleanupAfter
    <2>2. /\ keys \in Seq(Clients) /\ clock \in Nat
          /\ stamps \in [Clients -> Seq(Nat)] /\ served \in [Clients -> Seq(Nat)]
          /\ MaxClients \in Nat /\ Limit \in Nat /\ Window \in Nat
        BY SettingsAssumption DEF TypeOK
    <2>3. K \in SUBSET DOMAIN keys
        OBVIOUS
    <2>4. \A i, j \in DOMAIN keys : keys[i] = keys[j] => i = j
        BY DEF StoreBounded, KeysMatch
    <2>5. /\ Keep(keys, K) \in Seq(Clients)
          /\ Len(Keep(keys, K)) \in Nat /\ Len(Keep(keys, K)) <= Len(keys)
          /\ \A i, j \in DOMAIN Keep(keys, K) :
                Keep(keys, K)[i] = Keep(keys, K)[j] => i = j
          /\ \A i, j \in DOMAIN Keep(keys, K) : i < j =>
                \E a, b \in K : /\ a < b
                                /\ Keep(keys, K)[i] = keys[a]
                                /\ Keep(keys, K)[j] = keys[b]
          /\ Range(Keep(keys, K)) = {keys[i] : i \in K}
        <3> HIDE DEF K, IInv
        <3>1. keys \in Seq(Clients)
            BY <2>2
        <3> QED
            BY ONLY <3>1, <2>3, <2>4, KeepKeysLemma
    <2>6. /\ ks \in Seq(Clients)
          /\ Len(ks) \in Nat /\ Len(ks) <= Len(keys)
          /\ \A i, j \in DOMAIN ks : ks[i] = ks[j] => i = j
          /\ \A i, j \in DOMAIN ks : i < j =>
                \E a, b \in K : a < b /\ ks[i] = keys[a] /\ ks[j] = keys[b]
          /\ Range(ks) = {keys[i] : i \in K}
        BY ONLY <2>1, <2>5
    <2> HIDE DEF ks, st
    <2>7. st \in [Clients -> Seq(Nat)]
        BY <2>1, <2>2
    <2>8. Len(ks) <= MaxClients
        <3>1. Len(keys) <= MaxClients /\ Len(keys) \in Nat
            BY <2>2 DEF StoreBounded
        <3> QED
            BY <3>1, <2>2, <2>6
    <2>9. \A i \in K : /\ i \in DOMAIN keys
                       /\ keys[i] \in Clients
                       /\ ~IsStale(stamps[keys[i]], clock)
                       /\ st[keys[i]] = stamps[keys[i]]
        BY <2>1, <2>2
    <2>10. KeysMatch(ks, st)
        <3> SUFFICES ASSUME NEW c \in Clients
                     PROVE  c \in Range(ks) <=> st[c] # <<>>
            BY <2>6 DEF KeysMatch
        <3>1. c \in Range(keys) <=> stamps[c] # <<>>
            BY DEF StoreBounded, KeysMatch
        <3>2. st[c] # <<>> <=> ~IsStale(stamps[c], clock)
            BY <2>1 DEF IsStale
        <3>3. c \in Range(ks) <=> \E i \in DOMAIN keys : keys[i] = c /\ ~IsStale(stamps[c], clock)
            BY <2>6
        <3>4. c \in Range(keys) <=> \E i \in DOMAIN keys : keys[i] = c
            BY DEF Range
        <3>5. ~IsStale(stamps[c], clock) => stamps[c] # <<>>
            BY DEF IsStale
        <3> QED
            BY <3>1, <3>2, <3>3, <3>4, <3>5
    <2>11. Ordered(ks, st)
        <3> SUFFICES ASSUME NEW i \in DOMAIN ks, NEW j \in DOMAIN ks, i < j
                     PROVE  Latest(st[ks[i]]) <= Latest(st[ks[j]])
            BY DEF Ordered
        <3>1. PICK a, b \in K : a < b /\ ks[i] = keys[a] /\ ks[j] = keys[b]
            BY <2>6
        <3>2. Latest(stamps[keys[a]]) <= Latest(stamps[keys[b]])
            BY <2>9, <3>1 DEF LruOrder, Ordered
        <3> QED
            BY <2>9, <3>1, <3>2
    <2>12. ASSUME NEW c \in Clients
           PROVE  Len(st[c]) <= Limit /\ Recorded(st[c], c)
        <3>1. CASE ~IsStale(stamps[c], clock)
            BY <3>1, <2>1 DEF StoreBounded, HistoryKept
        <3>2. CASE IsStale(stamps[c], clock)
            <4>1. st[c] = <<>> /\ Len(st[c]) = 0
                BY <2>1, <3>2
            <4>2. Recorded(stamps[c], c)
                BY DEF HistoryKept
            <4>3. CASE stamps[c] = <<>>
                BY <4>1, <4>2, <4>3, <2>2
            <4>4. CASE stamps[c] # <<>>
                <5> DEFINE h == served[c]
                           m == Len(h)
                           n == Len(stamps[c])
                <5>1. /\ h \in Seq(Nat) /\ m \in Nat /\ DOMAIN h = 1..m
                      /\ n \in Nat /\ DOMAIN stamps[c] = 1..n /\ n # 0
                    BY <2>2, <4>4
                <5> HIDE DEF h, m, n
                <5>2. m - n >= 0 /\ stamps[c][n] = h[m]
                    <6>1. /\ m - n >= 0
                          /\ \A i \in 1..n : stamps[c][i] = h[(m - n) + i]
                        BY <4>2, <5>1 DEF Recorded, h, m, n
                    <6>2. n \in 1..n /\ (m - n) + n = m
                        BY <5>1
                    <6> QED
                        BY <6>1, <6>2
                <5>3. clock - h[m] >= Window
                    BY <3>2, <4>4, <5>2 DEF IsStale, Latest, n
                <5>4. \A i \in 1..m : clock - h[i] >= Window
                    <6> SUFFICES ASSUME NEW i \in 1..m PROVE clock - h[i] >= Window
                        OBVIOUS
                    <6>1. h[i] \in Nat /\ h[m] \in Nat /\ i \in DOMAIN h /\ m \in DOMAIN h
                        BY <5>1
                    <6>2. h[i] <= h[m]
                        BY <6>1, <5>1 DEF TimeOrder, h
                    <6> QED
                        BY <6>1, <6>2, <5>3, <2>2
                <5>5. m - 0 = m /\ DOMAIN <<>> = {}
                    BY <5>1
                <5> QED
                    BY <4>1, <5>1, <5>4, <5>5, <2>2 DEF Recorded, h, m
            <4> QED
                BY <4>3, <4>4
        <3> QED
            BY <3>1, <3>2
    <2>13. \A c \in Range(ks) : clock - Latest(st[c]) < Window
        <3> SUFFICES ASSUME NEW i \in K
                     PROVE  clock - Latest(st[keys[i]]) < Window
            BY <2>6
        <3>1. ~IsStale(stamps[keys[i]], clock) /\ st[keys[i]] = stamps[keys[i]]
              /\ stamps[keys[i]] \in Seq(Nat)
            BY <2>9, <2>2
        <3>2. stamps[keys[i]] # <<>> /\ ~(clock - Latest(stamps[keys[i]]) >= Window)
            BY <3>1 DEF IsStale
        <3>3. Latest(stamps[keys[i]]) \in Nat
            BY <3>1, <3>2 DEF Latest
        <3> QED
            BY <3>1, <3>2, <3>3, <2>2
    <2>14. LastCleanupAfter(clock) \in Nat /\ LastCleanupAfter(clock) <= clock
        BY <2>1, <2>2
    <2>15. \A c \in Range(ks) : LastCleanupAfter(clock) - Latest(st[c]) < Window
        BY <2>1, <2>13
    <2> QED
        BY <2>6, <2>7, <2>8, <2>10, <2>11, <2>12, <2>14, <2>15 DEF ks, st
<1> QED
    BY <1>1, <1>2

-----------------------------------------------------------------------------
(* store[c] = ... followed by move_to_end(c): c is the last key, the       *)
(* others keep their order.                                                *)
LEMMA MoveLemma ==
    ASSUME NEW ks \in Seq(Clients), NEW c \in Clients, NEW m,
           \A i, j \in DOMAIN ks : ks[i] = ks[j] => i = j,
           m = MovedToEnd(Assigned(ks, c), c)
    PROVE  /\ m \in Seq(Clients) /\ Len(m) \in Nat \ {0}
           /\ Len(m) <= Len(ks) + 1
           /\ m[Len(m)] = c
           /\ \A i, j \in DOMAIN m : m[i] = m[j] => i = j
           /\ Range(m) = Range(ks) \cup {c}
           /\ \A i, j \in DOMAIN m : i < j /\ j < Len(m) =>
                 \E a, b \in DOMAIN ks : a < b /\ m[i] = ks[a] /\ m[j] = ks[b]
<1> DEFINE k0 == Assigned(ks, c)
           K == {i \in DOMAIN k0 : k0[i] # c}
           q == Keep(k0, K)
<1>1. /\ k0 \in Seq(Clients)
      /\ \A i, j \in DOMAIN k0 : k0[i] = k0[j] => i = j
      /\ \A i \in DOMAIN k0 : k0[i] # c => i \in DOMAIN ks /\ k0[i] = ks[i]
      /\ \A i \in DOMAIN ks : i \in DOMAIN k0 /\ k0[i] = ks[i]
    <2>1. CASE c \in Range(ks)
        BY <2>1 DEF Assigned
    <2>2. CASE c \notin Range(ks)
        <3>1. k0 = Append(ks, c)
            BY <2>2 DEF Assigned
        <3>2. \A i \in DOMAIN ks : ks[i] # c
            BY <2>2 DEF Range
        <3>3. /\ k0 \in Seq(Clients)
              /\ DOMAIN ks = 1..Len(ks) /\ DOMAIN k0 = 1..(Len(ks) + 1)
              /\ Len(ks) \in Nat
              /\ k0[Len(ks) + 1] = c
              /\ \A i \in 1..Len(ks) : k0[i] = ks[i]
            BY <3>1
        <3> HIDE DEF k0
        <3>4. \A i \in DOMAIN k0 : i = Len(ks) + 1 \/ i \in DOMAIN ks
            BY <3>3
        <3>5. \A i \in DOMAIN ks : i \in DOMAIN k0 /\ k0[i] = ks[i]
            BY <3>3
        <3>6. ASSUME NEW i \in DOMAIN k0, NEW j \in DOMAIN k0, k0[i] = k0[j]
              PROVE  i = j
            BY <3>2, <3>3, <3>4, <3>5, <3>6
        <3> QED
            BY <3>3, <3>4, <3>5, <3>6
    <2> QED
        BY <2>1, <2>2
<1> HIDE DEF k0
<1>2. K \in SUBSET DOMAIN k0
    OBVIOUS
<1> HIDE DEF K
<1>3. /\ q \in Seq(Clients)
      /\ Len(q) \in Nat
      /\ \A i, j \in DOMAIN q : q[i] = q[j] => i = j
      /\ \A i, j \in DOMAIN q : i < j =>
            \E a, b \in K : a < b /\ q[i] = k0[a] /\ q[j] = k0[b]
      /\ Range(q) = {k0[i] : i \in K}
    BY ONLY <1>1, <1>2, KeepKeysLemma
<1> HIDE DEF q
<1>4. m = Append(q, c)
    BY DEF MovedToEnd, q, K, k0
<1>5. /\ m \in Seq(Clients) /\ Len(m) = Len(q) + 1
      /\ DOMAIN m = 1..(Len(q) + 1) /\ DOMAIN q = 1..Len(q)
      /\ m[Len(q) + 1] = c
      /\ \A i \in DOMAIN q : m[i] = q[i]
    BY <1>3, <1>4
<1>6. \A i \in DOMAIN m : i = Len(q) + 1 \/ i \in DOMAIN q
    BY <1>3, <1>5
<1>7. \A i \in K : i \in DOMAIN k0 /\ k0[i] # c /\ i \in DOMAIN ks /\ k0[i] = ks[i]
    BY <1>1 DEF K
<1>8. Range(q) = Range(ks) \ {c}
    <2>1. ASSUME NEW x \in Range(q) PROVE x \in Range(ks) \ {c}
        BY <1>3, <1>7 DEF Range
    <2>2. ASSUME NEW x \in Range(ks) \ {c} PROVE x \in Range(q)
        <3>1. PICK i \in DOMAIN ks : ks[i] = x
            BY DEF Range
        <3>2. i \in K /\ k0[i] = x
            BY <3>1, <1>1 DEF K
        <3> QED
            BY <3>2, <1>3
    <2> QED
        BY <2>1, <2>2
<1>9. \A i \in DOMAIN q : q[i] # c
    BY <1>8 DEF Range
<1>10. \A i, j \in DOMAIN m : m[i] = m[j] => i = j
    BY <1>3, <1>5, <1>6, <1>9
<1>11. Range(m) = Range(ks) \cup {c}
    <2>1. ASSUME NEW x \in Range(m) PROVE x \in Range(q) \cup {c}
        BY <1>5, <1>6 DEF Range
    <2>2. ASSUME NEW x \in Range(q) PROVE x \in Range(m)
        BY <1>3, <1>5 DEF Range
    <2>3. c \in Range(m)
        BY <1>3, <1>5 DEF Range
    <2> QED
        BY <2>1, <2>2, <2>3, <1>8
<1>12. ASSUME NEW i \in DOMAIN m, NEW j \in DOMAIN m, i < j, j < Len(m)
       PROVE  \E a, b \in DOMAIN ks : a < b /\ m[i] = ks[a] /\ m[j] = ks[b]
    <2>1. i \in DOMAIN q /\ j \in DOMAIN q
        BY <1>3, <1>5, <1>12
    <2>2. PICK a, b \in K : a < b /\ q[i] = k0[a] /\ q[j] = k0[b]
        BY <2>1, <1>3, <1>12
    <2> QED
        BY <2>1, <2>2, <1>5, <1>7
<1>13. Len(m) \in Nat \ {0} /\ m[Len(m)] = c
    BY <1>3, <1>5
<1>14. Len(m) <= Len(ks) + 1
    <2>1. Len(ks) \in Nat /\ K \in SUBSET (1..Len(ks))
        <3>1. DOMAIN ks = 1..Len(ks) /\ Len(ks) \in Nat
            OBVIOUS
        <3> QED
            BY <3>1, <1>7
    <2>2. Cardinality(K) <= Len(ks)
        <3>1. IsFiniteSet(1..Len(ks)) /\ Cardinality(1..Len(ks)) = Len(ks)
            BY <2>1, IntervalSize
        <3> QED
            BY ONLY <2>1, <3>1, FS_Subset
    <2>3. Len(q) = Cardinality(K)
        BY ONLY <1>1, <1>2, KeepProperties DEF q
    <2> QED
        BY <2>1, <2>2, <2>3, <1>3, <1>5
<1> QED
    BY <1>5, <1>10, <1>11, <1>12, <1>13, <1>14

(* Evicting from the front leaves at most MaxClients keys, in their order; *)
(* the last key, the requester's, is never evicted.                        *)
LEMMA EnforceLemma ==
    ASSUME NEW m \in Seq(Clients), Len(m) # 0,
           \A i, j \in DOMAIN m : m[i] = m[j] => i = j
    PROVE  /\ Enforced(m) \in Seq(Clients)
           /\ Len(Enforced(m)) \in Nat \ {0}
           /\ Len(Enforced(m)) <= MaxClients
           /\ Surplus(m) \in Nat /\ Len(m) = Surplus(m) + Len(Enforced(m))
           /\ \A i \in DOMAIN Enforced(m) :
                 /\ i \in 1..Len(Enforced(m))
                 /\ Surplus(m) + i \in DOMAIN m
                 /\ Enforced(m)[i] = m[Surplus(m) + i]
           /\ Range(Enforced(m)) = Range(m) \ Evicted(m)
           /\ Evicted(m) \subseteq Range(m)
           /\ m[Len(m)] \notin Evicted(m)
<1> DEFINE n == Surplus(m)
           e == Enforced(m)
           L == Len(m)
<1>1. L \in Nat /\ L # 0 /\ DOMAIN m = 1..L /\ MaxClients \in Nat /\ MaxClients # 0
    BY SettingsAssumption
<1> HIDE DEF L
<1>2. n \in Nat /\ n < L /\ L - n <= MaxClients
    BY <1>1 DEF Surplus, L
<1>3. e = SubSeq(m, n + 1, L)
    BY DEF Enforced, L
<1> HIDE DEF n, e
<1>4. /\ e \in Seq(Clients)
      /\ Len(e) = L - n
      /\ \A i \in 1..(L - n) : e[i] = m[n + i]
    <2>1. \A i \in (n + 1)..L : m[i] \in Clients
        BY <1>1, <1>2
    <2>2. n + 1 \in Int /\ L \in Int
        BY <1>1, <1>2
    <2>3. /\ SubSeq(m, n + 1, L) \in Seq(Clients)
          /\ Len(SubSeq(m, n + 1, L)) = IF n + 1 <= L THEN L - (n + 1) + 1 ELSE 0
          /\ \A i \in 1..(L - (n + 1) + 1) : SubSeq(m, n + 1, L)[i] = m[(n + 1) + i - 1]
        BY ONLY <2>1, <2>2, SubSeqProperties
    <2>4. /\ n + 1 <= L /\ L - (n + 1) + 1 = L - n
          /\ \A i \in Nat : (n + 1) + i - 1 = n + i
        BY <1>1, <1>2
    <2>5. \A i \in 1..(L - n) : i \in Nat
        BY <1>1, <1>2
    <2> QED
        BY <1>3, <2>3, <2>4, <2>5
<1>5. Len(e) \in Nat \ {0} /\ Len(e) <= MaxClients /\ DOMAIN e = 1..Len(e) /\ L = n + Len(e)
    BY <1>1, <1>2, <1>4
<1>6. \A i \in DOMAIN e : i \in 1..Len(e) /\ n + i \in DOMAIN m /\ e[i] = m[n + i]
    BY <1>1, <1>2, <1>4, <1>5
<1>7. Evicted(m) = {m[i] : i \in 1..n}
    BY DEF Evicted, n
<1>8. \A i \in 1..n : i \in DOMAIN m
    BY <1>1, <1>2
<1>9. Range(e) = Range(m) \ Evicted(m)
    <2>1. ASSUME NEW x \in Range(e) PROVE x \in Range(m) \ Evicted(m)
        <3>1. PICK i \in DOMAIN e : x = e[i]
            BY DEF Range
        <3>2. n + i \in DOMAIN m /\ x = m[n + i]
            BY <3>1, <1>6
        <3>3. \A j \in 1..n : j # n + i
            BY <3>1, <1>2, <1>6
        <3>4. \A j \in 1..n : m[j] # x
            BY <3>2, <3>3, <1>8
        <3> QED
            BY <3>2, <3>4, <1>7 DEF Range
    <2>2. ASSUME NEW x \in Range(m) \ Evicted(m) PROVE x \in Range(e)
        <3>1. PICK j \in DOMAIN m : x = m[j]
            BY DEF Range
        <3>2. j \in 1..L /\ ~(j \in 1..n)
            BY <3>1, <1>1, <1>7
        <3> DEFINE i == j - n
        <3>3. i \in 1..(L - n) /\ n + i = j
            BY <3>2, <1>1, <1>2
        <3> HIDE DEF i
        <3>4. i \in DOMAIN e /\ e[i] = x
            BY <3>1, <3>3, <1>4, <1>5
        <3> QED
            BY <3>4 DEF Range
    <2> QED
        BY <2>1, <2>2
<1>10. m[L] \notin Evicted(m)
    <2>1. L \in DOMAIN m /\ \A j \in 1..n : j # L
        BY <1>1, <1>2
    <2> QED
        BY <2>1, <1>7, <1>8
<1>11. Evicted(m) \subseteq Range(m)
    BY <1>7, <1>8 DEF Range
<1> QED
    BY <1>2, <1>4, <1>5, <1>6, <1>9, <1>10, <1>11 DEF L, n, e

-----------------------------------------------------------------------------
(* The last entry of a recorded list is the client's last accepted request. *)
LEMMA LatestLemma ==
    ASSUME TypeOK, TimeOrder, NEW c \in Clients, NEW ts \in Seq(Nat),
           Recorded(ts, c), ts # <<>>
    PROVE  Latest(ts) \in Nat /\ Latest(ts) <= clock
<1> DEFINE h == served[c]
<1>1. /\ h \in Seq(Nat) /\ Len(h) \in Nat /\ DOMAIN h = 1..Len(h)
      /\ Len(ts) \in Nat /\ Len(ts) # 0 /\ DOMAIN ts = 1..Len(ts)
    BY DEF TypeOK
<1>2. /\ Len(h) - Len(ts) >= 0
      /\ \A i \in DOMAIN ts : ts[i] = h[(Len(h) - Len(ts)) + i]
    BY DEF Recorded
<1> HIDE DEF h
<1>3. Len(ts) \in DOMAIN ts /\ (Len(h) - Len(ts)) + Len(ts) = Len(h) /\ Len(h) \in DOMAIN h
    BY <1>1, <1>2
<1>4. ts[Len(ts)] = h[Len(h)]
    BY <1>2, <1>3
<1>5. h[Len(h)] \in Nat
    BY <1>1, <1>3
<1>6. h[Len(h)] <= clock
    <2>1. Len(h) <= Len(h)
        BY <1>1
    <2> QED
        BY <1>3, <2>1 DEF TimeOrder, h
<1> QED
    BY <1>4, <1>5, <1>6 DEF Latest

(* A refused request prunes its client's list and moves nothing. *)
LEMMA RejectLemma ==
    ASSUME IInv, NEW c \in Clients, Reject(c)
    PROVE  IInv'
<1> DEFINE ks == KeysAfterCleanup(clock)
           st == StampsAfterCleanup(clock)
           ts == Pruned(st[c], clock)
<1>1. /\ ks \in Seq(Clients)
      /\ st \in [Clients -> Seq(Nat)]
      /\ LastCleanupAfter(clock) \in Nat
      /\ LastCleanupAfter(clock) <= clock
      /\ Len(ks) <= MaxClients
      /\ KeysMatch(ks, st)
      /\ Ordered(ks, st)
      /\ \A d \in Clients : Len(st[d]) <= Limit /\ Recorded(st[d], d)
      /\ \A d \in Range(ks) : LastCleanupAfter(clock) - Latest(st[d]) < Window
    BY CleanupLemma
<1>2. TypeOK /\ TimeOrder /\ WindowLimit
    BY DEF IInv
<1>3. /\ Len(ts) >= Limit
      /\ keys' = Assigned(ks, c)
      /\ stamps' = [st EXCEPT ![c] = ts]
      /\ lastCleanup' = LastCleanupAfter(clock)
      /\ verdict' = [client |-> c, limited |-> TRUE]
      /\ clock' = clock /\ served' = served
    BY DEF Reject
<1> HIDE DEF ks, st
<1>4. st[c] \in Seq(Nat) /\ Recorded(st[c], c)
    BY <1>1
<1>5. /\ ts \in Seq(Nat)
      /\ Len(ts) <= Len(st[c])
      /\ Recorded(ts, c)
      /\ ts # <<>> => st[c] # <<>> /\ Latest(ts) = Latest(st[c])
    BY ONLY <1>2, <1>4, c \in Clients, PruneLemma
<1> HIDE DEF ts
<1>6. ts # <<>> /\ Len(ts) <= Limit
    <2>1. Len(ts) \in Nat /\ Len(st[c]) \in Nat /\ Len(st[c]) <= Limit /\ Limit \in Nat \ {0}
        BY <1>1, <1>4, <1>5, SettingsAssumption
    <2> QED
        BY <2>1, <1>3, <1>5
<1>7. keys' = ks
    BY <1>1, <1>3, <1>5, <1>6 DEF KeysMatch, Assigned
<1>8. /\ stamps' \in [Clients -> Seq(Nat)]
      /\ stamps'[c] = ts
      /\ \A d \in Clients : d # c => stamps'[d] = st[d]
    BY <1>1, <1>3, <1>5
<1>9. \A d \in Clients : st[d] # <<>> => Latest(stamps'[d]) = Latest(st[d])
    BY <1>5, <1>6, <1>8
<1>10. TypeOK'
    BY <1>1, <1>2, <1>3, <1>7, <1>8 DEF TypeOK
<1>11. \A i \in DOMAIN ks : ks[i] \in Clients /\ st[ks[i]] # <<>>
    BY <1>1 DEF KeysMatch, Range
<1>12. StoreBounded'
    <2>1. \A d \in Clients : d \in Range(ks) <=> stamps'[d] # <<>>
        BY <1>1, <1>5, <1>6, <1>8 DEF KeysMatch
    <2>2. KeysMatch(keys, stamps)'
        BY <2>1, <1>1, <1>7 DEF KeysMatch
    <2>3. \A d \in Clients : Len(stamps'[d]) <= Limit
        BY <1>1, <1>6, <1>8
    <2> QED
        BY <2>2, <2>3, <1>1, <1>7 DEF StoreBounded
<1>13. LruOrder'
    BY <1>1, <1>7, <1>9, <1>11 DEF LruOrder, Ordered
<1>14. NoDeadEntry'
    <2>1. \A d \in Range(ks) : d \in Clients /\ st[d] # <<>>
        BY <1>11 DEF Range
    <2> QED
        BY <2>1, <1>1, <1>3, <1>7, <1>9 DEF NoDeadEntry
<1>15. WindowLimit'
    BY <1>2, <1>3 DEF WindowLimit
<1>16. HistoryKept'
    <2> SUFFICES ASSUME NEW d \in Clients PROVE Recorded(stamps[d], d)'
        BY DEF HistoryKept
    <2>1. Recorded(stamps'[d], d)
        BY <1>1, <1>5, <1>8
    <2> QED
        BY <2>1, <1>3 DEF Recorded
<1>17. TimeOrder'
    BY <1>1, <1>2, <1>3 DEF TimeOrder
<1> QED
    BY <1>10, <1>12, <1>13, <1>14, <1>15, <1>16, <1>17 DEF IInv

(* An accepted request is recorded; its client becomes the last key; the   *)
(* front is evicted. The window cannot overflow: fewer than Limit entries  *)
(* were left by the pruning, so the Limit-th last request is older.        *)
LEMMA AcceptLemma ==
    ASSUME IInv, NEW c \in Clients, Accept(c)
    PROVE  IInv'
<1> DEFINE ks == KeysAfterCleanup(clock)
           st == StampsAfterCleanup(clock)
           ts == Pruned(st[c], clock)
           m == MovedToEnd(Assigned(ks, c), c)
           E == Evicted(m)
<1>1. /\ ks \in Seq(Clients)
      /\ st \in [Clients -> Seq(Nat)]
      /\ LastCleanupAfter(clock) \in Nat
      /\ LastCleanupAfter(clock) <= clock
      /\ Len(ks) <= MaxClients
      /\ KeysMatch(ks, st)
      /\ Ordered(ks, st)
      /\ \A d \in Clients : Len(st[d]) <= Limit /\ Recorded(st[d], d)
      /\ \A d \in Range(ks) : LastCleanupAfter(clock) - Latest(st[d]) < Window
    BY CleanupLemma
<1>2. TypeOK /\ TimeOrder /\ WindowLimit
    BY DEF IInv
<1>3. /\ Len(ts) < Limit
      /\ keys' = Enforced(m)
      /\ stamps' = [d \in Clients |->
                       IF d \in E THEN <<>>
                       ELSE IF d = c THEN Append(ts, clock) ELSE st[d]]
      /\ lastCleanup' = LastCleanupAfter(clock)
      /\ verdict' = [client |-> c, limited |-> FALSE]
      /\ served' = [d \in Clients |->
                       IF d \in E THEN <<>>
                       ELSE IF d = c THEN Append(served[d], clock) ELSE served[d]]
      /\ clock' = clock
    BY DEF Accept
<1> HIDE DEF ks, st
<1>4. st[c] \in Seq(Nat) /\ Recorded(st[c], c)
    BY <1>1
<1>5. ts \in Seq(Nat) /\ Recorded(ts, c)
    BY ONLY <1>2, <1>4, c \in Clients, PruneLemma
<1>6. \A i, j \in DOMAIN ks : ks[i] = ks[j] => i = j
    BY <1>1 DEF KeysMatch
<1>7. m = MovedToEnd(Assigned(ks, c), c)
    OBVIOUS
<1> HIDE DEF ts, m, E
<1>8. /\ m \in Seq(Clients) /\ Len(m) \in Nat \ {0}
      /\ m[Len(m)] = c
      /\ \A i, j \in DOMAIN m : m[i] = m[j] => i = j
      /\ Range(m) = Range(ks) \cup {c}
      /\ \A i, j \in DOMAIN m : i < j /\ j < Len(m) =>
            \E a, b \in DOMAIN ks : a < b /\ m[i] = ks[a] /\ m[j] = ks[b]
    <2>1. ks \in Seq(Clients)
        BY <1>1
    <2> QED
        BY ONLY <2>1, <1>6, <1>7, c \in Clients, MoveLemma
<1>9. /\ Enforced(m) \in Seq(Clients)
      /\ Len(Enforced(m)) \in Nat \ {0}
      /\ Len(Enforced(m)) <= MaxClients
      /\ Surplus(m) \in Nat /\ Len(m) = Surplus(m) + Len(Enforced(m))
      /\ \A i \in DOMAIN Enforced(m) :
            /\ i \in 1..Len(Enforced(m))
            /\ Surplus(m) + i \in DOMAIN m
            /\ Enforced(m)[i] = m[Surplus(m) + i]
      /\ Range(Enforced(m)) = Range(m) \ Evicted(m)
      /\ Evicted(m) \subseteq Range(m)
      /\ m[Len(m)] \notin Evicted(m)
    <2>1. Len(m) # 0
        BY <1>8
    <2> QED
        BY ONLY <2>1, <1>8, EnforceLemma
<1>10. /\ c \notin E /\ stamps'[c] = Append(ts, clock)
       /\ served'[c] = Append(served[c], clock)
       /\ \A d \in Clients : d \in E => stamps'[d] = <<>> /\ served'[d] = <<>>
       /\ \A d \in Clients : d \notin E /\ d # c => stamps'[d] = st[d] /\ served'[d] = served[d]
    BY <1>3, <1>8, <1>9 DEF E
<1>11. /\ clock \in Nat /\ MaxClients \in Nat /\ Limit \in Nat /\ Window \in Nat
       /\ Limit # 0 /\ Window # 0
       /\ served \in [Clients -> Seq(Nat)]
    BY <1>2, SettingsAssumption DEF TypeOK
<1>12. TypeOK'
    <2>1. stamps' \in [Clients -> Seq(Nat)]
        BY <1>1, <1>3, <1>5, <1>11
    <2>2. served' \in [Clients -> Seq(Nat)]
        BY <1>3, <1>11
    <2>3. keys' \in Seq(Clients) /\ lastCleanup' \in Nat /\ clock' \in Nat
        BY <1>1, <1>3, <1>9, <1>11
    <2>4. verdict' \in [client : Clients \cup {"nobody"}, limited : BOOLEAN]
        BY <1>3
    <2> QED
        BY <2>1, <2>2, <2>3, <2>4 DEF TypeOK
<1>13. /\ stamps'[c] # <<>> /\ Latest(stamps'[c]) = clock
       /\ Len(stamps'[c]) = Len(ts) + 1 /\ Len(ts) \in Nat
    <2>1. /\ Len(Append(ts, clock)) = Len(ts) + 1
          /\ Append(ts, clock)[Len(ts) + 1] = clock /\ Len(ts) \in Nat
        BY <1>5, <1>11
    <2>2. Len(stamps'[c]) # 0 /\ Len(<<>>) = 0
        BY <2>1, <1>10
    <2> QED
        BY <2>1, <2>2, <1>10 DEF Latest
<1>14. StoreBounded'
    <2>1. ASSUME NEW d \in Clients PROVE d \in Range(keys') <=> stamps'[d] # <<>>
        <3>1. d \in Range(keys') <=> (d \in Range(ks) \/ d = c) /\ d \notin E
            BY <1>3, <1>8, <1>9 DEF E
        <3>2. d \in Range(ks) <=> st[d] # <<>>
            BY <1>1 DEF KeysMatch
        <3> QED
            BY <3>1, <3>2, <1>10, <1>13
    <2>2. ASSUME NEW i \in DOMAIN keys', NEW j \in DOMAIN keys', keys'[i] = keys'[j]
          PROVE  i = j
        <3> DEFINE n == Surplus(m)
        <3>1. /\ n + i \in DOMAIN m /\ n + j \in DOMAIN m /\ m[n + i] = m[n + j]
              /\ i \in 1..Len(Enforced(m)) /\ j \in 1..Len(Enforced(m)) /\ n \in Nat
              /\ Len(Enforced(m)) \in Nat
            BY <1>3, <1>9, <2>2
        <3> HIDE DEF n
        <3>2. n + i = n + j
            BY <1>8, <3>1
        <3> QED
            BY <3>1, <3>2
    <2>3. KeysMatch(keys, stamps)'
        BY <2>1, <2>2 DEF KeysMatch
    <2>4. \A d \in Clients : Len(stamps'[d]) <= Limit
        <3> SUFFICES ASSUME NEW d \in Clients PROVE Len(stamps'[d]) <= Limit
            OBVIOUS
        <3>1. CASE d \in E
            BY <3>1, <1>10, <1>11
        <3>2. CASE d = c
            BY <3>2, <1>3, <1>11, <1>13
        <3>3. CASE d \notin E /\ d # c
            BY <3>3, <1>1, <1>10
        <3> QED
            BY <3>1, <3>2, <3>3
    <2> QED
        BY <2>3, <2>4, <1>3, <1>9 DEF StoreBounded
<1>15. \A d \in Clients : st[d] # <<>> => Latest(st[d]) \in Nat /\ Latest(st[d]) <= clock
    <2> SUFFICES ASSUME NEW d \in Clients, st[d] # <<>>
                 PROVE  Latest(st[d]) \in Nat /\ Latest(st[d]) <= clock
        OBVIOUS
    <2>1. st[d] \in Seq(Nat) /\ Recorded(st[d], d)
        BY <1>1
    <2> QED
        BY ONLY <1>2, <2>1, d \in Clients, st[d] # <<>>, LatestLemma
<1>16. \A d \in Range(keys') : d \in Clients /\ d \notin E /\ (d # c => st[d] # <<>> /\ d \in Range(ks))
    <2>1. \A d \in Range(keys') : d \in Clients
        BY <1>3, <1>9 DEF Range
    <2> QED
        BY <2>1, <1>1, <1>3, <1>8, <1>9 DEF E, KeysMatch
<1>17. LruOrder'
    <2> SUFFICES ASSUME NEW i \in DOMAIN keys', NEW j \in DOMAIN keys', i < j
                 PROVE  Latest(stamps'[keys'[i]]) <= Latest(stamps'[keys'[j]])
        BY DEF LruOrder, Ordered
    <2> DEFINE n == Surplus(m)
    <2>1. /\ n + i \in DOMAIN m /\ n + j \in DOMAIN m
          /\ keys'[i] = m[n + i] /\ keys'[j] = m[n + j]
          /\ i \in 1..Len(Enforced(m)) /\ j \in 1..Len(Enforced(m)) /\ n \in Nat
          /\ Len(Enforced(m)) \in Nat /\ Len(m) = n + Len(Enforced(m))
        BY <1>3, <1>9
    <2> HIDE DEF n
    <2>2. n + i < n + j /\ n + j <= Len(m) /\ n + i # Len(m)
        BY <2>1
    <2>3. keys'[i] \in Range(keys') /\ keys'[j] \in Range(keys')
        BY DEF Range
    <2>4. Len(m) \in DOMAIN m
        BY <1>8
    <2>5. keys'[i] # c
        BY <2>1, <2>2, <2>4, <1>8
    <2>6. /\ stamps'[keys'[i]] = st[keys'[i]]
          /\ st[keys'[i]] # <<>> /\ keys'[i] \in Clients
        BY <2>3, <2>5, <1>10, <1>16
    <2>7. CASE n + j = Len(m)
        BY <2>1, <2>6, <2>7, <1>8, <1>13, <1>15
    <2>8. CASE n + j # Len(m)
        <3>1. n + j < Len(m)
            BY <2>1, <2>2, <2>8, <1>8
        <3>2. PICK a, b \in DOMAIN ks : a < b /\ m[n + i] = ks[a] /\ m[n + j] = ks[b]
            BY <2>1, <2>2, <3>1, <1>8
        <3>3. keys'[j] # c
            BY <2>1, <2>4, <2>8, <1>8
        <3>4. stamps'[keys'[j]] = st[keys'[j]]
            BY <2>3, <3>3, <1>10, <1>16
        <3> QED
            BY <3>2, <3>4, <2>1, <2>6, <1>1 DEF Ordered
    <2> QED
        BY <2>7, <2>8
<1>18. NoDeadEntry'
    <2> SUFFICES ASSUME NEW d \in Range(keys')
                 PROVE  LastCleanupAfter(clock) - Latest(stamps'[d]) < Window
        BY <1>3 DEF NoDeadEntry
    <2>1. CASE d = c
        BY <2>1, <1>1, <1>11, <1>13
    <2>2. CASE d # c
        BY <2>2, <1>1, <1>10, <1>16
    <2> QED
        BY <2>1, <2>2
<1> DEFINE h == served[c]
<1>19. /\ h \in Seq(Nat) /\ Len(h) \in Nat /\ DOMAIN h = 1..Len(h)
       /\ served'[c] \in Seq(Nat)
       /\ Len(served'[c]) = Len(h) + 1
       /\ DOMAIN served'[c] = 1..(Len(h) + 1)
       /\ served'[c][Len(h) + 1] = clock
       /\ \A i \in 1..Len(h) : served'[c][i] = h[i] /\ h[i] \in Nat
    BY <1>10, <1>11
<1>20. /\ Len(h) - Len(ts) >= 0
       /\ \A i \in DOMAIN ts : ts[i] = h[(Len(h) - Len(ts)) + i]
       /\ \A i \in 1..(Len(h) - Len(ts)) : clock - h[i] >= Window
    BY <1>5 DEF Recorded
<1>21. /\ DOMAIN served'[c] = 1..Len(served'[c])
       /\ \A d \in Clients : d \in E => DOMAIN served'[d] = {}
    BY <1>10, <1>19
<1>22. WindowLimit'
    <2> SUFFICES ASSUME NEW d \in Clients, NEW i \in DOMAIN served'[d],
                        i + Limit <= Len(served'[d])
                 PROVE  served'[d][i + Limit] - served'[d][i] >= Window
        BY DEF WindowLimit
    <2>1. CASE d \notin E /\ d # c
        BY <2>1, <1>2, <1>10 DEF WindowLimit
    <2>2. CASE d = c
        <3> HIDE DEF h
        <3>0. i \in 1..(Len(h) + 1) /\ i + Limit <= Len(h) + 1
            BY <2>2, <1>19
        <3>1. i \in 1..Len(h) /\ i \in Nat
            BY <3>0, <1>11, <1>19
        <3>2. CASE i + Limit = Len(h) + 1
            <4>1. i \in 1..(Len(h) - Len(ts))
                BY <3>1, <3>2, <1>3, <1>11, <1>13, <1>19
            <4> QED
                BY <4>1, <3>1, <3>2, <2>2, <1>19, <1>20
        <3>3. CASE i + Limit # Len(h) + 1
            <4>1. i + Limit <= Len(h) /\ i + Limit \in 1..Len(h)
                <5>1. Len(h) \in Nat /\ i \in Nat /\ i # 0 /\ Limit \in Nat
                    BY <3>1, <1>11, <1>19
                <5> QED
                    BY ONLY <5>1, <3>0, <3>3
            <4>2. h[i + Limit] - h[i] >= Window
                BY <4>1, <3>1, <1>2, <1>19 DEF WindowLimit, h
            <4> QED
                BY <4>1, <4>2, <3>1, <2>2, <1>19
        <3> QED
            BY <3>2, <3>3
    <2>3. CASE d \in E
        BY <2>3, <1>21
    <2> QED
        BY <2>1, <2>2, <2>3
<1>23. HistoryKept'
    <2> SUFFICES ASSUME NEW d \in Clients PROVE Recorded(stamps[d], d)'
        BY DEF HistoryKept
    <2>1. CASE d \notin E /\ d # c
        BY <2>1, <1>1, <1>3, <1>10 DEF Recorded
    <2>2. CASE d = c
        <3> HIDE DEF h
        <3> DEFINE s2 == stamps'[c]
                   h2 == served'[c]
        <3>1. /\ s2 \in Seq(Nat) /\ Len(s2) = Len(ts) + 1 /\ DOMAIN s2 = 1..(Len(ts) + 1)
              /\ s2[Len(ts) + 1] = clock
              /\ \A i \in 1..Len(ts) : s2[i] = ts[i]
              /\ DOMAIN ts = 1..Len(ts)
            BY <1>5, <1>10, <1>11
        <3>2. /\ Len(h2) = Len(h) + 1 /\ h2[Len(h) + 1] = clock
              /\ \A i \in 1..Len(h) : h2[i] = h[i] /\ h[i] \in Nat
            BY <1>19
        <3> HIDE DEF s2, h2
        <3>3. Len(h2) - Len(s2) = Len(h) - Len(ts) /\ Len(h2) - Len(s2) >= 0
            BY <3>1, <3>2, <1>13, <1>19, <1>20
        <3>4. \A i \in DOMAIN s2 : s2[i] = h2[(Len(h2) - Len(s2)) + i]
            <4> SUFFICES ASSUME NEW i \in 1..(Len(ts) + 1)
                         PROVE  s2[i] = h2[(Len(h) - Len(ts)) + i]
                BY <3>1, <3>3
            <4>1. CASE i = Len(ts) + 1
                <5>1. (Len(h) - Len(ts)) + i = Len(h) + 1
                    BY <4>1, <1>13, <1>19
                <5> QED
                    BY <4>1, <5>1, <3>1, <3>2
            <4>2. CASE i # Len(ts) + 1
                <5>1. i \in 1..Len(ts) /\ (Len(h) - Len(ts)) + i \in 1..Len(h)
                    BY <4>2, <1>13, <1>19, <1>20
                <5> QED
                    BY <5>1, <3>1, <3>2, <1>20
            <4> QED
                BY <4>1, <4>2
        <3>5. \A i \in 1..(Len(h2) - Len(s2)) : clock - h2[i] >= Window
            <4> SUFFICES ASSUME NEW i \in 1..(Len(h) - Len(ts))
                         PROVE  clock - h2[i] >= Window
                BY <3>3
            <4>1. i \in 1..Len(h)
                BY <1>13, <1>19
            <4> QED
                BY <4>1, <3>2, <1>20
        <3> QED
            BY <2>2, <3>3, <3>4, <3>5, <1>3 DEF Recorded, s2, h2
    <2>3. CASE d \in E
        <3>1. stamps'[d] = <<>> /\ served'[d] = <<>>
            BY <2>3, <1>10
        <3>2. Len(<<>>) - Len(<<>>) = 0 /\ DOMAIN <<>> = {} /\ 1..0 = {}
            OBVIOUS
        <3> QED
            BY <3>1, <3>2 DEF Recorded
    <2> QED
        BY <2>1, <2>2, <2>3
<1>24. TimeOrder'
    <2>1. lastCleanup' <= clock'
        BY <1>1, <1>3
    <2>2. ASSUME NEW d \in Clients, NEW i \in DOMAIN served'[d],
                 NEW j \in DOMAIN served'[d], i <= j
          PROVE  served'[d][i] <= served'[d][j] /\ served'[d][j] <= clock
        <3>1. CASE d \notin E /\ d # c
            BY <3>1, <2>2, <1>2, <1>10 DEF TimeOrder
        <3>2. CASE d \in E
            BY <3>2, <1>21
        <3>3. CASE d = c
            <4> HIDE DEF h
            <4>1. i \in 1..(Len(h) + 1) /\ j \in 1..(Len(h) + 1)
                BY <3>3, <1>19
            <4>2. \A a, b \in 1..Len(h) : a <= b => h[a] <= h[b] /\ h[b] <= clock
                BY <1>2, <1>19 DEF TimeOrder, h
            <4>3. \A a \in 1..Len(h) : h[a] <= clock
                <5> SUFFICES ASSUME NEW a \in 1..Len(h) PROVE h[a] <= clock
                    OBVIOUS
                <5>1. a <= a
                    BY <1>19
                <5> QED
                    BY <4>2, <5>1
            <4>4. CASE j = Len(h) + 1
                <5>1. CASE i = Len(h) + 1
                    BY <4>4, <5>1, <3>3, <1>11, <1>19
                <5>2. CASE i # Len(h) + 1
                    <6>1. i \in 1..Len(h)
                        BY <4>1, <5>2, <1>19
                    <6> QED
                        BY <6>1, <4>3, <4>4, <3>3, <1>11, <1>19
                <5> QED
                    BY <5>1, <5>2
            <4>5. CASE j # Len(h) + 1
                <5>1. i \in 1..Len(h) /\ j \in 1..Len(h)
                    BY <4>1, <4>5, <2>2, <1>19
                <5> QED
                    BY <5>1, <4>2, <2>2, <3>3, <1>19
            <4> QED
                BY <4>4, <4>5
        <3> QED
            BY <3>1, <3>2, <3>3
    <2> QED
        BY <2>1, <2>2, <1>3 DEF TimeOrder
<1> QED
    BY <1>12, <1>14, <1>17, <1>18, <1>22, <1>23, <1>24 DEF IInv

(* Time passing changes nothing the store says. *)
LEMMA TickLemma ==
    ASSUME IInv, Tick
    PROVE  IInv'
<1>1. /\ clock' = clock + 1 /\ keys' = keys /\ stamps' = stamps
      /\ lastCleanup' = lastCleanup /\ verdict' = verdict /\ served' = served
    BY DEF Tick
<1>2. TypeOK /\ clock \in Nat /\ Window \in Nat /\ served \in [Clients -> Seq(Nat)]
    BY SettingsAssumption DEF IInv, TypeOK
<1>3. TypeOK'
    BY <1>1, <1>2 DEF TypeOK
<1>4. StoreBounded' /\ LruOrder' /\ NoDeadEntry' /\ WindowLimit'
    BY <1>1 DEF IInv, StoreBounded, KeysMatch, LruOrder, Ordered, NoDeadEntry, WindowLimit
<1>5. HistoryKept'
    <2> SUFFICES ASSUME NEW c \in Clients PROVE Recorded(stamps[c], c)'
        BY DEF HistoryKept
    <2> DEFINE old == Len(served[c]) - Len(stamps[c])
    <2>1. /\ old >= 0
          /\ \A i \in DOMAIN stamps[c] : stamps[c][i] = served[c][old + i]
          /\ \A i \in 1..old : clock - served[c][i] >= Window
        BY DEF IInv, HistoryKept, Recorded
    <2>2. \A i \in 1..old : served[c][i] \in Nat
        <3>1. /\ served[c] \in Seq(Nat) /\ Len(served[c]) \in Nat
              /\ stamps[c] \in Seq(Nat) /\ Len(stamps[c]) \in Nat
            BY <1>2 DEF TypeOK
        <3>2. \A i \in 1..old : i \in 1..Len(served[c])
            BY <3>1
        <3>3. \A i \in 1..Len(served[c]) : served[c][i] \in Nat
            BY <3>1
        <3> QED
            BY ONLY <3>2, <3>3
    <2>3. old = Len(served[c]) - Len(stamps[c])
        OBVIOUS
    <2> HIDE DEF old
    <2>4. \A i \in 1..old : clock' - served[c][i] >= Window
        BY <1>1, <1>2, <2>1, <2>2
    <2>5. /\ old >= 0
          /\ \A i \in DOMAIN stamps'[c] : stamps'[c][i] = served'[c][old + i]
          /\ \A i \in 1..old : clock' - served'[c][i] >= Window
          /\ old = Len(served'[c]) - Len(stamps'[c])
        <3>1. served' = served /\ stamps' = stamps
            BY <1>1
        <3> QED
            BY ONLY <3>1, <2>1, <2>3, <2>4
    <2> QED
        BY <2>5 DEF Recorded
<1>6. TimeOrder'
    <2>1. lastCleanup <= clock + 1
        BY <1>2 DEF IInv, TimeOrder, TypeOK
    <2>2. ASSUME NEW c \in Clients, NEW i \in DOMAIN served[c],
                 NEW j \in DOMAIN served[c], i <= j
          PROVE  served[c][i] <= served[c][j] /\ served[c][j] <= clock + 1
        <3>1. served[c][i] <= served[c][j] /\ served[c][j] <= clock
            BY <2>2 DEF IInv, TimeOrder
        <3>2. served[c][j] \in Nat
            BY <1>2
        <3> QED
            BY <3>1, <3>2, <1>2
    <2> QED
        BY <1>1, <2>1, <2>2 DEF TimeOrder
<1> QED
    BY <1>3, <1>4, <1>5, <1>6 DEF IInv

(* A fresh process starts with an empty store. *)
LEMMA RestartLemma ==
    ASSUME IInv, Restart
    PROVE  IInv'
<1>1. /\ clock' = clock /\ keys' = <<>> /\ lastCleanup' = 0 /\ verdict' = NoVerdict
      /\ stamps' = [c \in Clients |-> <<>>] /\ served' = [c \in Clients |-> <<>>]
    BY DEF Restart
<1>2. clock \in Nat /\ MaxClients \in Nat /\ Limit \in Nat
    BY SettingsAssumption DEF IInv, TypeOK
<1>3. <<>> \in Seq(Clients) /\ <<>> \in Seq(Nat) /\ Len(<<>>) = 0 /\ DOMAIN <<>> = {}
    OBVIOUS
<1>4. TypeOK'
    BY <1>1, <1>2, <1>3 DEF TypeOK, NoVerdict
<1>5. \A c \in Clients : stamps'[c] = <<>> /\ served'[c] = <<>>
    BY <1>1
<1>6. Range(keys') = {} /\ DOMAIN keys' = {}
    BY <1>1, <1>3 DEF Range
<1>7. StoreBounded'
    BY <1>1, <1>2, <1>3, <1>5, <1>6 DEF StoreBounded, KeysMatch
<1>8. LruOrder' /\ NoDeadEntry'
    BY <1>6 DEF LruOrder, Ordered, NoDeadEntry
<1>9. WindowLimit'
    BY <1>3, <1>5 DEF WindowLimit
<1>10. HistoryKept'
    <2> SUFFICES ASSUME NEW c \in Clients PROVE Recorded(stamps[c], c)'
        BY DEF HistoryKept
    <2>1. Len(<<>>) - Len(<<>>) = 0 /\ 1..0 = {}
        OBVIOUS
    <2> QED
        BY <2>1, <1>3, <1>5 DEF Recorded
<1>11. TimeOrder'
    BY <1>1, <1>2, <1>3, <1>5 DEF TimeOrder
<1> QED
    BY <1>4, <1>7, <1>8, <1>9, <1>10, <1>11 DEF IInv

-----------------------------------------------------------------------------
(* The inductive invariant holds in every reachable state. TypeOK alone is *)
(* not enough: that a list is the in-window end of its client's history    *)
(* (HistoryKept) is what bounds the window, and that it rests on the       *)
(* ascending times (TimeOrder) that make pruning a cut from the front.     *)
THEOREM Invariance == Spec => []IInv
<1>1. Init => IInv
    <2> SUFFICES ASSUME Init PROVE IInv
        OBVIOUS
    <2>1. /\ CleanupInterval \in Nat /\ MaxClients \in Nat /\ Limit \in Nat
          /\ clock \in 0..CleanupInterval
          /\ keys = <<>> /\ stamps = [c \in Clients |-> <<>>] /\ lastCleanup = 0
          /\ verdict = NoVerdict /\ served = [c \in Clients |-> <<>>]
        BY SettingsAssumption DEF Init
    <2>2. <<>> \in Seq(Clients) /\ <<>> \in Seq(Nat) /\ Len(<<>>) = 0 /\ DOMAIN <<>> = {}
        OBVIOUS
    <2>3. TypeOK
        BY <2>1, <2>2 DEF TypeOK, NoVerdict
    <2>4. \A c \in Clients : stamps[c] = <<>> /\ served[c] = <<>>
        BY <2>1
    <2>5. Range(keys) = {} /\ DOMAIN keys = {}
        BY <2>1, <2>2 DEF Range
    <2>6. StoreBounded
        BY <2>1, <2>2, <2>4, <2>5 DEF StoreBounded, KeysMatch
    <2>7. LruOrder /\ NoDeadEntry
        BY <2>5 DEF LruOrder, Ordered, NoDeadEntry
    <2>8. WindowLimit
        BY <2>2, <2>4 DEF WindowLimit
    <2>9. HistoryKept
        <3> SUFFICES ASSUME NEW c \in Clients PROVE Recorded(stamps[c], c)
            BY DEF HistoryKept
        <3>1. Len(<<>>) - Len(<<>>) = 0 /\ 1..0 = {}
            OBVIOUS
        <3> QED
            BY <3>1, <2>2, <2>4 DEF Recorded
    <2>10. TimeOrder
        BY <2>1, <2>2, <2>4 DEF TimeOrder
    <2> QED
        BY <2>3, <2>6, <2>7, <2>8, <2>9, <2>10 DEF IInv
<1>2. IInv /\ [Next]_vars => IInv'
    <2> SUFFICES ASSUME IInv, [Next]_vars PROVE IInv'
        OBVIOUS
    <2>1. CASE Tick
        BY <2>1, TickLemma
    <2>2. CASE Restart
        BY <2>2, RestartLemma
    <2>3. ASSUME NEW c \in Clients, Accept(c) PROVE IInv'
        BY <2>3, AcceptLemma
    <2>4. ASSUME NEW c \in Clients, Reject(c) PROVE IInv'
        BY <2>4, RejectLemma
    <2>5. CASE UNCHANGED vars
        BY <2>5 DEF vars, IInv, TypeOK, StoreBounded, KeysMatch, LruOrder, Ordered,
                    NoDeadEntry, WindowLimit, HistoryKept, Recorded, TimeOrder
    <2> QED
        BY <2>1, <2>2, <2>3, <2>4, <2>5 DEF Next
<1> QED
    BY <1>1, <1>2, PTL DEF Spec

(* The store has the shape and the types of its annotations, always. *)
THEOREM TypeCorrect == Spec => []TypeOK
<1>1. IInv => TypeOK
    BY DEF IInv
<1> QED
    BY <1>1, Invariance, PTL

(* The limiter's memory never exceeds MaxClients lists of Limit times. *)
THEOREM StoreStaysBounded == Spec => []StoreBounded
<1>1. IInv => StoreBounded
    BY DEF IInv
<1> QED
    BY <1>1, Invariance, PTL

(* No client the store has kept is ever let through more than Limit times  *)
(* within a Window.                                                        *)
THEOREM WindowNeverExceeded == Spec => []WindowLimit
<1>1. IInv => WindowLimit
    BY DEF IInv
<1> QED
    BY <1>1, Invariance, PTL

(* The front of the store is always the client whose last accepted request *)
(* is the oldest.                                                          *)
THEOREM LeastRecentFirst == Spec => []LruOrder
<1>1. IInv => LruOrder
    BY DEF IInv
<1> QED
    BY <1>1, Invariance, PTL

(* No entry outlives a cleanup it was stale at. *)
THEOREM NoDeadEntryKept == Spec => []NoDeadEntry
<1>1. IInv => NoDeadEntry
    BY DEF IInv
<1> QED
    BY <1>1, Invariance, PTL

(* Pruning, cleaning up and refusing lose nothing that is still in the     *)
(* window.                                                                 *)
THEOREM HistoryNeverLost == Spec => []HistoryKept
<1>1. IInv => HistoryKept
    BY DEF IInv
<1> QED
    BY <1>1, Invariance, PTL

-----------------------------------------------------------------------------
(* The pruned list is as long as there are requests of the client in the   *)
(* window: what is_rate_limited counts is what the promise counts.         *)
LEMMA CountLemma ==
    ASSUME IInv, NEW c \in Clients
    PROVE  Cardinality(Promise!InWindow(c))
              = Len(Pruned(StampsAfterCleanup(clock)[c], clock))
<1> DEFINE st == StampsAfterCleanup(clock)
           ts == Pruned(st[c], clock)
           h == served[c]
           m == Len(h)
           n == Len(ts)
<1>1. TypeOK /\ TimeOrder
    BY DEF IInv
<1>2. st[c] \in Seq(Nat) /\ Recorded(st[c], c)
    BY CleanupLemma
<1> HIDE DEF st
<1>3. /\ ts \in Seq(Nat)
      /\ Recorded(ts, c)
      /\ \A j \in 1..Len(ts) : clock - ts[j] < Window
    BY ONLY <1>1, <1>2, c \in Clients, PruneLemma
<1> HIDE DEF ts
<1>4. /\ h \in Seq(Nat) /\ m \in Nat /\ DOMAIN h = 1..m
      /\ n \in Nat /\ DOMAIN ts = 1..n
      /\ \A i \in 1..m : h[i] \in Nat
      /\ clock \in Nat /\ Window \in Nat
    BY <1>1, <1>3, SettingsAssumption DEF TypeOK
<1>5. /\ m - n >= 0
      /\ \A i \in 1..n : ts[i] = h[(m - n) + i]
      /\ \A i \in 1..(m - n) : clock - h[i] >= Window
    BY <1>3, <1>4 DEF Recorded
<1>6. Promise!InWindow(c) = {i \in 1..m : clock - h[i] < Window}
    BY <1>4 DEF Promise!InWindow
<1> HIDE DEF h, m, n
<1>7. {i \in 1..m : clock - h[i] < Window} = (m - n + 1)..m
    <2>1. ASSUME NEW i \in 1..m, clock - h[i] < Window
          PROVE  i \in (m - n + 1)..m
        <3>1. ~(i \in 1..(m - n))
            BY <2>1, <1>4, <1>5
        <3> QED
            BY <3>1, <1>4, <1>5
    <2>2. ASSUME NEW i \in (m - n + 1)..m
          PROVE  i \in 1..m /\ clock - h[i] < Window
        <3> DEFINE j == i - (m - n)
        <3>1. j \in 1..n /\ (m - n) + j = i /\ i \in 1..m
            BY <1>4, <1>5
        <3> HIDE DEF j
        <3>2. ts[j] = h[i]
            BY <3>1, <1>5
        <3> QED
            BY <3>1, <3>2, <1>3 DEF n
    <2> QED
        BY <2>1, <2>2
<1>8. Cardinality((m - n + 1)..m) = n
    <2>1. m - n + 1 \in Int /\ m \in Int
        BY <1>4
    <2>2. Cardinality((m - n + 1)..m) = IF m - n + 1 > m THEN 0 ELSE m - (m - n + 1) + 1
        BY <2>1, FS_Interval
    <2> QED
        BY <2>2, <1>4
<1> QED
    BY <1>6, <1>7, <1>8 DEF n, ts, st

(* An entry's last time is its client's last accepted request. *)
LEMMA SameLatest ==
    ASSUME TypeOK, NEW d \in Clients, NEW ts \in Seq(Nat), Recorded(ts, d), ts # <<>>
    PROVE  served[d] # <<>> /\ Latest(ts) = served[d][Len(served[d])]
<1> DEFINE h == served[d]
<1>1. /\ h \in Seq(Nat) /\ Len(h) \in Nat
      /\ Len(ts) \in Nat /\ Len(ts) # 0 /\ DOMAIN ts = 1..Len(ts)
    BY DEF TypeOK
<1>2. /\ Len(h) - Len(ts) >= 0
      /\ \A i \in DOMAIN ts : ts[i] = h[(Len(h) - Len(ts)) + i]
    BY DEF Recorded
<1> HIDE DEF h
<1>3. Len(ts) \in DOMAIN ts /\ (Len(h) - Len(ts)) + Len(ts) = Len(h)
    BY <1>1, <1>2
<1>4. Len(h) # 0 /\ Len(<<>>) = 0
    BY <1>1, <1>2
<1> QED
    BY <1>2, <1>3, <1>4 DEF Latest, h

(* Both modules count with the same operator. *)
LEMMA SameCardinality ==
    ASSUME NEW S
    PROVE  Promise!Cardinality(S) = Cardinality(S)
BY DEF Promise!Cardinality, Cardinality

(* Accepting a request evicts nobody, or the one client at the front, to   *)
(* which every key left is at least as recent.                             *)
LEMMA EvictionLemma ==
    ASSUME IInv, NEW c \in Clients, NEW m,
           m = MovedToEnd(Assigned(KeysAfterCleanup(clock), c), c)
    PROVE  Evicted(m) \in {{}} \cup {{d} : d \in Promise!Losable(c)}
<1> DEFINE ks == KeysAfterCleanup(clock)
           st == StampsAfterCleanup(clock)
           L == Len(m)
<1>1. /\ ks \in Seq(Clients)
      /\ st \in [Clients -> Seq(Nat)]
      /\ Len(ks) <= MaxClients
      /\ KeysMatch(ks, st)
      /\ Ordered(ks, st)
      /\ \A d \in Clients : Recorded(st[d], d)
    BY CleanupLemma
<1>2. \A i, j \in DOMAIN ks : ks[i] = ks[j] => i = j
    BY <1>1 DEF KeysMatch
<1>3. m = MovedToEnd(Assigned(ks, c), c) /\ ks \in Seq(Clients)
    BY <1>1
<1> HIDE DEF ks, st
<1>4. /\ m \in Seq(Clients) /\ Len(m) \in Nat \ {0}
      /\ Len(m) <= Len(ks) + 1
      /\ m[Len(m)] = c
      /\ \A i, j \in DOMAIN m : m[i] = m[j] => i = j
      /\ Range(m) = Range(ks) \cup {c}
      /\ \A i, j \in DOMAIN m : i < j /\ j < Len(m) =>
            \E a, b \in DOMAIN ks : a < b /\ m[i] = ks[a] /\ m[j] = ks[b]
    BY ONLY <1>2, <1>3, c \in Clients, MoveLemma
<1>5. /\ L \in Nat \ {0} /\ DOMAIN m = 1..L /\ Len(ks) \in Nat
      /\ MaxClients \in Nat \ {0}
    BY <1>1, <1>4, SettingsAssumption
<1> HIDE DEF L
<1>6. L <= MaxClients + 1
    <2>1. L <= Len(ks) + 1
        BY <1>4 DEF L
    <2> QED
        BY <2>1, <1>1, <1>5
<1>7. CASE L <= MaxClients
    <2>1. Surplus(m) = 0
        <3>1. ~(L > MaxClients)
            BY <1>5, <1>7
        <3> QED
            BY <3>1 DEF Surplus, L
    <2>2. 1..0 = {}
        OBVIOUS
    <2> QED
        BY <2>1, <2>2 DEF Evicted
<1>8. CASE L = MaxClients + 1
    <2> DEFINE d == m[1]
               A == Promise!AtLeastAsRecent(d, c)
    <2>1. Surplus(m) = 1
        BY <1>5, <1>8 DEF Surplus, L
    <2>2. Evicted(m) = {d}
        <3>1. 1..1 = {1}
            OBVIOUS
        <3> QED
            BY <2>1, <3>1 DEF Evicted
    <2>3. 1 \in DOMAIN m /\ L \in DOMAIN m /\ 1 < L /\ m[L] = c
        BY <1>4, <1>5, <1>8 DEF L
    <2>4. d \in Clients /\ d # c
        BY <1>4, <2>3
    <2>5. \A i \in DOMAIN m : m[i] \in Clients /\
              (m[i] # c => st[m[i]] \in Seq(Nat) /\ st[m[i]] # <<>> /\ Recorded(st[m[i]], m[i]))
        <3> SUFFICES ASSUME NEW i \in DOMAIN m
                     PROVE  m[i] \in Clients /\
                       (m[i] # c => st[m[i]] \in Seq(Nat) /\ st[m[i]] # <<>>
                                    /\ Recorded(st[m[i]], m[i]))
            OBVIOUS
        <3>1. m[i] \in Clients
            BY <1>4
        <3>2. m[i] # c => m[i] \in Range(ks)
            BY <1>4 DEF Range
        <3> QED
            BY <3>1, <3>2, <1>1 DEF KeysMatch
    <2>6. TypeOK
        BY DEF IInv
    <2>7. \A i \in DOMAIN m : m[i] # c =>
              /\ served[m[i]] # <<>>
              /\ Latest(st[m[i]]) = served[m[i]][Len(served[m[i]])]
        BY <2>5, <2>6, SameLatest
    <2>8. ASSUME NEW i \in 2..L PROVE m[i] \in A
        <3>1. i \in DOMAIN m /\ 1 < i /\ i <= L /\ i \in Nat
            BY <1>5
        <3>2. m[i] \in Clients \ {d}
            BY <1>4, <2>3, <2>5, <3>1
        <3>3. CASE i = L
            BY <3>2, <3>3, <2>3 DEF Promise!AtLeastAsRecent
        <3>4. CASE i # L
            <4>1. i < L
                BY <3>1, <3>4, <1>5
            <4>2. PICK a, b \in DOMAIN ks : a < b /\ d = ks[a] /\ m[i] = ks[b]
                BY <4>1, <3>1, <2>3, <1>4 DEF L
            <4>3. Latest(st[d]) <= Latest(st[m[i]])
                BY <4>2, <1>1 DEF Ordered
            <4>4. m[i] # c
                BY <1>4, <2>3, <3>1, <3>4
            <4>5. /\ Latest(st[d]) = served[d][Len(served[d])]
                  /\ served[m[i]] # <<>>
                  /\ Latest(st[m[i]]) = served[m[i]][Len(served[m[i]])]
                BY <2>3, <2>4, <2>7, <3>1, <4>4
            <4>6. Latest(st[d]) \in Nat /\ Latest(st[m[i]]) \in Nat
                <5>1. \A k \in DOMAIN m : m[k] # c => Latest(st[m[k]]) \in Nat
                    BY <2>5, LatestLemma DEF IInv
                <5> QED
                    BY <5>1, <2>3, <2>4, <3>1, <4>4
            <4>7. served[m[i]][Len(served[m[i]])] >= served[d][Len(served[d])]
                BY <4>3, <4>5, <4>6
            <4> QED
                BY <3>2, <4>5, <4>7 DEF Promise!AtLeastAsRecent
        <3> QED
            BY <3>3, <3>4
    <2>9. Cardinality(A) >= MaxClients
        <3> DEFINE f == [i \in 2..L |-> m[i]]
        <3>1. IsFiniteSet(A)
            <4>1. A \subseteq Clients
                BY DEF Promise!AtLeastAsRecent
            <4> HIDE DEF A
            <4> QED
                BY <4>1, ClientsAssumption, FS_Subset
        <3> HIDE DEF A
        <3>2. f \in [2..L -> A]
            BY <2>8
        <3>3. \A i, j \in 2..L : f[i] = f[j] => i = j
            <4>1. \A i \in 2..L : i \in DOMAIN m
                BY <1>5
            <4> QED
                BY <4>1, <1>4
        <3> HIDE DEF f
        <3>4. f \in Injection(2..L, A)
            BY ONLY <3>2, <3>3, Fun_IsInj
        <3>5. Cardinality(2..L) <= Cardinality(A)
            BY ONLY <3>1, <3>4, FS_Injection
        <3>6. Cardinality(2..L) = MaxClients
            <4>1. 2 \in Int /\ L \in Int /\ ~(2 > L)
                BY <1>5, <1>8
            <4>2. Cardinality(2..L) = L - 2 + 1
                BY <4>1, FS_Interval
            <4> QED
                BY <4>2, <1>5, <1>8
        <3> QED
            BY <3>1, <3>5, <3>6, <1>5, FS_CardinalityType
    <2>10. served[d] # <<>>
        BY <2>3, <2>4, <2>7
    <2>11. d \in Promise!Losable(c)
        <3> HIDE DEF A
        <3>1. Promise!Cardinality(A) >= MaxClients
            BY <2>9, SameCardinality
        <3> QED
            BY <3>1, <2>4, <2>10 DEF Promise!Losable, A
    <2> QED
        BY <2>2, <2>11
<1> QED
    BY <1>5, <1>6, <1>7, <1>8

(* The limiter keeps its promise: with the history of accepted requests as *)
(* the log, every step of the store is a step of the abstract sliding      *)
(* window, which has no store.                                             *)
THEOREM Refinement == Spec => SlidingWindowPromise
<1>1. Init => Promise!Init
    BY SettingsAssumption DEF Init, Promise!Init, NoVerdict, Promise!NoVerdict
<1>2. IInv /\ [Next]_vars => [Promise!Next]_<<clock, verdict, served>>
    <2> SUFFICES ASSUME IInv, [Next]_vars
                 PROVE  [Promise!Next]_<<clock, verdict, served>>
        OBVIOUS
    <2>1. CASE Tick
        BY <2>1 DEF Tick, Promise!Next, Promise!Tick
    <2>2. CASE Restart
        BY <2>2 DEF Restart, Promise!Next, Promise!Restart, NoVerdict, Promise!NoVerdict
    <2>3. ASSUME NEW c \in Clients, Accept(c)
          PROVE  Promise!Admit(c)
        <3> DEFINE m == MovedToEnd(Assigned(KeysAfterCleanup(clock), c), c)
        <3>1. /\ Len(Pruned(StampsAfterCleanup(clock)[c], clock)) < Limit
              /\ verdict' = [client |-> c, limited |-> FALSE]
              /\ served' = [d \in Clients |->
                               IF d \in Evicted(m) THEN <<>>
                               ELSE IF d = c THEN Append(served[d], clock) ELSE served[d]]
              /\ clock' = clock
            BY <2>3 DEF Accept
        <3>2. Evicted(m) \in {{}} \cup {{d} : d \in Promise!Losable(c)}
            BY EvictionLemma
        <3>3. Cardinality(Promise!InWindow(c)) < Limit
            BY <3>1, CountLemma
        <3> QED
            BY <3>1, <3>2, <3>3, SameCardinality DEF Promise!Admit
    <2>4. ASSUME NEW c \in Clients, Reject(c)
          PROVE  Promise!Refuse(c)
        <3>1. /\ Len(Pruned(StampsAfterCleanup(clock)[c], clock)) >= Limit
              /\ verdict' = [client |-> c, limited |-> TRUE]
              /\ served' = served /\ clock' = clock
            BY <2>4 DEF Reject
        <3> QED
            BY <3>1, CountLemma, SameCardinality DEF Promise!Refuse
    <2>5. CASE UNCHANGED vars
        BY <2>5 DEF vars
    <2> QED
        BY <2>1, <2>2, <2>3, <2>4, <2>5 DEF Next, Promise!Next
<1> QED
    BY <1>1, <1>2, Invariance, PTL DEF Spec, SlidingWindowPromise, Promise!Spec
=============================================================================
