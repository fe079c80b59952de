--------------------------- MODULE SlidingWindow ---------------------------
(***************************************************************************)
(* What the rate limiter of app/security.py promises its callers, with no  *)
(* store, no key order and no cleanup: a client is refused exactly when    *)
(* Limit of its requests were accepted within the last Window, and the     *)
(* limiter may lose sight of a client only when MaxClients others were     *)
(* accepted at or after that client's last accepted request.               *)
(***************************************************************************)
EXTENDS Naturals, Sequences, FiniteSets

CONSTANTS Clients, Limit, MaxClients, Window

VARIABLES
    clock,    \* time
    verdict,  \* the last answer, and for whom
    log       \* the accepted requests' times of every client

NoVerdict == [client |-> "nobody", limited |-> FALSE]

InWindow(c) == {i \in DOMAIN log[c] : clock - log[c][i] < Window}

(* The clients accepted at or after d's last accepted request, once a      *)
(* request of c is accepted.                                               *)
AtLeastAsRecent(d, c) ==
    {e \in Clients \ {d} :
        \/ e = c
        \/ log[e] # <<>> /\ log[e][Len(log[e])] >= log[d][Len(log[d])]}

(* The clients an accepted request of c may cost their record. *)
Losable(c) ==
    {d \in Clients \ {c} :
        /\ log[d] # <<>>
        /\ Cardinality(AtLeastAsRecent(d, c)) >= MaxClients}

Admit(c) ==
    /\ Cardinality(InWindow(c)) < Limit
    /\ verdict' = [client |-> c, limited |-> FALSE]
    /\ \E lost \in {{}} \cup {{d} : d \in Losable(c)} :
          log' = [d \in Clients |->
                     IF d \in lost THEN <<>>
                     ELSE IF d = c THEN Append(log[d], clock)
                     ELSE log[d]]
    /\ UNCHANGED clock

Refuse(c) ==
    /\ Cardinality(InWindow(c)) >= Limit
    /\ verdict' = [client |-> c, limited |-> TRUE]
    /\ UNCHANGED <<clock, log>>

Tick ==
    /\ clock' = clock + 1
    /\ UNCHANGED <<verdict, log>>

(* A restarted process has no memory of anybody. *)
Restart ==
    /\ verdict' = NoVerdict
    /\ log' = [c \in Clients |-> <<>>]
    /\ UNCHANGED clock

Init ==
    /\ clock \in Nat
    /\ verdict = NoVerdict
    /\ log = [c \in Clients |-> <<>>]

Next == Tick \/ Restart \/ \E c \in Clients : Admit(c) \/ Refuse(c)

Spec == Init /\ [][Next]_<<clock, verdict, log>>
=============================================================================
