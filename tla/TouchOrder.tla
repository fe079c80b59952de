----------------------------- MODULE TouchOrder -----------------------------
(***************************************************************************)
(* RateLimiter with a history of touches: a client touches the store with  *)
(* every call of is_rate_limited, accepted or refused. The comment at      *)
(* _rate_limit_store (app/security.py 24-27) speaks of touches.            *)
(***************************************************************************)
EXTENDS RateLimiter, TLC

VARIABLE touched  \* when each client last called is_rate_limited

TouchInit == Init /\ touched = [c \in Clients |-> 0]

TouchNext ==
    \/ (Tick \/ Restart) /\ UNCHANGED touched
    \/ \E c \in Clients :
          /\ Accept(c) \/ Reject(c)
          /\ touched' = [touched EXCEPT ![c] = clock]

TouchSpec == TouchInit /\ [][TouchNext]_<<vars, touched>>

(* "every touch below calls move_to_end() so the front of the dict is      *)
(* always the least-recently-touched client".                              *)
FrontIsLeastRecentlyTouched ==
    \A i \in DOMAIN keys : touched[keys[1]] <= touched[keys[i]]

Symmetry == Permutations(Clients)
=============================================================================
