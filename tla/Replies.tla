------------------------------ MODULE Replies ------------------------------
(***************************************************************************)
(* What the service promises for each request, with no event loop, no      *)
(* phases and no bodies that arrive in pieces: at most one reply, and with *)
(* it at most one log event. It is the reply due to the request, which     *)
(* nothing that happens to others can change, or a refusal; a request may  *)
(* also end without one, when its process or its client is lost.           *)
(***************************************************************************)
CONSTANTS
    Requests,
    Nothing,   \* no reply yet
    Refusal    \* the limiter's

VARIABLES
    due,       \* the reply to each request of a server that has no other
    given,     \* the reply it got
    ended      \* the requests that are over

vars == <<due, given, ended>>

Ends(R) ==
    /\ R \cap ended = {}
    /\ ended' = ended \cup R
    /\ UNCHANGED due

Reply(r) == Ends({r}) /\ \E x \in {due[r], Refusal} : given' = [given EXCEPT ![r] = x]

Lose(R) == Ends(R) /\ UNCHANGED given

Init ==
    /\ due = [r \in Requests |-> due[r]]
    /\ given = [r \in Requests |-> Nothing]
    /\ ended = {}

Next == (\E r \in Requests : Reply(r)) \/ (\E R \in SUBSET Requests : Lose(R))

Spec == Init /\ [][Next]_vars
=============================================================================
