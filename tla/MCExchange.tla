----------------------------- MODULE MCExchange -----------------------------
(* Small instances of Exchange for TLC. *)
EXTENDS Exchange, TLC

CONSTANTS q1, q2

MCWellFormed == {"req-12345"}

\* No header, a good value, a malformed one before a good one.
NoID  == <<>>
GoodID == <<"req-12345">>
BadID == <<"x", "req-12345">>

MCArrivals ==
    {[route |-> "/", method |-> "GET", offer |-> GoodID],
     [route |-> "/health", method |-> "GET", offer |-> BadID],
     [route |-> "/health", method |-> "HEAD", offer |-> NoID],
     [route |-> "/health", method |-> "POST", offer |-> GoodID],
     [route |-> "other", method |-> "GET", offer |-> NoID]}

\* One request at most goes to a handler that may do anything.
MCInit ==
    /\ Init
    /\ \A q, r \in Requests : q # r => {req[q].route, req[r].route} # {"other"}

MCSpec == MCInit /\ [][Next]_vars

Symmetry == Permutations(Requests)
=============================================================================
