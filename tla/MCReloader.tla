----------------------------- MODULE MCReloader -----------------------------
(* Small instances of Reloader for TLC. *)
EXTENDS Reloader, TLC

CONSTANTS c1, c2, s1, s2

NoTriggers   == <<>>
SighupOnly   == <<"sighup">>
FileOnly     == <<"file">>
BothTriggers == <<"sighup", "file">>

\* For liveness: c1 calls Start and Trigger, c2 calls Stop.
LiveNext ==
    /\ Next
    /\ ~CallStop(c1) /\ ~CallStart(c2) /\ ~CallTrigger(c2)
LiveSpec == Init /\ [][LiveNext]_vars /\ Fairness

Symmetry == Permutations(Clients) \cup Permutations(SubNames)
=============================================================================
