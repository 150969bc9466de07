--------------------------- MODULE ReloadService ---------------------------
(***************************************************************************)
(* What package reload promises its callers, without goroutines, channels, *)
(* locks or timers.  Requests to reload pile up; a round takes all of      *)
(* them, reads the file once, after it took them, and lets subscribers     *)
(* adopt what it read if Load and Validate accepted it.  Rounds never      *)
(* overlap, and after the service is closed there are none.                *)
(***************************************************************************)
EXTENDS Naturals

CONSTANTS SubNames, Sources

VARIABLES
    file, good,   \* the configuration file: its version, the valid versions
    pending,      \* sources whose requests no round has taken yet
    phase,        \* the current round: "idle", "taken", "read"
    read,         \* the version the last round read
    inForce,      \* the version each subscriber runs with
    closed        \* Stop has returned

vars == <<file, good, pending, phase, read, inForce, closed>>

Init ==
    /\ file = 0 /\ good = {0}
    /\ pending = {} /\ phase = "idle" /\ read = 0
    /\ inForce = [s \in SubNames |-> 0]
    /\ closed = FALSE

Edit ==
    /\ file' = file + 1
    /\ good' \in {good, good \cup {file + 1}}
    /\ UNCHANGED <<pending, phase, read, inForce, closed>>

Request(s) ==
    /\ pending' = pending \cup {s}
    /\ UNCHANGED <<file, good, phase, read, inForce, closed>>

Collect ==
    /\ phase = "idle" /\ ~closed
    /\ pending' = {}
    /\ phase' = "taken"
    /\ UNCHANGED <<file, good, read, inForce, closed>>

Read ==
    /\ phase = "taken"
    /\ read' = file
    /\ phase' = IF file \in good THEN "read" ELSE "idle"
    /\ UNCHANGED <<file, good, pending, inForce, closed>>

Adopt(s) ==
    /\ phase = "read"
    /\ inForce' = [inForce EXCEPT ![s] = read]
    /\ UNCHANGED <<file, good, pending, phase, read, closed>>

Finish ==
    /\ phase = "read"
    /\ phase' = "idle"
    /\ UNCHANGED <<file, good, pending, read, inForce, closed>>

Close ==
    /\ phase = "idle"
    /\ closed' = TRUE
    /\ UNCHANGED <<file, good, pending, phase, read, inForce>>

Next ==
    \/ Edit \/ Collect \/ Read \/ Finish \/ Close
    \/ \E s \in Sources : Request(s)
    \/ \E s \in SubNames : Adopt(s)

Spec == Init /\ [][Next]_vars
=============================================================================
