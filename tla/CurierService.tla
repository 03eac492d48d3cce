--------------------------- MODULE CurierService ---------------------------
(***************************************************************************)
(* What Curier promises to the application that uses it: between init()    *)
(* and the end() that succeeds it accepts pushes up to a fixed capacity,   *)
(* reports each accepted push exactly once, in the order of acceptance,    *)
(* and owes nothing when end() returns.  The queue, the mutexes, the       *)
(* worker task and its notifications are not visible here; CurierRuntime   *)
(* describes them and implements this specification.                       *)
(***************************************************************************)
EXTENDS Naturals

CONSTANT Capacity   \* CurierConfig::queueSize

VARIABLES
    phase,      \* CurierLifecycle
    accepted,   \* how many sends have returned success
    reported    \* how many of them have reached their terminal callback

svars == <<phase, accepted, reported>>

Off == phase = "Uninitialized"
On == phase = "Running"
Closing == phase = "Stopping"

Init == Off /\ accepted = 0 /\ reported = 0

Start ==
    /\ Off
    /\ phase' = "Running"
    /\ UNCHANGED <<accepted, reported>>

Accept ==
    /\ On
    /\ accepted - reported < Capacity
    /\ accepted' = accepted + 1
    /\ UNCHANGED <<phase, reported>>

Report ==
    /\ ~Off
    /\ reported < accepted
    /\ reported' = reported + 1
    /\ UNCHANGED <<phase, accepted>>

Close ==
    /\ On
    /\ phase' = "Stopping"
    /\ UNCHANGED <<accepted, reported>>

Closed ==
    /\ Closing
    /\ reported = accepted
    /\ phase' = "Uninitialized"
    /\ UNCHANGED <<accepted, reported>>

Next == Start \/ Accept \/ Report \/ Close \/ Closed

Promise == Init /\ [][Next]_svars

\* Every accepted push is eventually reported.
LivePromise == Promise /\ WF_svars(Report)
=============================================================================
