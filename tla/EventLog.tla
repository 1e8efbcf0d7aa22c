------------------------------ MODULE EventLog ------------------------------
(***************************************************************************)
(* What the log of metric events promises its readers.  Each request to    *)
(* delete the server of a runner may be followed by one installed event of *)
(* that runner, each of those by one start event, each of those by one     *)
(* stop event.  Which step of the program does it is left open.            *)
(***************************************************************************)
EXTENDS Naturals

CONSTANT Runners

VARIABLES
    requests,       \* deletion requests for the server of each runner
    issued          \* events of each kind in the log, for each runner

logged == <<requests, issued>>

(* runner_installed, runner_start and runner_stop, in this order.          *)
Kinds == 1..3

(* What an event of a kind has to be preceded by.                          *)
Before(r, k) == IF k = 1 THEN requests[r] ELSE issued[r][k - 1]

Init ==
    /\ requests = [r \in Runners |-> 0]
    /\ issued = [r \in Runners |-> [k \in Kinds |-> 0]]

Request(r) ==
    /\ requests' = [requests EXCEPT ![r] = @ + 1]
    /\ UNCHANGED issued

Issue(r, k) ==
    /\ issued[r][k] < Before(r, k)
    /\ issued' = [issued EXCEPT ![r][k] = @ + 1]
    /\ UNCHANGED requests

Next == \E r \in Runners : Request(r) \/ \E k \in Kinds : Issue(r, k)

Spec == Init /\ [][Next]_logged

(* No stop without its start, no start without its installed event, and no *)
(* event of a runner twice unless its server was asked to go twice.        *)
Ordered == \A r \in Runners, k \in Kinds : issued[r][k] <= Before(r, k)
=============================================================================
