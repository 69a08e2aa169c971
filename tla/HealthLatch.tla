---------------------------- MODULE HealthLatch ----------------------------
(***************************************************************************)
(* What the server pool promises about health, whoever reports outcomes: a *)
(* server leaves the list at the FailureThreshold-th bad outcome in a row  *)
(* and comes back at the RecoveryThreshold-th good one in a row, and only  *)
(* then.  A streak is the run of equal outcomes the server is in, positive *)
(* for good ones and negative for bad ones, counted up to CounterCap.      *)
(***************************************************************************)
EXTENDS Integers

CONSTANTS Servers, FailureThreshold, RecoveryThreshold, CounterCap

VARIABLES healthy, streak

vars == <<healthy, streak>>

Init ==
    /\ healthy = [s \in Servers |-> TRUE]
    /\ streak = [s \in Servers |-> 0]

Upto(n) == IF n < CounterCap THEN n + 1 ELSE n

Good(s) ==
    LET run == IF streak[s] > 0 THEN Upto(streak[s]) ELSE 1 IN
    /\ streak' = [streak EXCEPT ![s] = run]
    /\ healthy' = [healthy EXCEPT ![s] = @ \/ run >= RecoveryThreshold]

Bad(s) ==
    LET run == IF streak[s] < 0 THEN Upto(-streak[s]) ELSE 1 IN
    /\ streak' = [streak EXCEPT ![s] = -run]
    /\ healthy' = [healthy EXCEPT ![s] = @ /\ run < FailureThreshold]

Next == \E s \in Servers : Good(s) \/ Bad(s)

Spec == Init /\ [][Next]_vars
=============================================================================
