-------------------------- MODULE ServerPoolProofs --------------------------
(***************************************************************************)
(* What holds of the server pool for every number of servers and users,    *)
(* every pair of thresholds and every strategy, and of RoundRobin's        *)
(* history of the picks.                                                   *)
(***************************************************************************)
EXTENDS RoundRobin, FiniteSetTheorems, TLAPS

USE DEF PCs, MaxRetries

-----------------------------------------------------------------------------
(* Types.                                                                  *)

\* Bump stays within the cap.
LEMMA BumpType == ASSUME NEW n \in 0..CounterCap
                  PROVE  Bump(n) \in 0..CounterCap
  BY ThresholdAssumption DEF Bump

\* Each strategy picks a server of the list it is given.
LEMMA SelectionInList == ASSUME NEW S PROVE Selection(S) \subseteq S
  BY StrategyAssumption DEF Selection, Nth, LeastConnections, Strategies

\* A reported outcome keeps the types of the health bookkeeping.
LEMMA OutcomeType ==
  ASSUME TypeOK, NEW s \in Servers, Failure(s) \/ Success(s)
  PROVE  /\ is_healthy' \in [Servers -> BOOLEAN]
         /\ failures' \in [Servers -> 0..CounterCap]
         /\ successes' \in [Servers -> 0..CounterCap]
  <1>1. Bump(failures[s]) \in 0..CounterCap /\ Bump(successes[s]) \in 0..CounterCap
    BY BumpType DEF TypeOK
  <1>2. 0 \in 0..CounterCap
    BY ThresholdAssumption
  <1>3. failures' \in [Servers -> 0..CounterCap] /\ successes' \in [Servers -> 0..CounterCap]
    BY <1>1, <1>2 DEF TypeOK, Failure, Success
  <1>4. ASSUME Failure(s) PROVE is_healthy' \in [Servers -> BOOLEAN]
    <2> DEFINE b == is_healthy[s] /\ Bump(failures[s]) < FailureThreshold
    <2>1. b \in BOOLEAN
      OBVIOUS
    <2>2. is_healthy' = [is_healthy EXCEPT ![s] = b]
      BY <1>4, Zenon DEF Failure
    <2> HIDE DEF b
    <2> QED BY <2>1, <2>2 DEF TypeOK
  <1>5. ASSUME Success(s) PROVE is_healthy' \in [Servers -> BOOLEAN]
    <2> DEFINE b == is_healthy[s] \/ Bump(successes[s]) >= RecoveryThreshold
    <2>1. b \in BOOLEAN
      OBVIOUS
    <2>2. is_healthy' = [is_healthy EXCEPT ![s] = b]
      BY <1>5, Zenon DEF Success
    <2> HIDE DEF b
    <2> QED BY <2>1, <2>2 DEF TypeOK
  <1> QED BY <1>3, <1>4, <1>5

\* The checker's copy of the rule does what mark_connection_failed and
\* mark_connection_success do.
LEMMA CopiesAgree ==
  ASSUME TypeOK, NEW s \in Servers
  PROVE  /\ ProbeErr(s) => Failure(s)
         /\ ProbeOk(s) => Success(s)
  <1>1. Bump(failures[s]) \in Int /\ Bump(successes[s]) \in Int
    BY BumpType DEF TypeOK
  <1>2. ASSUME ProbeErr(s) PROVE Failure(s)
    <2> DEFINE b == is_healthy[s] /\ Bump(failures[s]) < FailureThreshold
    <2>1. is_healthy' = [is_healthy EXCEPT ![s] = b]
      <3>1. CASE is_healthy[s] /\ Bump(failures[s]) >= FailureThreshold
        <4>1. b = FALSE
          BY <1>1, <3>1, ThresholdAssumption
        <4> HIDE DEF b
        <4> QED BY <1>2, <3>1, <4>1 DEF ProbeErr
      <3>2. CASE ~(is_healthy[s] /\ Bump(failures[s]) >= FailureThreshold)
        <4>1. b <=> is_healthy[s]
          BY <1>1, <3>2, ThresholdAssumption
        <4>2. b = is_healthy[s]
          BY <4>1, Zenon DEF TypeOK
        <4> HIDE DEF b
        <4> QED BY <1>2, <3>2, <4>2 DEF ProbeErr, TypeOK
      <3> QED BY <3>1, <3>2
    <2> QED BY <1>2, <2>1, Zenon DEF ProbeErr, Failure
  <1>3. ASSUME ProbeOk(s) PROVE Success(s)
    <2> DEFINE b == is_healthy[s] \/ Bump(successes[s]) >= RecoveryThreshold
    <2>1. is_healthy' = [is_healthy EXCEPT ![s] = b]
      <3>1. CASE ~is_healthy[s] /\ Bump(successes[s]) >= RecoveryThreshold
        <4>1. b = TRUE
          BY <3>1
        <4> HIDE DEF b
        <4> QED BY <1>3, <3>1, <4>1 DEF ProbeOk
      <3>2. CASE ~(~is_healthy[s] /\ Bump(successes[s]) >= RecoveryThreshold)
        <4>1. b <=> is_healthy[s]
          BY <3>2
        <4>2. b = is_healthy[s]
          BY <4>1, Zenon DEF TypeOK
        <4> HIDE DEF b
        <4> QED BY <1>3, <3>2, <4>2 DEF ProbeOk, TypeOK
      <3> QED BY <3>1, <3>2
    <2> QED BY <1>3, <2>1, Zenon DEF ProbeOk, Success
  <1> QED BY <1>2, <1>3

\* A user that dials, holds or has just failed a connection knows its server.
TargetKnown ==
    \A u \in Users :
        pc[u] \in {"dial", "dialed", "refused", "counted", "dialing", "open", "closing"}
            => target[u] \in Servers

\* The backoff is only slept when another attempt follows.
RetriesLeft ==
    \A u \in Users : pc[u] = "backoff" => attempt[u] < MaxRetries - 1

Typed == TypeOK /\ TargetKnown /\ RetriesLeft

LEMMA TypedInit == Init => Typed
  <1> SUFFICES ASSUME Init PROVE Typed
    OBVIOUS
  <1>1. 0 \in 0..CounterCap
    BY ThresholdAssumption
  <1> QED BY <1>1, OrdersAssumption DEF Init, Typed, TypeOK, TargetKnown, RetriesLeft

LEMMA TypedNext == Typed /\ [Next]_vars => Typed'
  <1> SUFFICES ASSUME Typed, [Next]_vars PROVE Typed'
    OBVIOUS
  <1> USE DEF Typed
  <1>1. ASSUME NEW u \in Users, Begin(u) PROVE Typed'
    BY <1>1 DEF TypeOK, TargetKnown, RetriesLeft, Begin, Goto, health, probes
  <1>2. ASSUME NEW u \in Users, Snapshot(u) PROVE Typed'
    BY <1>2 DEF TypeOK, TargetKnown, RetriesLeft, Snapshot, Goto, health, probes
  <1>3. ASSUME NEW u \in Users, NoneHealthy(u) PROVE Typed'
    BY <1>3 DEF TypeOK, TargetKnown, RetriesLeft, NoneHealthy, Return, health, probes, session
  <1>4. ASSUME NEW u \in Users, Pick(u) PROVE Typed'
    <2>1. PICK s \in Selection(healthy_servers[u]) : target' = [target EXCEPT ![u] = s]
      BY <1>4 DEF Pick
    <2>2. s \in Servers
      BY <2>1, SelectionInList DEF TypeOK
    <2>3. round_robin_index' \in Nat
      BY <1>4 DEF Pick, TypeOK
    <2> QED BY <1>4, <2>1, <2>2, <2>3 DEF TypeOK, TargetKnown, RetriesLeft, Pick, Goto, health, probes
  <1>5. ASSUME NEW u \in Users, Dial(u) PROVE Typed'
    BY <1>5 DEF TypeOK, TargetKnown, RetriesLeft, Dial, health, probes, session
  <1>6. ASSUME NEW u \in Users, MarkStart(u) PROVE Typed'
    BY <1>6 DEF TypeOK, TargetKnown, RetriesLeft, MarkStart, Goto, health, probes, session
  <1>7. ASSUME NEW u \in Users, MarkSuccess(u) PROVE Typed'
    <2>1. target[u] \in Servers
      BY <1>7 DEF TargetKnown, RetriesLeft, MarkSuccess, Goto
    <2> QED BY <1>7, <2>1, OutcomeType
            DEF TypeOK, TargetKnown, RetriesLeft, MarkSuccess, Goto, probes, session
  <1>8. ASSUME NEW u \in Users, MarkFailed(u) PROVE Typed'
    <2>1. target[u] \in Servers
      BY <1>8 DEF TargetKnown, RetriesLeft, MarkFailed, Goto
    <2> QED BY <1>8, <2>1, OutcomeType
            DEF TypeOK, TargetKnown, RetriesLeft, MarkFailed, Goto, probes, session
  <1>9. ASSUME NEW u \in Users, Retry(u) PROVE Typed'
    BY <1>9 DEF TypeOK, TargetKnown, RetriesLeft, Retry, Goto, health, probes
  <1>10. ASSUME NEW u \in Users, QuicConnected(u) PROVE Typed'
    BY <1>10 DEF TypeOK, TargetKnown, RetriesLeft, QuicConnected, Goto, health, probes, session
  <1>11. ASSUME NEW u \in Users, QuicFailed(u) PROVE Typed'
    BY <1>11 DEF TypeOK, TargetKnown, RetriesLeft, QuicFailed, Return, health, probes
  <1>12. ASSUME NEW u \in Users, Exchanged(u) PROVE Typed'
    BY <1>12 DEF TypeOK, TargetKnown, RetriesLeft, Exchanged, Goto, health, probes, session
  <1>13. ASSUME NEW u \in Users, ExchangeFailed(u) PROVE Typed'
    BY <1>13 DEF TypeOK, TargetKnown, RetriesLeft, ExchangeFailed, Goto, health, probes, session
  <1>14. ASSUME NEW u \in Users, MarkEnd(u) PROVE Typed'
    BY <1>14 DEF TypeOK, TargetKnown, RetriesLeft, MarkEnd, Goto, health, probes, session
  <1>15. ASSUME NEW u \in Users, EndMetrics(u) PROVE Typed'
    <2>1. metrics_open' = [metrics_open EXCEPT ![kind[u]] = metrics_open[kind[u]] - 1]
      BY <1>15 DEF EndMetrics
    <2>2. metrics_open' \in [Kinds -> Int]
      <3>1. CASE kind[u] \in Kinds
        BY <2>1, <3>1 DEF TypeOK
      <3>2. CASE kind[u] \notin Kinds
        BY <2>1, <3>2, Zenon DEF TypeOK
      <3> QED BY <3>1, <3>2
    <2> QED BY <1>15, <2>2 DEF TypeOK, TargetKnown, RetriesLeft, EndMetrics, Return, health, probes
  <1>16. CASE Tick
    BY <1>16 DEF TypeOK, TargetKnown, RetriesLeft, Tick, health, session
  <1>17. ASSUME NEW s \in Servers, Probe(s) PROVE Typed'
    BY <1>17 DEF TypeOK, TargetKnown, RetriesLeft, Probe, health, session
  <1>18. ASSUME NEW s \in Servers, ApplyProbe(s) PROVE Typed'
    <2>1. Failure(s) \/ Success(s)
      BY <1>18, CopiesAgree DEF ApplyProbe
    <2>2. probed_ok' \in [Servers -> Nat] /\ probed_err' \in [Servers -> Nat]
      BY <1>18 DEF ApplyProbe, TypeOK
    <2> QED BY <1>18, <2>1, <2>2, OutcomeType DEF TypeOK, TargetKnown, RetriesLeft, ApplyProbe, session
  <1>19. ASSUME NEW s \in Servers, Toggle(s) PROVE Typed'
    BY <1>19 DEF TypeOK, TargetKnown, RetriesLeft, Toggle, health, probes, session
  <1>20. CASE UNCHANGED vars
    BY <1>20 DEF TypeOK, TargetKnown, RetriesLeft, vars, health, probes, session
  <1> QED
    BY <1>1, <1>2, <1>3, <1>4, <1>5, <1>6, <1>7, <1>8, <1>9, <1>10, <1>11, <1>12,
       <1>13, <1>14, <1>15, <1>16, <1>17, <1>18, <1>19, <1>20
       DEF Next, UserStep, CheckerStep

\* Types hold in every reachable state; in particular connect_with_failover
\* never tries more than three times, whatever the servers do.
THEOREM TypeCorrect == Spec => []TypeOK
  <1>1. Typed => TypeOK
    BY DEF Typed
  <1> QED BY TypedInit, TypedNext, <1>1, PTL DEF Spec

-----------------------------------------------------------------------------
(* Health.                                                                 *)

\* A step leaves the health bookkeeping alone or applies one outcome to one
\* server, whoever takes it.
LEMMA HealthSteps ==
  ASSUME Typed, [Next]_vars
  PROVE  UNCHANGED health \/ \E s \in Servers : Failure(s) \/ Success(s)
  <1>1. ASSUME NEW u \in Users, MarkSuccess(u)
        PROVE  \E s \in Servers : Failure(s) \/ Success(s)
    <2>1. target[u] \in Servers
      BY <1>1 DEF Typed, TargetKnown, MarkSuccess, Goto
    <2> QED BY <1>1, <2>1 DEF MarkSuccess
  <1>2. ASSUME NEW u \in Users, MarkFailed(u)
        PROVE  \E s \in Servers : Failure(s) \/ Success(s)
    <2>1. target[u] \in Servers
      BY <1>2 DEF Typed, TargetKnown, MarkFailed, Goto
    <2> QED BY <1>2, <2>1 DEF MarkFailed
  <1>3. ASSUME NEW s \in Servers, ApplyProbe(s) PROVE Failure(s) \/ Success(s)
    BY <1>3, CopiesAgree DEF ApplyProbe, Typed
  <1>4. ASSUME NEW u \in Users, UserStep(u), ~MarkSuccess(u), ~MarkFailed(u)
        PROVE  UNCHANGED health
    BY <1>4, Zenon DEF UserStep, Begin, Snapshot, NoneHealthy, Pick, Dial, MarkStart,
       Retry, QuicConnected, QuicFailed, Exchanged, ExchangeFailed, MarkEnd, EndMetrics
  <1>5. ASSUME CheckerStep, \A s \in Servers : ~ApplyProbe(s) PROVE UNCHANGED health
    BY <1>5, Zenon DEF CheckerStep, Tick, Probe
  <1>6. ASSUME NEW s \in Servers, Toggle(s) PROVE UNCHANGED health
    BY <1>6 DEF Toggle
  <1>7. CASE UNCHANGED vars
    BY <1>7 DEF vars
  <1> QED BY <1>1, <1>2, <1>3, <1>4, <1>5, <1>6, <1>7, Zenon DEF Next

\* One outcome applied to one server keeps flag and counters in agreement.
LEMMA OutcomeAgrees ==
  ASSUME TypeOK, FlagMatchesCounters, NEW s \in Servers, Failure(s) \/ Success(s)
  PROVE  FlagMatchesCounters'
  <1> SUFFICES ASSUME NEW t \in Servers
               PROVE  /\ is_healthy'[t] => failures'[t] < FailureThreshold
                      /\ ~is_healthy'[t] => successes'[t] < RecoveryThreshold
                      /\ failures'[t] = 0 \/ successes'[t] = 0
    BY DEF FlagMatchesCounters
  <1>1. CASE t # s
    BY <1>1 DEF TypeOK, FlagMatchesCounters, Failure, Success
  <1>2. CASE t = s /\ Failure(s)
    <2>1. is_healthy'[s] <=> is_healthy[s] /\ Bump(failures[s]) < FailureThreshold
      BY <1>2 DEF TypeOK, Failure
    <2>2. failures'[s] = Bump(failures[s]) /\ successes'[s] = 0
      BY <1>2 DEF TypeOK, Failure
    <2> QED BY <1>2, <2>1, <2>2, ThresholdAssumption
  <1>3. CASE t = s /\ Success(s)
    <2>1. is_healthy'[s] <=> is_healthy[s] \/ Bump(successes[s]) >= RecoveryThreshold
      BY <1>3 DEF TypeOK, Success
    <2>2. successes'[s] = Bump(successes[s]) /\ failures'[s] = 0
      BY <1>3 DEF TypeOK, Success
    <2>3. Bump(successes[s]) \in 0..CounterCap
      BY BumpType DEF TypeOK
    <2> QED BY <1>3, <2>1, <2>2, <2>3, ThresholdAssumption
  <1> QED BY <1>1, <1>2, <1>3

\* FlagMatchesCounters holds in every reachable state.
THEOREM FlagAlwaysMatches == Spec => []FlagMatchesCounters
  <1>1. Init => FlagMatchesCounters
    BY ThresholdAssumption DEF Init, FlagMatchesCounters
  <1>2. Typed /\ FlagMatchesCounters /\ [Next]_vars => FlagMatchesCounters'
    <2> SUFFICES ASSUME Typed, FlagMatchesCounters, [Next]_vars
                 PROVE  FlagMatchesCounters'
      OBVIOUS
    <2>1. CASE UNCHANGED health
      BY <2>1 DEF health, FlagMatchesCounters
    <2>2. CASE \E s \in Servers : Failure(s) \/ Success(s)
      BY <2>2, OutcomeAgrees DEF Typed
    <2> QED BY <2>1, <2>2, HealthSteps
  <1> QED BY TypedInit, TypedNext, <1>1, <1>2, PTL DEF Spec

-----------------------------------------------------------------------------
(* Refinement of HealthLatch.                                              *)

\* A bad outcome of s is a Bad step of the latch.
LEMMA FailureIsBad ==
  ASSUME TypeOK, FlagMatchesCounters, NEW s \in Servers, Failure(s)
  PROVE  Latch!Bad(s)
  <1> DEFINE streak == [t \in Servers |-> successes[t] - failures[t]]
             run == IF streak[s] < 0 THEN Latch!Upto(-streak[s]) ELSE 1
  <1>1. run = Bump(failures[s])
    <2>1. streak[s] = successes[s] - failures[s]
      OBVIOUS
    <2>2. successes[s] \in Nat /\ failures[s] \in Nat /\ CounterCap \in Nat /\ CounterCap >= 1
      BY ThresholdAssumption DEF TypeOK
    <2>3. failures[s] = 0 \/ successes[s] = 0
      BY DEF FlagMatchesCounters
    <2> QED BY <2>1, <2>2, <2>3 DEF Latch!Upto, Bump
  <1>2. Bump(failures[s]) \in 0..CounterCap
    BY BumpType DEF TypeOK
  <1>3. [t \in Servers |-> successes'[t] - failures'[t]] = [streak EXCEPT ![s] = -run]
    <2> HIDE DEF run
    <2>1. successes' = [successes EXCEPT ![s] = 0] /\ failures' = [failures EXCEPT ![s] = run]
      BY <1>1 DEF Failure
    <2>2. run \in 0..CounterCap
      BY <1>1, <1>2
    <2>3. ASSUME NEW t \in Servers
          PROVE  successes'[t] - failures'[t]
                   = IF t = s THEN -run ELSE successes[t] - failures[t]
      BY <2>1, <2>2 DEF TypeOK
    <2>4. [streak EXCEPT ![s] = -run]
            = [t \in Servers |-> IF t = s THEN -run ELSE successes[t] - failures[t]]
      OBVIOUS
    <2> QED BY <2>3, <2>4
  <1>4. is_healthy' = [is_healthy EXCEPT ![s] = @ /\ run < FailureThreshold]
    BY <1>1, Zenon DEF Failure
  <1> QED BY <1>3, <1>4 DEF Latch!Bad

\* A good outcome of s is a Good step of the latch.
LEMMA SuccessIsGood ==
  ASSUME TypeOK, FlagMatchesCounters, NEW s \in Servers, Success(s)
  PROVE  Latch!Good(s)
  <1> DEFINE streak == [t \in Servers |-> successes[t] - failures[t]]
             run == IF streak[s] > 0 THEN Latch!Upto(streak[s]) ELSE 1
  <1>1. run = Bump(successes[s])
    <2>1. streak[s] = successes[s] - failures[s]
      OBVIOUS
    <2>2. successes[s] \in Nat /\ failures[s] \in Nat /\ CounterCap \in Nat /\ CounterCap >= 1
      BY ThresholdAssumption DEF TypeOK
    <2>3. failures[s] = 0 \/ successes[s] = 0
      BY DEF FlagMatchesCounters
    <2> QED BY <2>1, <2>2, <2>3 DEF Latch!Upto, Bump
  <1>2. Bump(successes[s]) \in 0..CounterCap
    BY BumpType DEF TypeOK
  <1>3. [t \in Servers |-> successes'[t] - failures'[t]] = [streak EXCEPT ![s] = run]
    <2> HIDE DEF run
    <2>1. successes' = [successes EXCEPT ![s] = run] /\ failures' = [failures EXCEPT ![s] = 0]
      BY <1>1 DEF Success
    <2>2. run \in 0..CounterCap
      BY <1>1, <1>2
    <2>3. ASSUME NEW t \in Servers
          PROVE  successes'[t] - failures'[t]
                   = IF t = s THEN run ELSE successes[t] - failures[t]
      BY <2>1, <2>2 DEF TypeOK
    <2>4. [streak EXCEPT ![s] = run]
            = [t \in Servers |-> IF t = s THEN run ELSE successes[t] - failures[t]]
      OBVIOUS
    <2> QED BY <2>3, <2>4
  <1>4. is_healthy' = [is_healthy EXCEPT ![s] = @ \/ run >= RecoveryThreshold]
    BY <1>1, Zenon DEF Success
  <1> QED BY <1>3, <1>4 DEF Latch!Good

\* The pool implements HealthLatch: every step of any user or probe is one
\* outcome fed to one server's latch, or a stutter.
THEOREM PoolImplementsLatch == Spec => LatchSpec
  <1>1. Init => Latch!Init
    BY DEF Init, Latch!Init
  <1>2. Typed /\ FlagMatchesCounters /\ [Next]_vars => [Latch!Next]_(Latch!vars)
    <2> SUFFICES ASSUME Typed, FlagMatchesCounters, [Next]_vars
                 PROVE  [Latch!Next]_(Latch!vars)
      OBVIOUS
    <2>1. CASE UNCHANGED health
      BY <2>1 DEF health, Latch!vars
    <2>2. CASE \E s \in Servers : Failure(s) \/ Success(s)
      BY <2>2, FailureIsBad, SuccessIsGood DEF Typed, Latch!Next
    <2> QED BY <2>1, <2>2, HealthSteps
  <1> QED BY TypedInit, TypedNext, FlagAlwaysMatches, <1>1, <1>2, PTL
          DEF Spec, LatchSpec, Latch!Spec

-----------------------------------------------------------------------------
(* Connection counters.                                                    *)

Holders(s) == {u \in Users : Holds(u, s)}

LEMMA HoldersFinite == \A s : IsFiniteSet(Holders(s)) /\ Cardinality(Holders(s)) \in Nat
  BY UsersAssumption, FS_Subset, FS_CardinalityType DEF Holders

\* Users other than u hold the servers they held before.
OthersKeep(u) ==
    \A v \in Users \ {u} : target'[v] = target[v] /\ pc'[v] = pc[v]

\* u starts to hold its server.
LEMMA HoldersGrow ==
  ASSUME NEW u \in Users, NEW s, OthersKeep(u), ~Holds(u, s), Holds(u, s)'
  PROVE  Cardinality(Holders(s)') = Cardinality(Holders(s)) + 1
  <1>1. Holders(s)' = Holders(s) \cup {u} /\ u \notin Holders(s)
    BY DEF Holders, Holds, OthersKeep
  <1> QED BY <1>1, HoldersFinite, FS_AddElement

\* u ceases to hold its server.
LEMMA HoldersShrink ==
  ASSUME NEW u \in Users, NEW s, OthersKeep(u), Holds(u, s), ~Holds(u, s)'
  PROVE  Cardinality(Holders(s)') = Cardinality(Holders(s)) - 1
  <1>1. Holders(s)' = Holders(s) \ {u} /\ u \in Holders(s)
    BY DEF Holders, Holds, OthersKeep
  <1> QED BY <1>1, HoldersFinite, FS_RemoveElement

\* u holds s after the step exactly if it did before.
LEMMA HoldersStay ==
  ASSUME NEW u \in Users, NEW s, OthersKeep(u), Holds(u, s) <=> Holds(u, s)'
  PROVE  Holders(s)' = Holders(s)
  BY DEF Holders, Holds, OthersKeep

Conserved(s) == active_connections[s] = Cardinality(Holders(s)) + lost[s]

\* A user's step that neither starts nor ends holding a server.
LEMMA QuietStep ==
  ASSUME Typed, NEW u \in Users, OthersKeep(u), \A s \in Servers : Holds(u, s) <=> Holds(u, s)',
         UNCHANGED <<active_connections, lost>>, \A s \in Servers : Conserved(s)
  PROVE  \A s \in Servers : Conserved(s)'
  BY HoldersStay DEF Conserved

LEMMA ConservedNext ==
  ASSUME Typed, \A s \in Servers : Conserved(s), [Next]_vars
  PROVE  \A s \in Servers : Conserved(s)'
  <1> USE DEF Typed
  <1>1. ASSUME NEW u \in Users, UserStep(u) PROVE OthersKeep(u)
    BY <1>1 DEF TypeOK, OthersKeep, UserStep, Begin, Snapshot, NoneHealthy, Pick, Dial,
       MarkStart, MarkSuccess, MarkFailed, Retry, QuicConnected, QuicFailed, Exchanged,
       ExchangeFailed, MarkEnd, EndMetrics, Goto, Return, session
  <1>2. ASSUME NEW u \in Users, MarkStart(u) PROVE \A s \in Servers : Conserved(s)'
    <2> TAKE s \in Servers
    <2>1. OthersKeep(u)
      BY <1>1, <1>2 DEF UserStep
    <2>2. target[u] \in Servers
      BY <1>2 DEF MarkStart, Goto, TargetKnown
    <2>3. CASE s = target[u]
      <3>1. ~Holds(u, s) /\ Holds(u, s)'
        BY <1>2, <2>3 DEF MarkStart, Goto, Holds, TypeOK, session
      <3>2. active_connections'[s] = active_connections[s] + 1 /\ lost'[s] = lost[s]
        BY <1>2, <2>2, <2>3 DEF MarkStart, TypeOK
      <3> QED BY <2>1, <3>1, <3>2, HoldersGrow, HoldersFinite DEF Conserved, TypeOK
    <2>4. CASE s # target[u]
      <3>1. Holds(u, s) <=> Holds(u, s)'
        BY <1>2, <2>4 DEF MarkStart, Goto, Holds, TypeOK, session
      <3>2. active_connections'[s] = active_connections[s] /\ lost'[s] = lost[s]
        BY <1>2, <2>4 DEF MarkStart, TypeOK
      <3> QED BY <2>1, <3>1, <3>2, HoldersStay DEF Conserved
    <2> QED BY <2>3, <2>4
  <1>3. ASSUME NEW u \in Users, MarkEnd(u) PROVE \A s \in Servers : Conserved(s)'
    <2> TAKE s \in Servers
    <2>1. OthersKeep(u)
      BY <1>1, <1>3 DEF UserStep
    <2>2. target[u] \in Servers
      BY <1>3 DEF MarkEnd, Goto, TargetKnown
    <2>3. CASE s = target[u]
      <3>1. Holds(u, s) /\ ~Holds(u, s)'
        BY <1>3, <2>3 DEF MarkEnd, Goto, Holds, TypeOK, session
      <3>2. active_connections'[s] = active_connections[s] - 1 /\ lost'[s] = lost[s]
        BY <1>3, <2>2, <2>3 DEF MarkEnd, TypeOK
      <3> QED BY <2>1, <3>1, <3>2, HoldersShrink, HoldersFinite DEF Conserved, TypeOK
    <2>4. CASE s # target[u]
      <3>1. Holds(u, s) <=> Holds(u, s)'
        BY <1>3, <2>4 DEF MarkEnd, Goto, Holds, TypeOK, session
      <3>2. active_connections'[s] = active_connections[s] /\ lost'[s] = lost[s]
        BY <1>3, <2>4 DEF MarkEnd, TypeOK
      <3> QED BY <2>1, <3>1, <3>2, HoldersStay DEF Conserved
    <2> QED BY <2>3, <2>4
  <1>4. ASSUME NEW u \in Users, QuicFailed(u) \/ ExchangeFailed(u)
        PROVE  \A s \in Servers : Conserved(s)'
    <2> TAKE s \in Servers
    <2>1. OthersKeep(u)
      BY <1>1, <1>4 DEF UserStep
    <2>2. target[u] \in Servers
      BY <1>4 DEF QuicFailed, ExchangeFailed, Goto, TargetKnown
    <2>3. CASE s = target[u]
      <3>1. Holds(u, s) /\ ~Holds(u, s)'
        BY <1>4, <2>3 DEF QuicFailed, ExchangeFailed, Return, Goto, Holds, TypeOK, session
      <3>2. active_connections'[s] = active_connections[s] /\ lost'[s] = lost[s] + 1
        BY <1>4, <2>2, <2>3 DEF QuicFailed, ExchangeFailed, TypeOK
      <3> QED BY <2>1, <3>1, <3>2, HoldersShrink, HoldersFinite DEF Conserved, TypeOK
    <2>4. CASE s # target[u]
      <3>1. Holds(u, s) <=> Holds(u, s)'
        BY <1>4, <2>4, ServersAssumption
           DEF QuicFailed, ExchangeFailed, Return, Goto, Holds, TypeOK, session
      <3>2. active_connections'[s] = active_connections[s] /\ lost'[s] = lost[s]
        BY <1>4, <2>4 DEF QuicFailed, ExchangeFailed, TypeOK
      <3> QED BY <2>1, <3>1, <3>2, HoldersStay DEF Conserved
    <2> QED BY <2>3, <2>4
  <1>5. ASSUME NEW u \in Users, UserStep(u),
               ~MarkStart(u), ~MarkEnd(u), ~QuicFailed(u), ~ExchangeFailed(u)
        PROVE  \A s \in Servers : Conserved(s)'
    <2>1. \A s \in Servers : Holds(u, s) <=> Holds(u, s)'
      BY <1>5 DEF TypeOK, Holds, UserStep, Begin, Snapshot, NoneHealthy, Pick, Dial,
         MarkSuccess, MarkFailed, Retry, QuicConnected, Exchanged, EndMetrics,
         Goto, Return, session
    <2>2. UNCHANGED <<active_connections, lost>>
      BY <1>5, Zenon DEF UserStep, Begin, Snapshot, NoneHealthy, Pick, Dial, MarkSuccess,
         MarkFailed, Retry, QuicConnected, Exchanged, EndMetrics
    <2> QED BY <1>1, <1>5, <2>1, <2>2, QuietStep
  <1>6. CASE UNCHANGED <<pc, target, active_connections, lost>>
    BY <1>6 DEF Conserved, Holders, Holds
  <1>7. CheckerStep \/ (\E s \in Servers : Toggle(s)) \/ UNCHANGED vars
          => UNCHANGED <<pc, target, active_connections, lost>>
    BY DEF CheckerStep, Tick, Probe, ApplyProbe, Toggle, vars, session
  <1> QED BY <1>2, <1>3, <1>4, <1>5, <1>6, <1>7, Zenon DEF Next

\* ConnectionsConserved holds in every reachable state, for any number of
\* concurrent users and servers.
THEOREM ConnectionsAlwaysConserved == Spec => []ConnectionsConserved
  <1> DEFINE Inv == \A s \in Servers : Conserved(s)
  <1>1. Init => Inv
    <2> SUFFICES ASSUME Init, NEW s \in Servers PROVE Conserved(s)
      OBVIOUS
    <2>1. Holders(s) = {}
      BY DEF Init, Holders, Holds
    <2> QED BY <2>1, FS_EmptySet DEF Init, Conserved
  <1>2. Typed /\ Inv /\ [Next]_vars => Inv'
    BY ConservedNext
  <1>3. Inv => ConnectionsConserved
    BY DEF Conserved, Holders, ConnectionsConserved
  <1> QED BY TypedInit, TypedNext, <1>1, <1>2, <1>3, PTL DEF Spec

-----------------------------------------------------------------------------
Running(k) == {u \in Users : kind[u] = k}

\* A user between sessions has no kind, and only QUIC dials after it has started.
KindKnown ==
    \A u \in Users : /\ pc[u] = "idle" <=> kind[u] = "none"
                     /\ pc[u] = "dialing" => kind[u] = "quic"

OpenMatches(k) ==
    IF k = "tcp" THEN metrics_open[k] = Cardinality(Running(k))
    ELSE metrics_open[k] >= Cardinality(Running(k))

MetricsInv == KindKnown /\ \A k \in Kinds : OpenMatches(k)

LEMMA RunningFinite == \A k : IsFiniteSet(Running(k)) /\ Cardinality(Running(k)) \in Nat
  BY UsersAssumption, FS_Subset, FS_CardinalityType DEF Running

LEMMA KindKnownStep ==
  ASSUME Typed, KindKnown, [Next]_vars PROVE KindKnown'
  <1> USE DEF Typed, TypeOK, KindKnown
  <1>1. ASSUME NEW u \in Users, UserStep(u) PROVE KindKnown'
    <2>1. CASE Begin(u)
      BY <2>1, UsersAssumption DEF Begin, Goto
    <2>2. CASE NoneHealthy(u) \/ QuicFailed(u) \/ EndMetrics(u)
      BY <2>2 DEF NoneHealthy, QuicFailed, EndMetrics, Return, session
    <2>3. CASE ~(Begin(u) \/ NoneHealthy(u) \/ QuicFailed(u) \/ EndMetrics(u))
      <3>1. kind' = kind
        BY <1>1, <2>3, Zenon DEF UserStep, Snapshot, Pick, Dial, MarkStart, MarkSuccess,
           MarkFailed, Retry, QuicConnected, Exchanged, ExchangeFailed, MarkEnd, session
      <3>2. \E to : /\ pc[u] # "idle" /\ to # "idle"
                    /\ pc' = [pc EXCEPT ![u] = to]
                    /\ to = "dialing" => kind[u] = "quic"
        <4>1. CASE MarkStart(u)
          <5>1. pc[u] # "idle" /\ kind[u] \in {"tcp", "quic"}
            BY <4>1, UsersAssumption DEF MarkStart, Goto
          <5>2. kind[u] = "tcp" => pc' = [pc EXCEPT ![u] = "counted"]
            BY <4>1 DEF MarkStart, Goto
          <5>3. kind[u] = "quic" => pc' = [pc EXCEPT ![u] = "dialing"]
            BY <4>1 DEF MarkStart, Goto
          <5> QED BY <5>1, <5>2, <5>3
        <4>2. CASE Pick(u)
          <5>1. pc[u] # "idle"
            BY <4>2 DEF Pick, Goto
          <5>2. kind[u] = "tcp" => pc' = [pc EXCEPT ![u] = "dial"]
            BY <4>2 DEF Pick, Goto
          <5>3. kind[u] # "tcp" => pc' = [pc EXCEPT ![u] = "dialed"]
            BY <4>2 DEF Pick, Goto
          <5> QED BY <5>1, <5>2, <5>3
        <4>3. CASE Dial(u) \/ MarkFailed(u)
          BY <4>3 DEF Dial, MarkFailed, Goto
        <4>4. CASE ~(MarkStart(u) \/ Pick(u) \/ Dial(u) \/ MarkFailed(u))
          BY <1>1, <2>3, <4>4 DEF UserStep, Snapshot, MarkSuccess, Retry,
             QuicConnected, Exchanged, ExchangeFailed, MarkEnd, Goto
        <4> QED BY <4>1, <4>2, <4>3, <4>4
      <3> QED BY <3>1, <3>2
    <2> QED BY <2>1, <2>2, <2>3
  <1>2. CheckerStep \/ (\E s \in Servers : Toggle(s)) \/ UNCHANGED vars
          => UNCHANGED <<pc, kind>>
    BY DEF CheckerStep, Tick, Probe, ApplyProbe, Toggle, vars, session
  <1> QED BY <1>1, <1>2 DEF Next

\* The session of u begins or ends.
LEMMA RunningBegins ==
  ASSUME NEW u \in Users, NEW k, kind \in [Users -> Kinds \cup {"none"}],
         kind' = [kind EXCEPT ![u] = k], kind[u] # k
  PROVE  /\ Cardinality(Running(k)') = Cardinality(Running(k)) + 1
         /\ \A m : m # k /\ m # kind[u] => Running(m)' = Running(m)
  <1>1. Running(k)' = Running(k) \cup {u} /\ u \notin Running(k)
    BY DEF Running
  <1>2. \A m : m # k /\ m # kind[u] => Running(m)' = Running(m)
    BY DEF Running
  <1> QED BY <1>1, <1>2, RunningFinite, FS_AddElement

LEMMA RunningEnds ==
  ASSUME NEW u \in Users, kind \in [Users -> Kinds \cup {"none"}],
         kind' = [kind EXCEPT ![u] = "none"], NEW k, kind[u] = k, k # "none"
  PROVE  /\ Cardinality(Running(k)') = Cardinality(Running(k)) - 1
         /\ \A m : m # "none" /\ m # k => Running(m)' = Running(m)
  <1>1. Running(k)' = Running(k) \ {u} /\ u \in Running(k)
    BY DEF Running
  <1>2. \A m : m # "none" /\ m # k => Running(m)' = Running(m)
    BY DEF Running
  <1> QED BY <1>1, <1>2, RunningFinite, FS_RemoveElement

\* What a step that touches k's records does to them.
LEMMA OpenStays ==
  ASSUME NEW k, OpenMatches(k), Running(k)' = Running(k),
         metrics_open'[k] = metrics_open[k]
  PROVE  OpenMatches(k)'
  BY DEF OpenMatches

LEMMA OpenMoves ==
  ASSUME NEW k, OpenMatches(k), metrics_open[k] \in Int, NEW d \in {1, -1},
         Cardinality(Running(k)') = Cardinality(Running(k)) + d,
         \/ metrics_open'[k] = metrics_open[k] + d
         \/ k = "quic" /\ d = -1 /\ metrics_open'[k] = metrics_open[k]
  PROVE  OpenMatches(k)'
  <1>1. Cardinality(Running(k)) \in Nat
    BY RunningFinite
  <1> QED BY <1>1 DEF OpenMatches

LEMMA MetricsStep ==
  ASSUME Typed, MetricsInv, [Next]_vars PROVE \A k \in Kinds : OpenMatches(k)'
  <1> USE DEF Typed, MetricsInv
  <1>0. /\ kind \in [Users -> Kinds \cup {"none"}] /\ metrics_open \in [Kinds -> Int]
        /\ Kinds \subseteq {"tcp", "quic"}
    BY UsersAssumption DEF TypeOK
  <1>1. CASE UNCHANGED <<kind, metrics_open>>
    BY <1>1 DEF OpenMatches, Running
  <1>2. ASSUME NEW u \in Users, Begin(u) PROVE \A k \in Kinds : OpenMatches(k)'
    <2>1. PICK k \in Kinds : /\ kind' = [kind EXCEPT ![u] = k]
                             /\ metrics_open' = [metrics_open EXCEPT ![k] = @ + 1]
      BY <1>2 DEF Begin
    <2>2. kind[u] = "none"
      BY <1>2 DEF Begin, Goto, KindKnown
    <2>3. /\ Cardinality(Running(k)') = Cardinality(Running(k)) + 1
          /\ \A m : m # k /\ m # kind[u] => Running(m)' = Running(m)
      BY <1>0, <2>1, <2>2, RunningBegins
    <2>4. OpenMatches(k)'
      BY <1>0, <2>1, <2>3, OpenMoves
    <2>5. ASSUME NEW m \in Kinds, m # k PROVE OpenMatches(m)'
      <3>1. Running(m)' = Running(m) /\ metrics_open'[m] = metrics_open[m]
        BY <1>0, <2>1, <2>2, <2>3, <2>5
      <3> QED BY <3>1, OpenStays
    <2> QED BY <2>4, <2>5
  <1>3. ASSUME NEW u \in Users, pc[u] # "idle", Return(u)
        PROVE  \E k \in Kinds :
                  /\ kind[u] = k
                  /\ Cardinality(Running(k)') = Cardinality(Running(k)) - 1
                  /\ \A m \in Kinds \ {k} : Running(m)' = Running(m)
    <2>1. PICK k \in Kinds : kind[u] = k
      BY <1>0, <1>3 DEF KindKnown
    <2>2. kind' = [kind EXCEPT ![u] = "none"]
      BY <1>3 DEF Return
    <2> QED BY <1>0, <2>1, <2>2, RunningEnds
  <1>4. ASSUME NEW u \in Users, EndMetrics(u) PROVE \A k \in Kinds : OpenMatches(k)'
    <2>1. /\ pc[u] # "idle" /\ Return(u)
          /\ metrics_open' = [metrics_open EXCEPT ![kind[u]] = @ - 1]
      BY <1>4 DEF EndMetrics
    <2>2. PICK k \in Kinds :
              /\ kind[u] = k
              /\ Cardinality(Running(k)') = Cardinality(Running(k)) - 1
              /\ \A m \in Kinds \ {k} : Running(m)' = Running(m)
      BY <1>3, <2>1
    <2>4. OpenMatches(k)'
      <3>1. /\ Cardinality(Running(k)') = Cardinality(Running(k)) + (-1)
            /\ metrics_open'[k] = metrics_open[k] + (-1)
        BY <1>0, <2>1, <2>2, RunningFinite
      <3> QED BY <1>0, <3>1, OpenMoves
    <2>5. ASSUME NEW m \in Kinds, m # k PROVE OpenMatches(m)'
      <3>1. Running(m)' = Running(m) /\ metrics_open'[m] = metrics_open[m]
        BY <1>0, <2>1, <2>2, <2>5
      <3> QED BY <3>1, OpenStays
    <2> QED BY <2>4, <2>5
  \* A session that returns without an end_connection is one of QUIC.
  <1>5. ASSUME NEW u \in Users, pc[u] # "idle", Return(u), kind[u] = "quic",
               metrics_open' = metrics_open
        PROVE  \A k \in Kinds : OpenMatches(k)'
    <2>1. /\ "quic" \in Kinds
          /\ Cardinality(Running("quic")') = Cardinality(Running("quic")) - 1
          /\ \A m \in Kinds \ {"quic"} : Running(m)' = Running(m)
      BY <1>3, <1>5
    <2>2. OpenMatches("quic")'
      <3>1. Cardinality(Running("quic")') = Cardinality(Running("quic")) + (-1)
        BY <2>1, RunningFinite
      <3> QED BY <1>0, <1>5, <2>1, <3>1, OpenMoves
    <2> QED BY <1>5, <2>1, <2>2, OpenStays
  <1>6. ASSUME NEW u \in Users, UserStep(u), ~Begin(u), ~EndMetrics(u)
        PROVE  \A k \in Kinds : OpenMatches(k)'
    <2>1. CASE QuicFailed(u)
      BY <1>5, <2>1 DEF QuicFailed, KindKnown
    <2>2. CASE NoneHealthy(u)
      <3>1. metrics_open' = metrics_open /\ pc[u] # "idle"
        BY <2>2 DEF NoneHealthy
      <3>2. CASE kind' = kind
        BY <1>1, <3>1, <3>2
      <3>3. CASE kind[u] = "quic" /\ Return(u)
        BY <1>5, <3>1, <3>3
      <3> QED BY <2>2, <3>2, <3>3 DEF NoneHealthy, session
    <2>3. CASE ~QuicFailed(u) /\ ~NoneHealthy(u)
      <3>1. UNCHANGED <<kind, metrics_open>>
        BY <1>6, <2>3, Zenon DEF UserStep, Snapshot, Pick, Dial, MarkStart,
           MarkSuccess, MarkFailed, Retry, QuicConnected, Exchanged, ExchangeFailed,
           MarkEnd, session
      <3> QED BY <1>1, <3>1
    <2> QED BY <2>1, <2>2, <2>3
  <1>7. CheckerStep \/ (\E s \in Servers : Toggle(s)) \/ UNCHANGED vars
          => UNCHANGED <<kind, metrics_open>>
    BY DEF CheckerStep, Tick, Probe, ApplyProbe, Toggle, vars, session
  <1> QED BY <1>1, <1>2, <1>4, <1>6, <1>7, Zenon DEF Next

\* MetricsConserved holds in every reachable state, for any number of users: no
\* error path of a TCP session leaves its record open, and none closes another's.
THEOREM MetricsAlwaysConserved == Spec => []MetricsConserved
  <1>1. Init => MetricsInv
    <2> SUFFICES ASSUME Init PROVE MetricsInv
      OBVIOUS
    <2>1. KindKnown
      BY DEF Init, KindKnown
    <2>2. ASSUME NEW k \in Kinds PROVE OpenMatches(k)
      <3>1. Running(k) = {}
        BY UsersAssumption DEF Init, Running
      <3> QED BY <3>1, FS_EmptySet DEF Init, OpenMatches
    <2> QED BY <2>1, <2>2 DEF MetricsInv
  <1>2. Typed /\ MetricsInv /\ [Next]_vars => MetricsInv'
    BY MetricsStep, KindKnownStep DEF MetricsInv
  <1>3. MetricsInv => MetricsConserved
    BY DEF MetricsInv, OpenMatches, Running, MetricsConserved
  <1> QED BY TypedInit, TypedNext, <1>1, <1>2, <1>3, PTL DEF Spec
-----------------------------------------------------------------------------
(* Round robin.                                                            *)

\* Two tickets less than n apart fall on different positions of n.
LEMMA TicketsApart ==
  ASSUME NEW a \in Nat, NEW b \in Nat, NEW n \in Nat \ {0}, a < b, b - a < n
  PROVE  a % n # b % n
  <1> DEFINE p == a \div n
             q == b \div n
  <1> SUFFICES ASSUME a % n = b % n PROVE FALSE
    OBVIOUS
  <1>1. p \in Int /\ q \in Int /\ a = n * p + (a % n) /\ b = n * q + (b % n)
    OBVIOUS
  <1>2. a % n \in Int /\ b % n \in Int
    OBVIOUS
  <1> HIDE DEF p, q
  <1>3. b - a = n * (q - p)
    BY <1>1, <1>2
  <1>4. CASE q - p <= 0
    <2>1. n * (q - p) <= 0
      BY <1>1, <1>4
    <2> QED BY <1>3, <2>1
  <1>5. CASE q - p >= 1
    <2>1. n * (q - p) >= n
      BY <1>1, <1>5
    <2> QED BY <1>3, <2>1
  <1> QED BY <1>1, <1>4, <1>5

\* No server stands at two positions of a list.
LEMMA PositionsApart ==
  ASSUME NEW S, NEW i, NEW j, i # j PROVE Nth(S, i) \cap Nth(S, j) = {}
  BY DEF Nth

Handout == [server : Servers, from : SUBSET Servers]

\* Ticket k, counted from one, was handed the server at its position of the list
\* it was picked from.
Dealt(k) == picks[k].server \in Nth(picks[k].from, (k - 1) % Cardinality(picks[k].from))

Rotation ==
    /\ picks \in Seq(Handout)
    /\ round_robin_index = Len(picks)
    /\ \A k \in 1..Len(picks) : Dealt(k)

\* A step takes a ticket and records what it was handed, or does neither.
LEMMA TicketsRecorded ==
  ASSUME Typed, Strategy = "RoundRobin", HNext
  PROVE  \/ UNCHANGED <<round_robin_index, picks>>
         \/ \E u \in Users :
              /\ Pick(u)
              /\ picks' = Append(picks, [server |-> target'[u], from |-> healthy_servers[u]])
  <1> USE DEF Typed, TypeOK
  <1>1. ASSUME NEW u \in Users, UserStep(u), NEW v \in Users, Picked(v)
        PROVE  v = u /\ Pick(u)
    <2>1. v = u
      BY <1>1 DEF Picked, OthersKeep, UserStep, Begin, Snapshot, NoneHealthy, Pick, Dial,
         MarkStart, MarkSuccess, MarkFailed, Retry, QuicConnected, QuicFailed, Exchanged,
         ExchangeFailed, MarkEnd, EndMetrics, Goto, Return, session
    <2>2. pc[u] = "pick"
      BY <1>1, <2>1 DEF Picked
    <2> QED
      BY <1>1, <2>1, <2>2, Zenon DEF UserStep, Begin, Snapshot, NoneHealthy, Dial,
         MarkStart, MarkSuccess, MarkFailed, Retry, QuicConnected, QuicFailed, Exchanged,
         ExchangeFailed, MarkEnd, EndMetrics, Goto
  <1>2. ASSUME NEW u \in Users, Pick(u) PROVE Picked(u)
    <2>1. pc[u] = "pick" /\ pc'[u] \in {"dial", "dialed"}
      BY <1>2 DEF Pick, Goto
    <2> QED BY <2>1 DEF Picked
  <1>3. ASSUME NEW u \in Users, UserStep(u), Picked(u)
        PROVE  picks' = Append(picks, [server |-> target'[u], from |-> healthy_servers[u]])
    <2>1. u = CHOOSE v \in Users : Picked(v)
      BY <1>1, <1>3
    <2> QED BY <1>3, <2>1, Zenon DEF HNext
  <1>4. ASSUME NEW u \in Users, UserStep(u), ~Pick(u)
        PROVE  UNCHANGED <<round_robin_index, picks>>
    <2>1. \A v \in Users : ~Picked(v)
      BY <1>1, <1>4
    <2>2. picks' = picks
      BY <2>1, Zenon DEF HNext
    <2>3. round_robin_index' = round_robin_index
      BY <1>4, Zenon DEF UserStep, Begin, Snapshot, NoneHealthy, Dial,
         MarkStart, MarkSuccess, MarkFailed, Retry, QuicConnected, QuicFailed, Exchanged,
         ExchangeFailed, MarkEnd, EndMetrics
    <2> QED BY <2>2, <2>3
  <1>5. ASSUME CheckerStep \/ \E s \in Servers : Toggle(s)
        PROVE  UNCHANGED <<round_robin_index, picks>>
    <2>1. UNCHANGED <<round_robin_index, pc>>
      BY <1>5 DEF CheckerStep, Tick, Probe, ApplyProbe, Toggle
    <2>2. \A v \in Users : ~Picked(v)
      BY <2>1 DEF Picked
    <2>3. picks' = picks
      BY <2>2, Zenon DEF HNext
    <2> QED BY <2>1, <2>3
  <1>6. ASSUME NEW u \in Users, Pick(u)
        PROVE  picks' = Append(picks, [server |-> target'[u], from |-> healthy_servers[u]])
    BY <1>2, <1>3, <1>6 DEF UserStep
  <1>7. CASE \E u \in Users : UserStep(u) /\ Pick(u)
    BY <1>6, <1>7
  <1>8. CASE \E u \in Users : UserStep(u) /\ ~Pick(u)
    BY <1>4, <1>8
  <1> QED BY <1>5, <1>7, <1>8 DEF HNext, Next

\* The DashMap's iteration order is fixed when it is built.
LEMMA OrderFixed == [Next]_vars => order' = order
  BY Zenon DEF Next, UserStep, CheckerStep, Begin, Snapshot, NoneHealthy, Pick, Dial, MarkStart,
     MarkSuccess, MarkFailed, Retry, QuicConnected, QuicFailed, Exchanged, ExchangeFailed,
     MarkEnd, EndMetrics, Tick, Probe, ApplyProbe, Toggle, vars

\* A pick hands out the server at the position its ticket falls on.
LEMMA PickDeals ==
  ASSUME Typed, Strategy = "RoundRobin", NEW u \in Users, Pick(u)
  PROVE  /\ target'[u] \in Nth(healthy_servers[u],
                               round_robin_index % Cardinality(healthy_servers[u]))
         /\ target'[u] \in Servers /\ healthy_servers[u] \in SUBSET Servers
         /\ round_robin_index' = round_robin_index + 1
  <1>1. PICK s \in Selection(healthy_servers[u]) : target' = [target EXCEPT ![u] = s]
    BY DEF Pick
  <1>2. target'[u] = s /\ healthy_servers[u] \in SUBSET Servers
    BY <1>1 DEF Typed, TypeOK
  <1>3. s \in Servers
    BY <1>2, SelectionInList
  <1>4. Selection(healthy_servers[u])
          = Nth(healthy_servers[u], round_robin_index % Cardinality(healthy_servers[u]))
    BY DEF Selection
  <1> QED BY <1>1, <1>2, <1>3, <1>4 DEF Pick

LEMMA RotationNext ==
  ASSUME Typed, Rotation, Strategy = "RoundRobin", [HNext]_<<vars, picks>>
  PROVE  Rotation'
  <1>1. order' = order
    BY OrderFixed DEF HNext, vars
  <1>2. ASSUME NEW S, NEW i PROVE Nth(S, i)' = Nth(S, i)
    BY <1>1 DEF Nth
  <1>3. CASE UNCHANGED <<round_robin_index, picks>>
    <2>1. ASSUME NEW k \in 1..Len(picks) PROVE Dealt(k)'
      BY <1>2, <1>3, <2>1 DEF Dealt, Rotation
    <2> QED BY <1>3, <2>1 DEF Rotation
  <1>4. ASSUME NEW u \in Users, Pick(u),
               picks' = Append(picks, [server |-> target'[u], from |-> healthy_servers[u]])
        PROVE  Rotation'
    <2> DEFINE h == [server |-> target'[u], from |-> healthy_servers[u]]
    <2>n. PICK n \in Nat : n = Len(picks)
      BY DEF Rotation
    <2>h. PICK g \in Handout : g = h
      BY <1>4, PickDeals DEF Handout
    <2>1. /\ g.server \in Nth(g.from, round_robin_index % Cardinality(g.from))
          /\ round_robin_index' = round_robin_index + 1
      BY <1>4, <2>h, PickDeals
    <2>2. picks \in Seq(Handout) /\ Len(picks) = n /\ round_robin_index = n
      BY <2>n DEF Rotation
    <2>3. picks' = Append(picks, g)
      BY <1>4, <2>h
    <2> HIDE DEF h
    <2>4. /\ picks' \in Seq(Handout) /\ Len(picks') = n + 1
          /\ picks'[n + 1] = g
          /\ \A k \in 1..n : picks'[k] = picks[k]
      BY <2>1, <2>2, <2>3
    <2>5. ASSUME NEW k \in 1..n PROVE Dealt(k)'
      <3>1. Dealt(k) /\ picks'[k] = picks[k]
        BY <2>2, <2>4 DEF Rotation
      <3> QED BY <1>2, <3>1 DEF Dealt
    <2>6. Dealt(n + 1)'
      <3>1. (n + 1) - 1 = n
        OBVIOUS
      <3>2. g.server \in Nth(g.from, n % Cardinality(g.from))'
        BY <1>2, <2>1, <2>2
      <3> QED BY <2>4, <3>1, <3>2 DEF Dealt
    <2> QED BY <2>1, <2>2, <2>4, <2>5, <2>6 DEF Rotation
  <1>5. CASE HNext
    BY <1>3, <1>4, <1>5, TicketsRecorded
  <1> QED BY <1>3, <1>5 DEF vars

\* FairRotation holds in every reachable state of a pool that picks in turn, for
\* any servers and any number of users: the tickets of one fetch_add are dealt out
\* in order, and n of them in a row over one list of n servers meet none twice.
THEOREM RotationAlwaysFair ==
  ASSUME Strategy = "RoundRobin" PROVE HSpec => []FairRotation
  <1>1. HInit => Rotation
    BY DEF HInit, Init, Rotation
  <1>2. Typed /\ Rotation /\ [HNext]_<<vars, picks>> => Rotation'
    BY RotationNext
  <1>3. Rotation => FairRotation
    <2> SUFFICES ASSUME Rotation, NEW i \in 1..Len(picks), NEW j \in 1..Len(picks),
                        i < j, j - i < Cardinality(picks[i].from),
                        picks[j].from = picks[i].from
                 PROVE  picks[i].server # picks[j].server
      BY DEF FairRotation
    <2> DEFINE S == picks[i].from
               n == Cardinality(S)
    <2>1. IsFiniteSet(S) /\ n \in Nat
      <3>1. picks[i] \in Handout
        BY DEF Rotation
      <3>2. S \subseteq Servers
        BY <3>1 DEF Handout
      <3> QED BY <3>2, ServersAssumption, FS_Subset, FS_CardinalityType
    <2>2. picks[i].server \in Nth(S, (i - 1) % n) /\ picks[j].server \in Nth(S, (j - 1) % n)
      BY DEF Rotation, Dealt
    <2>3. i - 1 \in Nat /\ j - 1 \in Nat /\ i - 1 < j - 1 /\ (j - 1) - (i - 1) < n
      BY DEF Rotation
    <2> HIDE DEF n, S
    <2>n. n \in Nat \ {0}
      BY <2>1, <2>3
    <2>4. (i - 1) % n # (j - 1) % n
      BY <2>n, <2>3, TicketsApart
    <2> QED BY <2>2, <2>4, PositionsApart
  <1>4. HInit => Typed
    BY TypedInit DEF HInit
  <1>5. Typed /\ [HNext]_<<vars, picks>> => Typed'
    BY TypedNext DEF HNext, vars
  <1> QED BY <1>1, <1>2, <1>3, <1>4, <1>5, PTL DEF HSpec
=============================================================================
