----------------------------- MODULE ServerPool -----------------------------
(***************************************************************************)
(* The client's pool of servers (client/src/server_pool.rs) together with  *)
(* everything that drives it: the simulated users, each running one TCP    *)
(* activity (client/src/tcp_client.rs, through connect_with_failover) or   *)
(* one QUIC session (client/src/quic_client.rs) at a time, and the health  *)
(* checker with the probe tasks it spawns.                                 *)
(*                                                                         *)
(* A user is a tokio task; its steps are cut where another task can run in *)
(* between: at an await, and between two calls that each take the DashMap  *)
(* entry's lock.  The pool's healthy list is read by get_server (Snapshot) *)
(* before the strategy picks from it (Pick) and long before the            *)
(* connection's outcome is marked, so every decision may rest on stale     *)
(* state.  What the wire carries once a connection is open is abstracted   *)
(* to its outcome.                                                         *)
(*                                                                         *)
(* Left out: last_used, last_health_check and total_connections, which     *)
(* nothing in the client reads, and logging.                               *)
(***************************************************************************)
EXTENDS Integers, FiniteSets

CONSTANTS
    Servers,            \* the addresses given to ServerPool::new
    Users,              \* the simulated users sharing the pool
    Kinds,              \* the kinds of session the users run, of {"tcp", "quic"}
    NoServer,           \* no server chosen yet
    Strategy,           \* config.strategy
    FailureThreshold,   \* config.health_check.failure_threshold
    RecoveryThreshold,  \* config.health_check.recovery_threshold
    HealthCheckEnabled, \* config.health_check.enabled
    Orders,             \* the iteration orders the DashMap may have
    CounterCap,         \* bound: consecutive_* counters stop here (u32 in the code)
    MaxSessions,        \* bound: sessions one user starts
    MaxProbes           \* bound: probes of one server in flight at once

Strategies == {"RoundRobin", "Random", "LeastConnections", "HashBased"}

ASSUME ServersAssumption == IsFiniteSet(Servers) /\ NoServer \notin Servers
ASSUME UsersAssumption == IsFiniteSet(Users) /\ Kinds \subseteq {"tcp", "quic"}
ASSUME StrategyAssumption == Strategy \in Strategies
\* A threshold of 0 would make a server that never failed count as failed.
ASSUME ThresholdAssumption ==
    /\ FailureThreshold \in Nat \ {0}
    /\ RecoveryThreshold \in Nat \ {0}
    /\ CounterCap \in Nat
    /\ FailureThreshold <= CounterCap
    /\ RecoveryThreshold <= CounterCap
ASSUME OrdersAssumption == Orders \subseteq [Servers -> Nat]
ASSUME BoundsAssumption == MaxSessions \in Nat /\ MaxProbes \in Nat
ASSUME SwitchAssumption == HealthCheckEnabled \in BOOLEAN

VARIABLES
    order,              \* the DashMap's iteration order, fixed when it is built
    is_healthy,         \* [Servers -> BOOLEAN]
    failures,           \* consecutive_failures
    successes,          \* consecutive_successes
    active_connections, \* [Servers -> Int]
    round_robin_index,
    up,                 \* environment: does the server accept connections now?
    probing,            \* probe tasks still connecting, per server
    probed_ok,          \* probe tasks with Ok in hand, entry not yet locked
    probed_err,         \* probe tasks with Err in hand, entry not yet locked
    pc,                 \* where each user's task stands
    kind,               \* what session it runs
    healthy_servers,    \* get_server's local list
    target,             \* server_addr
    attempt,            \* connect_with_failover's loop variable
    sessions,           \* sessions started by each user
    metrics_open,       \* metrics records with no end_time, per kind
    lost                \* history: sessions that returned without mark_connection_end

health == <<is_healthy, failures, successes>>
probes == <<probing, probed_ok, probed_err>>
session == <<kind, healthy_servers, target, attempt, sessions>>
vars == <<order, health, active_connections, round_robin_index, up, probes,
          pc, session, metrics_open, lost>>

MaxRetries == 3

PCs == {"idle", "select", "pick", "dial", "dialed", "refused", "counted",
        "open", "closing", "ending", "backoff", "dialing"}

-----------------------------------------------------------------------------
\* ServerInfo::new and ServerPool::new; no user has started.
Init ==
    /\ order \in Orders
    /\ is_healthy = [s \in Servers |-> TRUE]
    /\ failures = [s \in Servers |-> 0]
    /\ successes = [s \in Servers |-> 0]
    /\ active_connections = [s \in Servers |-> 0]
    /\ round_robin_index = 0
    /\ up \in [Servers -> BOOLEAN]
    /\ probing = [s \in Servers |-> 0]
    /\ probed_ok = [s \in Servers |-> 0]
    /\ probed_err = [s \in Servers |-> 0]
    /\ pc = [u \in Users |-> "idle"]
    /\ kind = [u \in Users |-> "none"]
    /\ healthy_servers = [u \in Users |-> {}]
    /\ target = [u \in Users |-> NoServer]
    /\ attempt = [u \in Users |-> 0]
    /\ sessions = [u \in Users |-> 0]
    /\ metrics_open = [k \in Kinds |-> 0]
    /\ lost = [s \in Servers |-> 0]

\* A u32 counter, bounded; only "at least the threshold" is ever asked of it.
Bump(n) == IF n < CounterCap THEN n + 1 ELSE n

\* Mutant: the threshold is passed only by one failure more.
FailureLate(s) ==
    /\ failures' = [failures EXCEPT ![s] = Bump(@)]
    /\ successes' = [successes EXCEPT ![s] = 0]
    /\ is_healthy' =
         [is_healthy EXCEPT ![s] = @ /\ failures[s] < FailureThreshold]

\* One failed outcome of server s: mark_connection_failed.
Failure(s) ==
    /\ failures' = [failures EXCEPT ![s] = Bump(@)]
    /\ successes' = [successes EXCEPT ![s] = 0]
    /\ is_healthy' =
         [is_healthy EXCEPT ![s] = @ /\ Bump(failures[s]) < FailureThreshold]

\* One good outcome of server s: mark_connection_success.
Success(s) ==
    /\ successes' = [successes EXCEPT ![s] = Bump(@)]
    /\ failures' = [failures EXCEPT ![s] = 0]
    /\ is_healthy' =
         [is_healthy EXCEPT ![s] = @ \/ Bump(successes[s]) >= RecoveryThreshold]

-----------------------------------------------------------------------------
(* The four strategies over get_server's list S (never empty).             *)

\* The server of S at 0-based position i of the map's iteration order.
Nth(S, i) == {s \in S : Cardinality({t \in S : order[t] < order[s]}) = i}

\* min_by_key keeps the first of the servers with the least key.
LeastConnections(S) ==
    {s \in S : \A t \in S :
        \/ active_connections[s] < active_connections[t]
        \/ active_connections[s] = active_connections[t] /\ order[s] <= order[t]}

Selection(S) ==
    CASE Strategy = "RoundRobin" -> Nth(S, round_robin_index % Cardinality(S))
      [] Strategy = "LeastConnections" -> LeastConnections(S)
      [] OTHER -> S   \* Random and HashBased: any of them

-----------------------------------------------------------------------------
(* One session of user u.                                                  *)

Goto(u, from, to) == pc[u] = from /\ pc' = [pc EXCEPT ![u] = to]

\* The task's locals are gone once the session has returned.
Return(u) ==
    /\ pc' = [pc EXCEPT ![u] = "idle"]
    /\ healthy_servers' = [healthy_servers EXCEPT ![u] = {}]
    /\ target' = [target EXCEPT ![u] = NoServer]
    /\ attempt' = [attempt EXCEPT ![u] = 0]
    /\ kind' = [kind EXCEPT ![u] = "none"]
    /\ UNCHANGED sessions

\* start_connection_with_activity opens the session's metrics record.
Begin(u) ==
    /\ sessions[u] < MaxSessions
    /\ Goto(u, "idle", "select")
    /\ \E k \in Kinds :
         /\ kind' = [kind EXCEPT ![u] = k]
         /\ metrics_open' = [metrics_open EXCEPT ![k] = @ + 1]
    /\ sessions' = [sessions EXCEPT ![u] = @ + 1]
    /\ UNCHANGED <<order, health, active_connections, round_robin_index, up,
                   probes, healthy_servers, target, attempt, lost>>

\* get_server reads the healthy flags into a list.
Snapshot(u) ==
    LET S == {s \in Servers : is_healthy[s]} IN
    /\ S # {}
    /\ Goto(u, "select", "pick")
    /\ healthy_servers' = [healthy_servers EXCEPT ![u] = S]
    /\ UNCHANGED <<order, health, active_connections, round_robin_index, up,
                   probes, kind, target, attempt, sessions, metrics_open, lost>>

\* Mutant: the TCP activity, too, returns without end_connection.
NoneHealthyReturns(u) ==
    /\ pc[u] = "select"
    /\ \A s \in Servers : ~is_healthy[s]
    /\ Return(u)
    /\ UNCHANGED <<order, health, active_connections, round_robin_index, up,
                   probes, metrics_open, lost>>

\* get_server found no healthy server.  connect_with_failover returns Err and
\* the TCP activity still ends its metrics record; the QUIC session returns
\* with "?" and leaves its record open.
NoneHealthy(u) ==
    /\ pc[u] = "select"
    /\ \A s \in Servers : ~is_healthy[s]
    /\ \/ /\ kind[u] = "tcp"
          /\ pc' = [pc EXCEPT ![u] = "ending"]
          /\ UNCHANGED session
       \/ /\ kind[u] = "quic"
          /\ Return(u)
    /\ UNCHANGED <<order, health, active_connections, round_robin_index, up,
                   probes, metrics_open, lost>>

\* Mutant: only the first attempt of a session takes a ticket.
PickTicketOnce(u) ==
    /\ Goto(u, "pick", IF kind[u] = "tcp" THEN "dial" ELSE "dialed")
    /\ \E s \in Selection(healthy_servers[u]) :
         target' = [target EXCEPT ![u] = s]
    /\ healthy_servers' = [healthy_servers EXCEPT ![u] = {}]
    /\ round_robin_index' =
         IF attempt[u] = 0 THEN round_robin_index + 1 ELSE round_robin_index
    /\ UNCHANGED <<order, health, active_connections, up, probes, kind,
                   attempt, sessions, metrics_open, lost>>

\* The strategy picks from the list; round robin takes its ticket with one
\* fetch_add, least connections reads the live counters.
Pick(u) ==
    /\ Goto(u, "pick", IF kind[u] = "tcp" THEN "dial" ELSE "dialed")
    /\ \E s \in Selection(healthy_servers[u]) :
         target' = [target EXCEPT ![u] = s]
    /\ healthy_servers' = [healthy_servers EXCEPT ![u] = {}]
    /\ round_robin_index' =
         IF Strategy = "RoundRobin" THEN round_robin_index + 1
                                    ELSE round_robin_index
    /\ UNCHANGED <<order, health, active_connections, up, probes, kind,
                   attempt, sessions, metrics_open, lost>>

\* TcpStream::connect returns.
Dial(u) ==
    /\ pc[u] = "dial"
    /\ pc' = [pc EXCEPT ![u] = IF up[target[u]] THEN "dialed" ELSE "refused"]
    /\ UNCHANGED <<order, health, active_connections, round_robin_index, up,
                   probes, session, metrics_open, lost>>

\* mark_connection_start: after the connect for TCP, before it for QUIC.
MarkStart(u) ==
    /\ Goto(u, "dialed", IF kind[u] = "tcp" THEN "counted" ELSE "dialing")
    /\ active_connections' = [active_connections EXCEPT ![target[u]] = @ + 1]
    /\ UNCHANGED <<order, health, round_robin_index, up, probes, session,
                   metrics_open, lost>>

\* mark_connection_success, a second lock of the entry.
MarkSuccess(u) ==
    /\ Goto(u, "counted", "open")
    /\ Success(target[u])
    /\ UNCHANGED <<order, active_connections, round_robin_index, up, probes,
                   session, metrics_open, lost>>

\* mark_connection_failed, then the backoff, or the error after the last try.
MarkFailed(u) ==
    /\ Goto(u, "refused",
            IF attempt[u] < MaxRetries - 1 THEN "backoff" ELSE "ending")
    /\ Failure(target[u])
    /\ UNCHANGED <<order, active_connections, round_robin_index, up, probes,
                   session, metrics_open, lost>>

\* The backoff sleep ends and the loop goes round.
Retry(u) ==
    /\ Goto(u, "backoff", "select")
    /\ attempt' = [attempt EXCEPT ![u] = @ + 1]
    /\ target' = [target EXCEPT ![u] = NoServer]
    /\ UNCHANGED <<order, health, active_connections, round_robin_index, up,
                   probes, kind, healthy_servers, sessions, metrics_open, lost>>

\* The QUIC handshake completes.
QuicConnected(u) ==
    /\ Goto(u, "dialing", "open")
    /\ up[target[u]]
    /\ UNCHANGED <<order, health, active_connections, round_robin_index, up,
                   probes, session, metrics_open, lost>>

\* The QUIC handshake fails or times out: the session returns at once, with
\* neither mark_connection_end nor end_connection.
QuicFailed(u) ==
    /\ pc[u] = "dialing"
    /\ Return(u)
    /\ lost' = [lost EXCEPT ![target[u]] = @ + 1]
    /\ UNCHANGED <<order, health, active_connections, round_robin_index, up,
                   probes, metrics_open>>

\* Mutant: a page that completes returns before mark_connection_end.
ExchangedNoEnd(u) ==
    /\ Goto(u, "open", "ending")
    /\ UNCHANGED <<order, health, active_connections, round_robin_index, up,
                   probes, session, metrics_open, lost>>

\* The exchange completes, ConnectionClose included.
Exchanged(u) ==
    /\ Goto(u, "open", "closing")
    /\ UNCHANGED <<order, health, active_connections, round_robin_index, up,
                   probes, session, metrics_open, lost>>

\* A send or a receive of a TCP activity fails: "?" skips mark_connection_end.
\* (A failed page does not end a QUIC session.)
ExchangeFailed(u) ==
    /\ kind[u] = "tcp"
    /\ Goto(u, "open", "ending")
    /\ lost' = [lost EXCEPT ![target[u]] = @ + 1]
    /\ UNCHANGED <<order, health, active_connections, round_robin_index, up,
                   probes, session, metrics_open>>

\* mark_connection_end.
MarkEnd(u) ==
    /\ Goto(u, "closing", "ending")
    /\ active_connections' = [active_connections EXCEPT ![target[u]] = @ - 1]
    /\ UNCHANGED <<order, health, round_robin_index, up, probes, session,
                   metrics_open, lost>>

\* end_connection, and the session returns.
EndMetrics(u) ==
    /\ pc[u] = "ending"
    /\ Return(u)
    /\ metrics_open' = [metrics_open EXCEPT ![kind[u]] = @ - 1]
    /\ UNCHANGED <<order, health, active_connections, round_robin_index, up,
                   probes, lost>>

-----------------------------------------------------------------------------
(* The health checker, which runs only when there is a choice of servers.  *)

\* Mutant: off by one.
HealthCheckerOffByOne == HealthCheckEnabled /\ Cardinality(Servers) > 2

\* ServerPool::new starts it.
HealthChecker == HealthCheckEnabled /\ Cardinality(Servers) > 1

\* One tick of the interval spawns a probe of every server.
Tick ==
    /\ HealthChecker
    /\ \A s \in Servers : probing[s] + probed_ok[s] + probed_err[s] < MaxProbes
    /\ probing' = [s \in Servers |-> probing[s] + 1]
    /\ UNCHANGED <<order, health, active_connections, round_robin_index, up,
                   probed_ok, probed_err, pc, session, metrics_open, lost>>

\* check_server_health returns: connected, or refused or timed out.
Probe(s) ==
    /\ probing[s] > 0
    /\ probing' = [probing EXCEPT ![s] = @ - 1]
    /\ probed_ok' = IF up[s] THEN [probed_ok EXCEPT ![s] = @ + 1] ELSE probed_ok
    /\ probed_err' = IF up[s] THEN probed_err ELSE [probed_err EXCEPT ![s] = @ + 1]
    /\ UNCHANGED <<order, health, active_connections, round_robin_index, up,
                   pc, session, metrics_open, lost>>

\* The checker's own copy of the rule: the Err arm of a probe's match.
ProbeErr(s) ==
    /\ failures' = [failures EXCEPT ![s] = Bump(@)]
    /\ successes' = [successes EXCEPT ![s] = 0]
    /\ is_healthy' = IF is_healthy[s] /\ Bump(failures[s]) >= FailureThreshold
                     THEN [is_healthy EXCEPT ![s] = FALSE] ELSE is_healthy

\* Mutant: the two copies part, and a good probe leaves the failures counted.
ProbeOkKeepsFailures(s) ==
    /\ successes' = [successes EXCEPT ![s] = Bump(@)]
    /\ failures' = failures
    /\ is_healthy' = IF ~is_healthy[s] /\ Bump(successes[s]) >= RecoveryThreshold
                     THEN [is_healthy EXCEPT ![s] = TRUE] ELSE is_healthy

\* ... and its Ok arm.
ProbeOk(s) ==
    /\ successes' = [successes EXCEPT ![s] = Bump(@)]
    /\ failures' = [failures EXCEPT ![s] = 0]
    /\ is_healthy' = IF ~is_healthy[s] /\ Bump(successes[s]) >= RecoveryThreshold
                     THEN [is_healthy EXCEPT ![s] = TRUE] ELSE is_healthy

\* The probe locks the entry and applies its outcome.
ApplyProbe(s) ==
    /\ \/ /\ probed_ok[s] > 0
          /\ probed_ok' = [probed_ok EXCEPT ![s] = @ - 1]
          /\ ProbeOk(s)
          /\ UNCHANGED probed_err
       \/ /\ probed_err[s] > 0
          /\ probed_err' = [probed_err EXCEPT ![s] = @ - 1]
          /\ ProbeErr(s)
          /\ UNCHANGED probed_ok
    /\ UNCHANGED <<order, active_connections, round_robin_index, up, probing,
                   pc, session, metrics_open, lost>>

\* Environment: a server stops or resumes accepting connections.
Toggle(s) ==
    /\ up' = [up EXCEPT ![s] = ~@]
    /\ UNCHANGED <<order, health, active_connections, round_robin_index,
                   probes, pc, session, metrics_open, lost>>

-----------------------------------------------------------------------------
UserStep(u) ==
    \/ Begin(u) \/ Snapshot(u) \/ NoneHealthy(u) \/ Pick(u) \/ Dial(u)
    \/ MarkStart(u) \/ MarkSuccess(u) \/ MarkFailed(u) \/ Retry(u)
    \/ QuicConnected(u) \/ QuicFailed(u)
    \/ Exchanged(u) \/ ExchangeFailed(u) \/ MarkEnd(u) \/ EndMetrics(u)

CheckerStep == Tick \/ \E s \in Servers : Probe(s) \/ ApplyProbe(s)

Next ==
    \/ \E u \in Users : UserStep(u)
    \/ CheckerStep
    \/ \E s \in Servers : Toggle(s)

Spec == Init /\ [][Next]_vars

\* The checker's timer always fires again, a probe ends by its own timeout,
\* and a task that holds an outcome is runnable until it has applied it.
Fairness ==
    /\ WF_vars(Tick)
    /\ \A s \in Servers : WF_vars(Probe(s)) /\ WF_vars(ApplyProbe(s))
    /\ \A u \in Users : WF_vars(MarkFailed(u)) /\ WF_vars(MarkSuccess(u))

FairSpec == Spec /\ Fairness

-----------------------------------------------------------------------------
(* Properties.                                                             *)

TypeOK ==
    /\ order \in Orders
    /\ is_healthy \in [Servers -> BOOLEAN]
    /\ failures \in [Servers -> 0..CounterCap]
    /\ successes \in [Servers -> 0..CounterCap]
    /\ active_connections \in [Servers -> Int]
    /\ round_robin_index \in Nat
    /\ up \in [Servers -> BOOLEAN]
    /\ probing \in [Servers -> Nat]
    /\ probed_ok \in [Servers -> Nat]
    /\ probed_err \in [Servers -> Nat]
    /\ pc \in [Users -> PCs]
    /\ kind \in [Users -> Kinds \cup {"none"}]
    /\ healthy_servers \in [Users -> SUBSET Servers]
    /\ target \in [Users -> Servers \cup {NoServer}]
    /\ attempt \in [Users -> 0..MaxRetries-1]
    /\ sessions \in [Users -> Nat]
    /\ metrics_open \in [Kinds -> Int]
    /\ lost \in [Servers -> Nat]

\* The healthy flag and the two counters are written by concurrent user tasks
\* and probe tasks, in code that exists twice (mark_connection_* and the
\* probe's match).  Whoever wrote last, they agree: a healthy server is below
\* the failure threshold, an unhealthy one below the recovery threshold, and
\* the counters are never both running.
FlagMatchesCounters ==
    \A s \in Servers :
        /\ is_healthy[s] => failures[s] < FailureThreshold
        /\ ~is_healthy[s] => successes[s] < RecoveryThreshold
        /\ failures[s] = 0 \/ successes[s] = 0

\* User u has called mark_connection_start on s and not yet
\* mark_connection_end, and is still in the session.
Holds(u, s) ==
    /\ target[u] = s
    /\ pc[u] \in {"counted", "dialing", "open", "closing"}

\* The counter the least-connections strategy reads is exactly the sessions
\* that hold the server plus those that were lost on an error path: no
\* interleaving of starts and ends of several users loses or repeats an update,
\* and in particular fetch_sub never wraps below zero.
ConnectionsConserved ==
    \A s \in Servers :
        active_connections[s] = Cardinality({u \in Users : Holds(u, s)}) + lost[s]

\* Records without an end_time are what the report counts as active.  For TCP
\* they are exactly the sessions running: every error path of a TCP activity
\* reaches end_connection.  For QUIC, whose early returns skip it, they are at
\* least the sessions running.
MetricsConserved ==
    \A k \in Kinds :
        LET running == Cardinality({u \in Users : kind[u] = k}) IN
        IF k = "tcp" THEN metrics_open[k] = running ELSE metrics_open[k] >= running

\* Least connections: the server picked has as few connections still held as
\* any other in the list the pick was made from.
PicksLeastHeld ==
    [][\A u \in Users :
         (pc[u] = "pick" /\ pc'[u] # "pick") =>
            \A t \in healthy_servers[u] :
               Cardinality({v \in Users : Holds(v, target'[u])})
                 <= Cardinality({v \in Users : Holds(v, t)})]_vars

\* A server that accepts connections again, and goes on accepting them, is in
\* the end healthy for good, however many users' late failures are still to be
\* marked.
Recovers ==
    \A s \in Servers : <>[]up[s] => <>[]is_healthy[s]

\* A server that stops accepting for good is in the end out of the list for
\* good, whatever stale successes are still in flight.
DeadServersLeave ==
    \A s \in Servers : <>[](~up[s]) => <>[](~is_healthy[s])

\* A server whose state stops changing is judged rightly in the end, either way
\* (server_pool.rs:192-251).
HealthSettles == Recovers /\ DeadServersLeave

\* The pool's health bookkeeping implements the two-sided latch of HealthLatch.
Latch == INSTANCE HealthLatch WITH
            healthy <- is_healthy,
            streak <- [s \in Servers |-> successes[s] - failures[s]]
LatchSpec == Latch!Spec
=============================================================================
