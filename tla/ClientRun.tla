----------------------------- MODULE ClientRun ------------------------------
(***************************************************************************)
(* One run of the client (client/src/main.rs): the simulated users         *)
(* (simulator.rs), the metrics collector they write to (shared/src/        *)
(* metrics.rs), the task that samples it every second, and the report that *)
(* is computed from it at the end (shared/src/report.rs).                  *)
(*                                                                         *)
(* Users, their stop timers, the sampler and main are separate tasks on    *)
(* many threads.  The collector's map is read by iteration, one record at  *)
(* a time, while users write to it; a record inserted meanwhile may or may *)
(* not be met.  main, when it stops waiting, aborts the sampler, which     *)
(* takes effect only where that next awaits, and leaves the users running. *)
(*                                                                         *)
(* Time is counted in seconds; tasks with something to do are scheduled    *)
(* within one.  Of an activity the model keeps its records: kind, bytes    *)
(* either way, errors, start and end, and of the histories what they add   *)
(* up to.  What the requests do is in ServerPool and TcpExchange.  Left    *)
(* out: latencies, packet counts and the screen.                           *)
(***************************************************************************)
EXTENDS Integers, Sequences, FiniteSets, Functions

CONSTANTS
    Users,      \* 0..concurrent_users-1
    Duration,   \* config.duration
    ThinkTimes, \* values of generate_think_time
    MaxRecords, \* bound: records of one user
    MaxEvents,  \* bound: transfers and errors counted on one record
    Kinds,      \* connection types in use, of {"tcp", "quic"}
    Horizon     \* bound: time stops

ASSUME TimesAssumption ==
    /\ Duration \in Nat /\ Horizon \in Nat
    /\ ThinkTimes \subseteq Nat /\ ThinkTimes # {}
    /\ \A t \in ThinkTimes : Duration + t <= Horizon
ASSUME UsersAssumption == IsFiniteSet(Users)
ASSUME BoundsAssumption == MaxRecords \in Nat /\ MaxEvents \in Nat
ASSUME KindsAssumption == Kinds \subseteq {"tcp", "quic"}

VARIABLES
    now,
    user,          \* where each user's task stands
    began,         \* its start_time
    session,       \* user_session_duration
    think,         \* think_time just drawn
    wake,          \* the end of its sleep
    stoped,        \* the flag its timer sets
    active_users,  \* the collector's count
    connections,   \* the collector's map: id -> record
    made,          \* records made by each user; the last is the one in use
    sampler,       \* where metrics_task stands
    aborted,       \* abort() was called on it
    due,           \* its interval's next tick
    unseen,        \* records it must still meet in this iteration
    met,           \* records it has met
    acc,           \* sums so far, by kind
    last,          \* last_<kind>_bytes
    last_time,     \* last_sample_time
    throughput_history,  \* the deltas in its samples, added up
    error_history,       \* its newest sample
    main,          \* where main stands
    report,        \* what the report is generated from
    floor,         \* history: traffic by kind when the iteration began
    natural        \* history: main stopped because the simulation ended

clocks == <<began, session, think, wake, stoped>>
sampling == <<sampler, due, unseen, met, acc, last, last_time,
              throughput_history, error_history, floor>>
reporting == <<aborted, main, report, natural>>
vars == <<now, user, clocks, active_users, connections, made, sampling, reporting>>

UserPCs == {"start", "loop", "think", "act", "failed", "page", "leave", "done"}
Open == Horizon + 1    \* end_time of a record that has none
Nothing == [k \in Kinds |-> 0]
NoReport == [connections |-> <<>>, throughput |-> Nothing, errors |-> Nothing]

Bytes(c) == c.bytes
Errors(c) == c.errors

\* The sum of a field over the records of one kind.
Total(f(_), recs, kind) ==
    SumFunction([id \in DOMAIN recs |->
                    IF recs[id].kind = kind THEN f(recs[id]) ELSE 0])

Traffic(recs) == [k \in Kinds |-> Total(Bytes, recs, k)]

Init ==
    /\ now = 0
    /\ user = [u \in Users |-> "start"]
    /\ began = [u \in Users |-> 0]
    /\ session = [u \in Users |-> 0]
    /\ think = [u \in Users |-> 0]
    /\ wake = [u \in Users |-> 0]
    /\ stoped = [u \in Users |-> FALSE]
    /\ active_users = 0
    /\ connections = <<>>
    /\ made = [u \in Users |-> 0]
    /\ sampler = "tick" /\ aborted = FALSE /\ due = 0
    /\ unseen = {} /\ met = {} /\ acc = Nothing
    /\ last = Nothing /\ last_time = 0
    /\ throughput_history = Nothing /\ error_history = Nothing
    /\ main = "wait" /\ report = NoReport
    /\ floor = Nothing /\ natural = FALSE

User(u, from, to) ==
    /\ main # "exit"
    /\ user[u] = from /\ user' = [user EXCEPT ![u] = to]

-----------------------------------------------------------------------------
(* simulate_user_behavior.                                                 *)

\* A permit is free for every user; the session lasts D/2 to D seconds.
Begin(u) ==
    /\ User(u, "start", "loop")
    /\ active_users' = active_users + 1
    /\ began' = [began EXCEPT ![u] = now]
    /\ \E d \in (Duration \div 2)..Duration : session' = [session EXCEPT ![u] = d]
    /\ UNCHANGED <<now, think, wake, stoped, connections, made, sampling, reporting>>

Elapsed(u) == now - began[u]

\* The timer task: it sleeps as long as the session lasts.
StopFires(u) ==
    /\ main # "exit"
    /\ user[u] \notin {"start", "done"} /\ ~stoped[u] /\ Elapsed(u) >= session[u]
    /\ stoped' = [stoped EXCEPT ![u] = TRUE]
    /\ UNCHANGED <<now, user, began, session, think, wake, active_users,
                   connections, made, sampling, reporting>>

\* The loop's condition holds: think.  (At the bound on records, wait.)
Think(u) ==
    /\ Elapsed(u) < session[u] /\ made[u] < MaxRecords
    /\ User(u, "loop", "think")
    /\ \E t \in ThinkTimes :
        /\ think' = [think EXCEPT ![u] = t]
        /\ wake' = [wake EXCEPT ![u] = now + t]
    /\ UNCHANGED <<now, began, session, stoped, active_users, connections, made,
                   sampling, reporting>>

Fresh(kind) == [kind |-> kind, bytes |-> 0, errors |-> 0, start |-> now, end |-> Open]

\* start_connection_with_activity.
StartRecord(u, kind) ==
    /\ made' = [made EXCEPT ![u] = @ + 1]
    /\ LET id == <<u, made[u] + 1>>
       IN  connections' = [i \in DOMAIN connections \cup {id} |->
                             IF i = id THEN Fresh(kind) ELSE connections[i]]

\* think_time goes out of scope.
Awake(u) ==
    /\ think' = [think EXCEPT ![u] = 0]
    /\ wake' = [wake EXCEPT ![u] = 0]

TimeLeft(u) == think[u] + Elapsed(u) <= session[u] /\ ~stoped[u]

\* Awake, and the session is not over for this user: an activity begins.
Act(u) ==
    /\ now >= wake[u] /\ TimeLeft(u)
    /\ User(u, "think", "act")
    /\ \E k \in Kinds : StartRecord(u, k)
    /\ Awake(u)
    /\ UNCHANGED <<now, began, session, stoped, active_users, sampling, reporting>>

\* Out of the loop, by its condition or by the break.
Quit(u) ==
    /\ \/ Elapsed(u) >= session[u] /\ User(u, "loop", "leave")
       \/ now >= wake[u] /\ ~TimeLeft(u) /\ User(u, "think", "leave")
    /\ Awake(u)
    /\ UNCHANGED <<now, began, session, stoped, active_users, connections, made, sampling, reporting>>

\* Mutant: the count goes down only for a user the timer has stopped.
LeaveUncounted(u) ==
    /\ User(u, "leave", "done")
    /\ active_users' = IF active_users > 0 /\ stoped[u] THEN active_users - 1
                       ELSE active_users
    /\ UNCHANGED <<now, clocks, connections, made, sampling, reporting>>

\* set_stop.abort(), decrement_active_users.
Leave(u) ==
    /\ User(u, "leave", "done")
    /\ active_users' = IF active_users > 0 THEN active_users - 1 ELSE active_users
    /\ UNCHANGED <<now, clocks, connections, made, sampling, reporting>>

-----------------------------------------------------------------------------
(* An activity, as far as the collector sees it.                           *)

Current(u) == <<u, made[u]>>
HasRoom(c) == Bytes(c) + Errors(c) < MaxEvents

\* record_bytes_sent, record_bytes_received.
Transfer(u) ==
    /\ User(u, "act", "act")
    /\ HasRoom(connections[Current(u)])
    /\ connections' = [connections EXCEPT ![Current(u)].bytes = @ + 1]
    /\ UNCHANGED <<now, clocks, active_users, made, sampling, reporting>>

\* record_error_with_detail: count and detail under one guard.  A page that
\* fails does not end a QUIC session; any other error ends the record.
RecordError(u) ==
    /\ \/ User(u, "act", "failed")
       \/ /\ user[u] = "act" /\ connections[Current(u)].kind = "quic"
          /\ User(u, "act", "act")
    /\ HasRoom(connections[Current(u)])
    /\ connections' = [connections EXCEPT ![Current(u)].errors = @ + 1]
    /\ UNCHANGED <<now, clocks, active_users, made, sampling, reporting>>

\* Mutant: the record is inserted anew and not updated in place.
EndRecordResets(u) ==
    /\ \/ User(u, "act", "page")
       \/ User(u, "failed", "page")
    /\ connections' = [connections EXCEPT ![Current(u)] = [Fresh(@.kind) EXCEPT !.end = now]]
    /\ UNCHANGED <<now, clocks, active_users, made, sampling, reporting>>

\* end_connection.
EndRecord(u) ==
    /\ \/ User(u, "act", "page")
       \/ User(u, "failed", "page")
    /\ connections' = [connections EXCEPT ![Current(u)].end = now]
    /\ UNCHANGED <<now, clocks, active_users, made, sampling, reporting>>

\* No server for a QUIC session, or it does not connect: an early return, and
\* the record is left without an end.
Abandon(u) ==
    /\ user[u] \in {"act", "failed"}
    /\ connections[Current(u)].kind = "quic" /\ connections[Current(u)].bytes = 0
    /\ \/ connections[Current(u)].errors = 0 /\ User(u, "act", "loop")
       \/ connections[Current(u)].errors = 1 /\ User(u, "failed", "loop")
    /\ UNCHANGED <<now, clocks, active_users, connections, made, sampling, reporting>>

\* Web browsing sleeps at least a second and goes on to the next page, with a
\* record of its own; it does not ask for the stop flag here.
NextPage(u) ==
    /\ user[u] = "page" /\ made[u] < MaxRecords
    /\ connections[Current(u)].kind = "tcp" /\ now > connections[Current(u)].end
    /\ User(u, "page", "act")
    /\ StartRecord(u, "tcp")
    /\ UNCHANGED <<now, clocks, active_users, sampling, reporting>>

ActivityOver(u) ==
    /\ User(u, "page", "loop")
    /\ UNCHANGED <<now, clocks, active_users, connections, made, sampling, reporting>>

-----------------------------------------------------------------------------
(* The sampler: sample_throughput, then sample_errors.                     *)

\* Its interval fires, late ticks at once one after the other.
SamplerTick ==
    /\ main # "exit" /\ sampler = "tick" /\ ~aborted /\ due <= now
    /\ sampler' = "sum"
    /\ due' = due + 1
    /\ unseen' = DOMAIN connections /\ met' = {} /\ acc' = Nothing
    /\ floor' = Traffic(connections)
    /\ UNCHANGED <<now, user, clocks, active_users, connections, made, last,
                   last_time, throughput_history, error_history, reporting>>

Counted(c) == IF sampler = "sum" THEN Bytes(c) ELSE Errors(c)

\* The iterator yields one more record.
Meet ==
    /\ main # "exit" /\ sampler \in {"sum", "errors"}
    /\ \E id \in DOMAIN connections \ met :
        /\ met' = met \cup {id} /\ unseen' = unseen \ {id}
        /\ acc' = [acc EXCEPT ![connections[id].kind] = @ + Counted(connections[id])]
    /\ UNCHANGED <<now, user, clocks, active_users, connections, made, sampler,
                   due, last, last_time, throughput_history,
                   error_history, floor, reporting>>

\* Every record that was there when the iteration began has been met.
AllMet == unseen \cap DOMAIN connections = {}

\* sample_throughput is over; sample_errors iterates anew.
OnToErrors ==
    /\ sampler' = "errors"
    /\ unseen' = DOMAIN connections /\ met' = {} /\ acc' = Nothing
    /\ floor' = Nothing

SaturatingSub(a, b) == IF a > b THEN a - b ELSE 0

\* Enough time has passed since the last sample: push the deltas.
Commit ==
    /\ main # "exit" /\ sampler = "sum" /\ AllMet
    /\ throughput_history' =
          [k \in Kinds |-> throughput_history[k] + SaturatingSub(acc[k], last[k])]
    /\ last' = acc /\ last_time' = now
    /\ OnToErrors
    /\ UNCHANGED <<now, user, clocks, active_users, connections, made, due,
                   error_history, reporting>>

\* Mutant: the totals are remembered though nothing was pushed.
SkipForgets ==
    /\ main # "exit" /\ sampler = "sum" /\ AllMet
    /\ now <= last_time + 1
    /\ last' = acc
    /\ OnToErrors
    /\ UNCHANGED <<now, user, clocks, active_users, connections, made, due,
                   last_time, throughput_history, error_history, reporting>>

\* Less than a tenth of a second has passed: nothing is pushed or remembered.
Skip ==
    /\ main # "exit" /\ sampler = "sum" /\ AllMet
    /\ now <= last_time + 1
    /\ OnToErrors
    /\ UNCHANGED <<now, user, clocks, active_users, connections, made, due,
                   last, last_time, throughput_history, error_history, reporting>>

CommitErrors ==
    /\ main # "exit" /\ sampler = "errors" /\ AllMet
    /\ error_history' = acc
    /\ sampler' = "tick"
    /\ unseen' = {} /\ met' = {} /\ acc' = Nothing
    /\ UNCHANGED <<now, user, clocks, active_users, connections, made, due,
                   last, last_time, throughput_history, floor, reporting>>

-----------------------------------------------------------------------------
(* main.                                                                   *)

\* Mutant: main awaits the sampler, whose loop has no end, where it aborts it.
StopAwaits(because) ==
    /\ main = "wait" /\ main' = "await"
    /\ natural' = because
    /\ UNCHANGED <<now, user, clocks, active_users, connections, made, sampling,
                   aborted, report>>

\* Out of the select: metrics_task.abort().
Stop(because) ==
    /\ main = "wait" /\ main' = "copy"
    /\ natural' = because /\ aborted' = TRUE
    /\ UNCHANGED <<now, user, clocks, active_users, connections, made, sampling, report>>

\* run_simulation has joined every user.
SimulationEnds == (\A u \in Users : user[u] = "done") /\ Stop(TRUE)

\* Ctrl-C, or the screen is left; the simulation's tasks are not stopped.
Interrupted == Stop(FALSE)

\* generate_test_report clones the map; in one step, since nothing is stated of
\* a clone made while users still write.  Then the histories.
CopyRecords ==
    /\ main = "copy" /\ main' = "throughput"
    /\ report' = [report EXCEPT !.connections = connections]
    /\ UNCHANGED <<now, user, clocks, active_users, connections, made, sampling,
                   aborted, natural>>

CopyThroughput ==
    /\ main = "throughput" /\ main' = "errors"
    /\ report' = [report EXCEPT !.throughput = throughput_history]
    /\ UNCHANGED <<now, user, clocks, active_users, connections, made, sampling,
                   aborted, natural>>

\* The last history; the report is generated and exported, and main returns.
CopyErrors ==
    /\ main = "errors"
    /\ report' = [report EXCEPT !.errors = error_history]
    /\ main' = "exit"
    /\ UNCHANGED <<now, user, clocks, active_users, connections, made, sampling,
                   aborted, natural>>

-----------------------------------------------------------------------------
(* Time.                                                                   *)

\* A user's task that has nothing to do before time passes: it sleeps, or its
\* activity goes on.
Waits(u) ==
    /\ \/ user[u] \in {"act", "page", "done"}
       \/ user[u] = "think" /\ now < wake[u]
       \/ user[u] = "loop" /\ made[u] = MaxRecords /\ Elapsed(u) < session[u]
    /\ user[u] # "done" => stoped[u] \/ Elapsed(u) < session[u]

Advance ==
    /\ main = "wait" /\ now < Horizon
    /\ \A u \in Users : Waits(u)
    /\ sampler = "tick" /\ due > now
    /\ now' = now + 1
    /\ UNCHANGED <<user, clocks, active_users, connections, made, sampling, reporting>>

UserStep(u) ==
    \/ Begin(u) \/ Think(u) \/ Act(u) \/ Quit(u) \/ Leave(u)
    \/ Transfer(u) \/ RecordError(u) \/ EndRecord(u) \/ Abandon(u)
    \/ NextPage(u) \/ ActivityOver(u)

SamplerStep == SamplerTick \/ Meet \/ Commit \/ Skip \/ CommitErrors

MainStep == SimulationEnds \/ CopyRecords \/ CopyThroughput \/ CopyErrors

Next ==
    \/ \E u \in Users : UserStep(u) \/ StopFires(u)
    \/ SamplerStep \/ MainStep \/ Interrupted \/ Advance

Spec == Init /\ [][Next]_vars

\* The runtime runs every runnable task, activities end (ServerPool,
\* TcpExchange) and time passes; nobody need press Ctrl-C.
FairSpec ==
    /\ Spec
    /\ \A u \in Users : WF_vars(UserStep(u)) /\ WF_vars(StopFires(u))
    /\ WF_vars(SamplerStep) /\ WF_vars(MainStep) /\ WF_vars(Advance)

-----------------------------------------------------------------------------
(* Properties.                                                             *)

\* README.md:239: "throughput calculation now uses proper delta values".  The
\* samples pushed add up to the total last remembered, which never exceeds what
\* the records hold: no byte is counted in two samples, none is lost between
\* two, and no saturating subtraction hides a total that went backwards.  A sum
\* made while users write to the map (metrics.rs:214) lies between the traffic
\* at the start of the iteration and that at its end.
SamplesAccount ==
    \A k \in Kinds :
        /\ throughput_history[k] = last[k]
        /\ last[k] <= Traffic(connections)[k]
        /\ sampler = "sum" /\ AllMet =>
                floor[k] <= acc[k] /\ acc[k] <= Traffic(connections)[k]

\* The screen's number of active users is that of the users in their sessions,
\* whichever way each leaves its loop.
ActiveUsersExact ==
    active_users = Cardinality({u \in Users : user[u] \notin {"start", "done"}})

\* Whichever way the run ends, with the sampler anywhere in a pass and users, if
\* it was interrupted, still writing between the report's copies: the report has
\* no more sampled bytes or errors than there were.  If the simulation ran to its
\* end, it has every record, and no more samples than its own records show.
ReportAdds ==
    main = "exit" =>
        \A k \in Kinds :
            /\ report.throughput[k] <= Traffic(connections)[k]
            /\ report.errors[k] <= Total(Errors, connections, k)
            /\ natural =>
                /\ DOMAIN report.connections = DOMAIN connections
                /\ report.throughput[k] <= Traffic(report.connections)[k]
                /\ report.errors[k] <= Total(Errors, report.connections, k)

\* Every run ends with a report: each user notices the end of its session,
\* thinking or acting (the loop's condition and the stop flag each see to it), and
\* is joined; and main waits for no task that has no end.
RunEnds == <>(main = "exit")
=============================================================================
