------------------------------ MODULE UdpProbe ------------------------------
(***************************************************************************)
(* One UDP run of the continuity probe (ci/src/client.rs, run_udp): every  *)
(* flow is a task that connects a socket, spawns a reader and then writes  *)
(* datagrams until the deadline; watchdog and sampler run beside them, and *)
(* the run joins the flows and then the sampler.                           *)
(*                                                                         *)
(* The path, with udp_echo at its far end, may lose, hold back, duplicate  *)
(* or reject a datagram, or deliver one that is none of the probe's.  The  *)
(* probe ignores sequence numbers, so datagrams are counted and reordering *)
(* them changes nothing; all have one size, so bytes are counted with      *)
(* them.  Time is in ticks, and passes only when no task has something     *)
(* left to do at the present one.  Left out: RTT samples, what the sampler *)
(* reads, and the error list.                                              *)
(***************************************************************************)
EXTENDS Integers, FiniteSetsExt

CONSTANTS
    Conns,      \* the flows, numbered as in run.conns
    Second,     \* ticks in a second, which is the reader's timeout
    Duration,   \* duration_secs
    StallTicks, \* stall_ms
    Interval,   \* udp_interval_ms
    Ramp,       \* ramp_ms
    MaxFaults,  \* bound: faults that a flow meets
    Faults      \* of {"bind", "send", "lose", "copy", "hold", "reject", "stray"}

ASSUME ConnsAssumption == Conns \subseteq Nat /\ IsFiniteSet(Conns)
ASSUME TimesAssumption ==
    /\ Second \in Nat \ {0} /\ Interval \in Nat \ {0}
    /\ Duration \in Nat /\ StallTicks \in Nat /\ Ramp \in Nat
ASSUME MaxFaultsAssumption == MaxFaults \in Nat

VARIABLES
    now,
    flow,         \* where each udp_flow stands: ramp, connect, then the writer
    reader,       \* where its reader stands
    due,          \* next tick of the writer's interval
    timer,        \* the tick at which the reader's recv times out
    connected, first_recv, last_recv, in_stall,     \* ConnState
    udp_sent, udp_recv,                             \* ConnState
    connect_failed, stalls, winding_down,           \* PortRun
    watchdog, wd_now, wd_todo, wd_gap, wd_flow,     \* as in ProbeRun
    sampler,      \* seconds the sampler has still to sample
    main,         \* run_udp: "join", "wind", "done"
    transit,      \* datagrams the path holds, either way
    inbox,        \* datagrams in the client's socket
    sockerr,      \* an error is pending on the socket
    relaying,     \* environment: the path is moving data
    lost, copied, \* history: datagrams gone, duplicates made
    faults,       \* history: times the path or the socket failed the flow
    died,         \* history: the reader ended by an error
    arrived       \* history: ticks at which datagrams came to the socket

conn == <<connected, first_recv, last_recv, in_stall, udp_sent, udp_recv>>
report == <<connect_failed, stalls, winding_down>>
dog == <<watchdog, wd_now, wd_todo, wd_gap, wd_flow>>
wire == <<transit, inbox, sockerr, relaying, lost, copied, faults, died, arrived>>
tasks == <<flow, reader, due, timer>>
vars == <<now, tasks, conn, report, dog, sampler, main, wire>>

Deadline == Second * Duration

\* Start of a flow: stagger(ramp_ms, id, n).
Stagger(c) == (Ramp * c) \div Cardinality(Conns)

LastStart == Max({Stagger(c) : c \in Conns} \cup {Deadline})
PathMemory == LastStart + Interval        \* bound: nothing arrives after this tick
Horizon == PathMemory + Second + 1        \* bound: time stops here

Init ==
    /\ now = 0
    /\ flow = [c \in Conns |-> "ramp"]
    /\ reader = [c \in Conns |-> "unborn"]
    /\ due = [c \in Conns |-> 0]
    /\ timer = [c \in Conns |-> 0]
    /\ connected = [c \in Conns |-> FALSE]
    /\ first_recv = [c \in Conns |-> FALSE]
    /\ last_recv = [c \in Conns |-> 0]
    /\ in_stall = [c \in Conns |-> FALSE]
    /\ udp_sent = [c \in Conns |-> 0]
    /\ udp_recv = [c \in Conns |-> 0]
    /\ connect_failed = 0 /\ stalls = {} /\ winding_down = FALSE
    /\ watchdog = "tick" /\ wd_now = 0 /\ wd_todo = {} /\ wd_gap = 0 /\ wd_flow = 0
    /\ sampler = Duration
    /\ main = "join"
    /\ transit = [c \in Conns |-> 0]
    /\ inbox = [c \in Conns |-> 0]
    /\ sockerr = [c \in Conns |-> FALSE]
    /\ relaying = [c \in Conns |-> TRUE]
    /\ lost = [c \in Conns |-> 0]
    /\ copied = [c \in Conns |-> 0]
    /\ faults = [c \in Conns |-> 0]
    /\ died = [c \in Conns |-> FALSE]
    /\ arrived = [c \in Conns |-> {}]

Flow(c, from, to) == flow[c] = from /\ flow' = [flow EXCEPT ![c] = to]
Reader(c, from, to) == reader[c] = from /\ reader' = [reader EXCEPT ![c] = to]
Fault(c) == faults[c] < MaxFaults /\ faults' = [faults EXCEPT ![c] = @ + 1]

-----------------------------------------------------------------------------
(* udp_flow: connecting, then the writer.                                  *)

BindFails(c) ==
    /\ "bind" \in Faults /\ now >= Stagger(c)
    /\ Flow(c, "ramp", "end")
    /\ connect_failed' = connect_failed + 1
    /\ UNCHANGED <<now, reader, due, timer, conn, stalls, winding_down, dog,
                   sampler, main, wire>>

Connects(c) ==
    /\ now >= Stagger(c)
    /\ Flow(c, "ramp", "stamp")
    /\ connected' = [connected EXCEPT ![c] = TRUE]
    /\ UNCHANGED <<now, reader, due, timer, first_recv, last_recv, in_stall,
                   udp_sent, udp_recv, report, dog, sampler, main, wire>>

StampConnect(c) ==
    /\ Flow(c, "stamp", "spawn")
    /\ last_recv' = [last_recv EXCEPT ![c] = now]
    /\ UNCHANGED <<now, reader, due, timer, connected, first_recv, in_stall,
                   udp_sent, udp_recv, report, dog, sampler, main, wire>>

\* The reader is spawned and starts its first recv; the interval's first tick
\* is immediate.
SpawnReader(c) ==
    /\ Flow(c, "spawn", "loop")
    /\ Reader(c, "unborn", "recv")
    /\ timer' = [timer EXCEPT ![c] = now + Second]
    /\ due' = [due EXCEPT ![c] = now]
    /\ UNCHANGED <<now, conn, report, dog, sampler, main, wire>>

\* The loop's condition: the deadline is looked at before the tick is awaited.
WriterChecks(c) ==
    /\ Flow(c, "loop", IF now < Deadline THEN "tick" ELSE "join")
    /\ UNCHANGED <<now, reader, due, timer, conn, report, dog, sampler, main, wire>>

\* The interval's tick comes, and sock.send takes the datagram.
Send(c) ==
    /\ now >= due[c] /\ ~sockerr[c]
    /\ Flow(c, "tick", "count")
    /\ due' = [due EXCEPT ![c] = Min({@ + Interval, Horizon})]
    /\ transit' = [transit EXCEPT ![c] = @ + 1]
    /\ UNCHANGED <<now, reader, timer, conn, report, dog, sampler, main, inbox,
                   sockerr, relaying, lost, copied, faults, died, arrived>>

\* Only now is it counted: its echo may have been read before.
CountSent(c) ==
    /\ Flow(c, "count", "loop")
    /\ udp_sent' = [udp_sent EXCEPT ![c] = @ + 1]
    /\ UNCHANGED <<now, reader, due, timer, connected, first_recv, last_recv,
                   in_stall, udp_recv, report, dog, sampler, main, wire>>

\* Mutant: a datagram that was not sent is counted.
SendFailsCounted(c) ==
    /\ now >= due[c]
    /\ \/ sockerr[c] /\ UNCHANGED faults
       \/ "send" \in Faults /\ Fault(c)
    /\ Flow(c, "tick", "count")
    /\ due' = [due EXCEPT ![c] = Min({@ + Interval, Horizon})]
    /\ sockerr' = [sockerr EXCEPT ![c] = FALSE]
    /\ UNCHANGED <<now, reader, timer, conn, report, dog, sampler, main, transit,
                   inbox, relaying, lost, copied, died, arrived>>

\* The send fails, of itself or with the error pending on the socket, which it
\* consumes; it is noted, and the writer goes on.
SendFails(c) ==
    /\ now >= due[c]
    /\ \/ sockerr[c] /\ UNCHANGED faults
       \/ "send" \in Faults /\ Fault(c)
    /\ Flow(c, "tick", "loop")
    /\ due' = [due EXCEPT ![c] = Min({@ + Interval, Horizon})]
    /\ sockerr' = [sockerr EXCEPT ![c] = FALSE]
    /\ UNCHANGED <<now, reader, timer, conn, report, dog, sampler, main, transit,
                   inbox, relaying, lost, copied, died, arrived>>

\* reader.await returns.
FlowEnds(c) ==
    /\ reader[c] = "end"
    /\ Flow(c, "join", "end")
    /\ UNCHANGED <<now, reader, due, timer, conn, report, dog, sampler, main, wire>>

-----------------------------------------------------------------------------
(* The reader.                                                             *)

\* A datagram of the probe's is received and counted.
Receive(c) ==
    /\ inbox[c] > 0
    /\ Reader(c, "recv", "stamp")
    /\ inbox' = [inbox EXCEPT ![c] = @ - 1]
    /\ udp_recv' = [udp_recv EXCEPT ![c] = @ + 1]
    /\ UNCHANGED <<now, flow, due, timer, connected, first_recv, last_recv,
                   in_stall, udp_sent, report, dog, sampler, main, transit,
                   sockerr, relaying, lost, copied, faults, died, arrived>>

\* decode_udp refuses it: the loop starts over, with a timeout of its own.
ReceiveStray(c) ==
    /\ "stray" \in Faults /\ now <= PathMemory
    /\ Reader(c, "recv", "recv")
    /\ timer' = [timer EXCEPT ![c] = now + Second]
    /\ UNCHANGED <<now, flow, due, conn, report, dog, sampler, main, wire>>

Stamp(c) ==
    /\ Reader(c, "stamp", "flag")
    /\ last_recv' = [last_recv EXCEPT ![c] = now]
    /\ UNCHANGED <<now, flow, due, timer, connected, first_recv, in_stall,
                   udp_sent, udp_recv, report, dog, sampler, main, wire>>

FlagFirst(c) ==
    /\ Reader(c, "flag", "clear")
    /\ first_recv' = [first_recv EXCEPT ![c] = TRUE]
    /\ UNCHANGED <<now, flow, due, timer, connected, last_recv, in_stall,
                   udp_sent, udp_recv, report, dog, sampler, main, wire>>

\* in_stall is cleared, and the next recv starts with a new timeout.
ClearStall(c) ==
    /\ Reader(c, "clear", "recv")
    /\ in_stall' = [in_stall EXCEPT ![c] = FALSE]
    /\ timer' = [timer EXCEPT ![c] = now + Second]
    /\ UNCHANGED <<now, flow, due, connected, first_recv, last_recv, udp_sent,
                   udp_recv, report, dog, sampler, main, wire>>

\* Any error of recv ends the reader, and nothing else.
ReaderDies(c) ==
    /\ sockerr[c]
    /\ Reader(c, "recv", "end")
    /\ sockerr' = [sockerr EXCEPT ![c] = FALSE]
    /\ died' = [died EXCEPT ![c] = TRUE]
    /\ UNCHANGED <<now, flow, due, timer, conn, report, dog, sampler, main,
                   transit, inbox, relaying, lost, copied, faults, arrived>>

\* Mutant: the first second of silence ends the reader.
ReadTimesOutAtOnce(c) ==
    /\ inbox[c] = 0 /\ ~sockerr[c] /\ now >= timer[c]
    /\ Reader(c, "recv", "end")
    /\ timer' = [timer EXCEPT ![c] = now + Second]
    /\ UNCHANGED <<now, flow, due, conn, report, dog, sampler, main, wire>>

\* Mutant: the reader does not grant the last echoes their second.
ReadTimesOutEarly(c) ==
    /\ inbox[c] = 0 /\ ~sockerr[c] /\ now >= Min({timer[c], Deadline})
    /\ Reader(c, "recv", IF now >= Deadline THEN "end" ELSE "recv")
    /\ timer' = [timer EXCEPT ![c] = now + Second]
    /\ UNCHANGED <<now, flow, due, conn, report, dog, sampler, main, wire>>

\* Mutant: the deadline is forgotten.
ReadTimesOutNever(c) ==
    /\ inbox[c] = 0 /\ ~sockerr[c] /\ now >= timer[c]
    /\ Reader(c, "recv", "recv")
    /\ timer' = [timer EXCEPT ![c] = now + Second]
    /\ UNCHANGED <<now, flow, due, conn, report, dog, sampler, main, wire>>

\* A second without a datagram: past the deadline the reader ends, else it
\* waits for another.
ReadTimesOut(c) ==
    /\ inbox[c] = 0 /\ ~sockerr[c] /\ now >= timer[c]
    /\ Reader(c, "recv", IF now >= Deadline THEN "end" ELSE "recv")
    /\ timer' = [timer EXCEPT ![c] = now + Second]
    /\ UNCHANGED <<now, flow, due, conn, report, dog, sampler, main, wire>>

-----------------------------------------------------------------------------
(* The watchdog, the sampler and run_udp.                                  *)

WatchdogTick ==
    /\ watchdog = "tick" /\ wd_now < now
    /\ wd_now' = now
    /\ IF now >= Deadline \/ winding_down
       THEN watchdog' = "stopped" /\ UNCHANGED wd_todo
       ELSE watchdog' = "pass" /\ wd_todo' = Conns
    /\ UNCHANGED <<now, tasks, conn, report, wd_gap, wd_flow, sampler, main, wire>>

WatchdogLoad ==
    /\ watchdog = "pass" /\ wd_todo # {} /\ wd_gap = 0
    /\ LET c == Min(wd_todo)
           gap == Max({0, wd_now - last_recv[c]})
       IN  /\ wd_todo' = wd_todo \ {c}
           /\ IF connected[c] /\ first_recv[c] /\ gap > StallTicks
              THEN wd_gap' = gap /\ wd_flow' = c
              ELSE UNCHANGED <<wd_gap, wd_flow>>
    /\ UNCHANGED <<now, tasks, conn, report, watchdog, wd_now, sampler, main, wire>>

WatchdogSwap ==
    /\ watchdog = "pass" /\ wd_gap > 0
    /\ in_stall' = [in_stall EXCEPT ![wd_flow] = TRUE]
    /\ stalls' = IF in_stall[wd_flow] THEN stalls
                 ELSE stalls \cup {[conn_id |-> wd_flow, at |-> wd_now, gap |-> wd_gap]}
    /\ wd_gap' = 0 /\ wd_flow' = 0
    /\ UNCHANGED <<now, tasks, connected, first_recv, last_recv, udp_sent, udp_recv,
                   connect_failed, winding_down, watchdog, wd_now, wd_todo,
                   sampler, main, wire>>

WatchdogSleeps ==
    /\ watchdog = "pass" /\ wd_todo = {} /\ wd_gap = 0
    /\ watchdog' = "tick"
    /\ UNCHANGED <<now, tasks, conn, report, wd_now, wd_todo, wd_gap, wd_flow,
                   sampler, main, wire>>

NextSample == Second * (Duration - sampler + 1)

\* A sample each second, and no more once the run winds down or is out of
\* seconds.
Sample ==
    /\ sampler > 0 /\ now >= NextSample
    /\ sampler' = IF winding_down THEN 0 ELSE sampler - 1
    /\ UNCHANGED <<now, tasks, conn, report, dog, main, wire>>

WindDown ==
    /\ main = "join"
    /\ \A c \in Conns : flow[c] = "end"
    /\ main' = "wind"
    /\ winding_down' = TRUE
    /\ UNCHANGED <<now, tasks, conn, connect_failed, stalls, dog, sampler, wire>>

\* sampler.await, watchdog.abort() and finalize.
Finalize ==
    /\ main = "wind" /\ sampler = 0
    /\ main' = "done"
    /\ watchdog' = "stopped"
    /\ UNCHANGED <<now, tasks, conn, report, wd_now, wd_todo, wd_gap, wd_flow,
                   sampler, wire>>

\* flows_no_return, as finalize counts it.
NoReturn == {c \in Conns : connected[c] /\ udp_recv[c] = 0}

-----------------------------------------------------------------------------
(* The path and the echo endpoint.                                         *)

\* The path carries a datagram to udp_echo and back to the client's socket.
Arrive(c) ==
    /\ relaying[c] /\ transit[c] > 0 /\ now <= PathMemory
    /\ transit' = [transit EXCEPT ![c] = @ - 1]
    /\ inbox' = [inbox EXCEPT ![c] = @ + 1]
    /\ arrived' = [arrived EXCEPT ![c] = @ \cup {now}]
    /\ UNCHANGED <<now, tasks, conn, report, dog, sampler, main, sockerr, relaying,
                   lost, copied, faults, died>>

Lose(c) ==
    /\ "lose" \in Faults /\ transit[c] > 0
    /\ transit' = [transit EXCEPT ![c] = @ - 1]
    /\ lost' = [lost EXCEPT ![c] = @ + 1]
    /\ Fault(c)
    /\ UNCHANGED <<now, tasks, conn, report, dog, sampler, main, inbox, sockerr,
                   relaying, copied, died, arrived>>

Duplicate(c) ==
    /\ "copy" \in Faults /\ transit[c] > 0
    /\ transit' = [transit EXCEPT ![c] = @ + 1]
    /\ copied' = [copied EXCEPT ![c] = @ + 1]
    /\ Fault(c)
    /\ UNCHANGED <<now, tasks, conn, report, dog, sampler, main, inbox, sockerr,
                   relaying, lost, died, arrived>>

\* A datagram is rejected, and the ICMP error comes back to the socket.
Reject(c) ==
    /\ "reject" \in Faults /\ transit[c] > 0
    /\ transit' = [transit EXCEPT ![c] = @ - 1]
    /\ lost' = [lost EXCEPT ![c] = @ + 1]
    /\ sockerr' = [sockerr EXCEPT ![c] = TRUE]
    /\ Fault(c)
    /\ UNCHANGED <<now, tasks, conn, report, dog, sampler, main, inbox, relaying,
                   copied, died, arrived>>

Hold(c) ==
    /\ "hold" \in Faults /\ relaying[c] /\ transit[c] > 0
    /\ relaying' = [relaying EXCEPT ![c] = FALSE]
    /\ Fault(c)
    /\ UNCHANGED <<now, tasks, conn, report, dog, sampler, main, transit, inbox,
                   sockerr, lost, copied, died, arrived>>

Resume(c) ==
    /\ ~relaying[c]
    /\ relaying' = [relaying EXCEPT ![c] = TRUE]
    /\ UNCHANGED <<now, tasks, conn, report, dog, sampler, main, transit, inbox,
                   sockerr, lost, copied, faults, died, arrived>>

-----------------------------------------------------------------------------
(* Time.                                                                   *)

FlowBusy(c) ==
    \/ flow[c] \in {"stamp", "spawn", "loop", "count"}
    \/ flow[c] = "ramp" /\ now >= Stagger(c)
    \/ flow[c] = "tick" /\ now >= due[c]
    \/ flow[c] = "join" /\ reader[c] = "end"

ReaderBusy(c) ==
    \/ reader[c] \in {"stamp", "flag", "clear"}
    \/ reader[c] = "recv" /\ (inbox[c] > 0 \/ sockerr[c] \/ now >= timer[c])

PathBusy(c) ==
    flow[c] # "end" /\ relaying[c] /\ transit[c] > 0 /\ now <= PathMemory

Quiet ==
    /\ \A c \in Conns : ~FlowBusy(c) /\ ~ReaderBusy(c) /\ ~PathBusy(c)
    /\ watchdog = "stopped" \/ (watchdog = "tick" /\ wd_now = now)
    /\ sampler = 0 \/ now < NextSample

Advance ==
    /\ now < Horizon /\ main # "done" /\ Quiet
    /\ now' = now + 1
    /\ UNCHANGED <<tasks, conn, report, dog, sampler, main, wire>>

-----------------------------------------------------------------------------
FlowStep(c) ==
    \/ BindFails(c) \/ Connects(c) \/ StampConnect(c) \/ SpawnReader(c)
    \/ WriterChecks(c) \/ Send(c) \/ CountSent(c) \/ SendFails(c) \/ FlowEnds(c)

ReaderStep(c) ==
    \/ Receive(c) \/ ReceiveStray(c) \/ Stamp(c) \/ FlagFirst(c) \/ ClearStall(c)
    \/ ReaderDies(c) \/ ReadTimesOut(c)

WatchdogStep == WatchdogTick \/ WatchdogLoad \/ WatchdogSwap \/ WatchdogSleeps

\* Once the flow has ended its socket is gone.
PathStep(c) ==
    /\ flow[c] # "end"
    /\ \/ Arrive(c) \/ Lose(c) \/ Duplicate(c)
       \/ Reject(c) \/ Hold(c) \/ Resume(c)

Next ==
    \/ \E c \in Conns : FlowStep(c) \/ ReaderStep(c) \/ PathStep(c)
    \/ WatchdogStep \/ Sample \/ WindDown \/ Finalize \/ Advance

Spec == Init /\ [][Next]_vars

\* Runnable tasks run, timers fire and time passes; what a relaying path holds
\* arrives or is lost.  Nothing makes the path relay.
CodeFairness ==
    /\ \A c \in Conns :
        /\ WF_vars(FlowStep(c))
        /\ WF_vars(Receive(c) \/ Stamp(c) \/ FlagFirst(c) \/ ClearStall(c)
                   \/ ReaderDies(c) \/ ReadTimesOut(c))
        /\ SF_vars(flow[c] # "end" /\ Arrive(c))
    /\ WF_vars(WatchdogStep) /\ WF_vars(Sample) /\ WF_vars(WindDown)
    /\ WF_vars(Finalize) /\ SF_vars(Advance)

FairSpec == Spec /\ CodeFairness

-----------------------------------------------------------------------------
(* Properties.                                                             *)

\* What the reader has counted, what is still on its way and what is lost are
\* together what the writer has counted (or is about to: an echo can be read
\* before its datagram is counted as sent) and the path has duplicated.  So
\* udp_recv may exceed udp_sent by no more than that.
ReceiptsConserved ==
    \A c \in Conns :
        udp_recv[c] + inbox[c] + transit[c] + lost[c]
          = udp_sent[c] + copied[c] + (IF flow[c] = "count" THEN 1 ELSE 0)

\* A stall is reported of a path that was delivering only if the flow's reader
\* had died of a receive error (client.rs:359) while its writer went on.
StallsExplained ==
    \A e \in stalls :
        \/ died[e.conn_id]
        \/ \A t \in arrived[e.conn_id] : t <= e.at - e.gap \/ t >= e.at

\* A flow nobody tampered with stalls nowhere, gets back what it sent although
\* its last datagram may leave after the deadline, and is called one without
\* return traffic only if it started so late that it sent nothing
\* (client.rs:318, 372): provided that it sends more often than its reader
\* times out and the watchdog barks.
CleanFlowsClean ==
    (Interval < Second /\ Interval <= StallTicks) =>
        \A c \in Conns : faults[c] = 0 =>
            /\ \A e \in stalls : e.conn_id # c
            /\ main = "done" /\ connected[c] =>
                /\ udp_recv[c] = udp_sent[c]
                /\ c \in NoReturn <=> Stagger(c) >= Deadline

\* Unlike a run over TCP, a run over UDP comes to its report on every path that
\* does not deliver for ever: the reader's second of silence ends it.
RunEnds == <>(main = "done")
=============================================================================
