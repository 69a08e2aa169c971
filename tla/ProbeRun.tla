------------------------------ MODULE ProbeRun ------------------------------
(***************************************************************************)
(* One TCP run of the continuity probe (ci/src/client.rs, run_tcp): the    *)
(* flows, each a reader task and the writer task it spawns, the stall      *)
(* watchdog, and the join that ends the run, over the forwarded path to    *)
(* the echo endpoint (ci/src/server.rs, tcp_echo).                         *)
(*                                                                         *)
(* The tasks share atomics; every load and store that another task can see *)
(* is a step of its own, in program order.  Time is counted in watchdog    *)
(* ticks and passes only when no task has something left to do at the      *)
(* present tick (Quiet): tasks are scheduled within a tick.  The path may  *)
(* fall silent, resume, close, reset or bring bytes that are no frame, at  *)
(* any time; a path that does none of these relays within the tick.        *)
(*                                                                         *)
(* Frames are counted, not carried; bytes only as "none yet" or "some".    *)
(* Left out: RTT samples, the throughput series and the error list.        *)
(***************************************************************************)
EXTENDS Integers, FiniteSets

CONSTANTS
    Conns,     \* the flows, numbered as in run.conns
    Deadline,  \* ticks until the run's deadline (duration_secs)
    StallTicks,\* stall_ms
    Pace,      \* ticks the writer sleeps after a frame; 0 when send_rate_bps = 0
    Window,    \* frames the socket buffers and the path hold, each way
    Faults     \* what the path may do, of {"silence", "close", "reset", "refuse", "garbage"}

ASSUME ConnsAssumption == Conns \subseteq Nat /\ IsFiniteSet(Conns)
ASSUME TimesAssumption == Deadline \in Nat /\ StallTicks \in Nat /\ Pace \in Nat
ASSUME WindowAssumption == Window \in Nat \ {0}

VARIABLES
    now,
    reader,       \* where each flow's reader task stands
    writer,       \* where its writer task stands
    wake,         \* the tick at which the writer may write again
    connected, first_recv, last_recv, in_stall, disconnected,  \* ConnState
    bytes_sent, bytes_recv,                                    \* ConnState: some yet?
    connect_failed, midstream_disconnects, stalls,             \* PortRun
    winding_down,
    watchdog,     \* "tick" between passes, "pass" in one, "stopped"
    wd_now,       \* the watchdog's local now, at the last tick it woke
    wd_todo,      \* flows left in this pass
    wd_gap,       \* gap just measured of the flow in wd_flow, or 0
    wd_flow,
    main,         \* run_tcp: "join", "wind", "done"
    pipe,         \* frames written and not yet echoed
    ready,        \* frames echoed and not yet read
    link,         \* "none", "open", "closed" by the far end, "reset"
    relaying,     \* environment: the path is moving data
    garbled,      \* environment: what the reader comes to next is not a frame
    silenced,     \* history: the path was silent for a while
    broke_at,     \* history: tick of the first close, reset or garbage, or Never
    got_at        \* history: ticks at which the reader took frames off the socket

conn == <<connected, first_recv, last_recv, in_stall, disconnected,
          bytes_sent, bytes_recv>>
counters == <<connect_failed, midstream_disconnects, winding_down>>
dog == <<watchdog, wd_now, wd_todo, wd_gap, wd_flow>>
wire == <<pipe, ready, link, relaying, garbled, silenced, broke_at, got_at>>
tasks == <<reader, writer, wake>>
vars == <<now, tasks, conn, counters, stalls, dog, main, wire>>

Horizon == Deadline + Pace + 1   \* bound: time stops and sleeps end here
Never == Horizon + 1

ReaderPCs == {"connect", "stamp", "spawn", "read", "got", "flag", "clear",
              "check", "swap", "count", "join", "end"}
WriterPCs == {"unborn", "loop", "write", "check", "swap", "count", "shutdown", "end"}

Min(S) == CHOOSE m \in S : \A n \in S : m <= n

Init ==
    /\ now = 0
    /\ reader = [c \in Conns |-> "connect"]
    /\ writer = [c \in Conns |-> "unborn"]
    /\ wake = [c \in Conns |-> 0]
    /\ connected = [c \in Conns |-> FALSE]
    /\ first_recv = [c \in Conns |-> FALSE]
    /\ last_recv = [c \in Conns |-> 0]
    /\ in_stall = [c \in Conns |-> FALSE]
    /\ disconnected = [c \in Conns |-> FALSE]
    /\ bytes_sent = [c \in Conns |-> FALSE]
    /\ bytes_recv = [c \in Conns |-> FALSE]
    /\ connect_failed = 0
    /\ midstream_disconnects = 0
    /\ stalls = {}
    /\ winding_down = FALSE
    /\ watchdog = "tick" /\ wd_now = 0 /\ wd_todo = {} /\ wd_gap = 0 /\ wd_flow = 0
    /\ main = "join"
    /\ pipe = [c \in Conns |-> 0]
    /\ ready = [c \in Conns |-> 0]
    /\ link = [c \in Conns |-> "none"]
    /\ relaying = [c \in Conns |-> TRUE]
    /\ garbled = [c \in Conns |-> FALSE]
    /\ silenced = [c \in Conns |-> FALSE]
    /\ broke_at = [c \in Conns |-> Never]
    /\ got_at = [c \in Conns |-> {}]

Reader(c, from, to) == reader[c] = from /\ reader' = [reader EXCEPT ![c] = to]
Writer(c, from, to) == writer[c] = from /\ writer' = [writer EXCEPT ![c] = to]

\* Mutant: no deadline test.
MidStreamAlways == ~winding_down

\* Mutant: off by one.
MidStreamLate == ~winding_down /\ now <= Deadline

\* The test both tasks make before they call an end of stream a disconnect.
MidStream == ~winding_down /\ now < Deadline

-----------------------------------------------------------------------------
(* tcp_flow: connecting.                                                   *)

ConnectFails(c) ==
    /\ "refuse" \in Faults
    /\ Reader(c, "connect", "end")
    /\ connect_failed' = connect_failed + 1
    /\ UNCHANGED <<now, writer, wake, conn, midstream_disconnects, winding_down,
                   stalls, dog, main, wire>>

Connects(c) ==
    /\ Reader(c, "connect", "stamp")
    /\ link' = [link EXCEPT ![c] = "open"]
    /\ connected' = [connected EXCEPT ![c] = TRUE]
    /\ UNCHANGED <<now, writer, wake, first_recv, last_recv, in_stall,
                   disconnected, bytes_sent, bytes_recv, counters, stalls, dog,
                   main, pipe, ready, relaying, garbled, silenced, broke_at,
                   got_at>>

\* last_recv_ms starts at the connect; then the writer is spawned.
StampConnect(c) ==
    /\ Reader(c, "stamp", "spawn")
    /\ last_recv' = [last_recv EXCEPT ![c] = now]
    /\ UNCHANGED <<now, writer, wake, connected, first_recv, in_stall,
                   disconnected, bytes_sent, bytes_recv, counters, stalls, dog,
                   main, wire>>

SpawnWriter(c) ==
    /\ Reader(c, "spawn", "read")
    /\ Writer(c, "unborn", "loop")
    /\ wake' = [wake EXCEPT ![c] = now]
    /\ UNCHANGED <<now, conn, counters, stalls, dog, main, wire>>

-----------------------------------------------------------------------------
(* The writer.                                                             *)

Awake(c) == writer[c] = "loop" /\ now >= wake[c]

\* The loop's condition holds and frame.write is called.
BeginWrite(c) ==
    /\ Awake(c) /\ now < Deadline
    /\ Writer(c, "loop", "write")
    /\ UNCHANGED <<now, reader, wake, conn, counters, stalls, dog, main, wire>>

\* The socket takes the frame, whenever there is room: the write itself knows
\* no deadline.  Once the far end has closed, the frame may be taken and lost.
Write(c) ==
    /\ Writer(c, "write", "loop")
    /\ \/ /\ link[c] = "open" /\ pipe[c] < Window
          /\ pipe' = [pipe EXCEPT ![c] = @ + 1]
       \/ /\ link[c] = "closed"
          /\ UNCHANGED pipe
    /\ bytes_sent' = [bytes_sent EXCEPT ![c] = TRUE]
    /\ wake' = [wake EXCEPT ![c] = Min({now + Pace, Horizon})]
    /\ UNCHANGED <<now, reader, connected, first_recv, last_recv, in_stall,
                   disconnected, bytes_recv, counters, stalls, dog, main,
                   ready, link, relaying, garbled, silenced, broke_at, got_at>>

WriteFails(c) ==
    /\ link[c] \in {"closed", "reset"}
    /\ Writer(c, "write", "check")
    /\ UNCHANGED <<now, reader, wake, conn, counters, stalls, dog, main, wire>>

\* The loop's condition fails and the writer half-closes the stream.
WriterShuts(c) ==
    /\ Awake(c) /\ now >= Deadline
    /\ Writer(c, "loop", "shutdown")
    /\ UNCHANGED <<now, reader, wake, conn, counters, stalls, dog, main, wire>>

WriterCheck(c) ==
    /\ Writer(c, "check", IF MidStream THEN "swap" ELSE "shutdown")
    /\ UNCHANGED <<now, reader, wake, conn, counters, stalls, dog, main, wire>>

\* Mutant: a store in place of the swap.
WriterSwapStore(c) ==
    /\ Writer(c, "swap", "count")
    /\ disconnected' = [disconnected EXCEPT ![c] = TRUE]
    /\ UNCHANGED <<now, reader, wake, connected, first_recv, last_recv, in_stall,
                   bytes_sent, bytes_recv, counters, stalls, dog, main, wire>>

\* swap(true): only the task that finds it false goes on to count.
WriterSwap(c) ==
    /\ Writer(c, "swap", IF disconnected[c] THEN "shutdown" ELSE "count")
    /\ disconnected' = [disconnected EXCEPT ![c] = TRUE]
    /\ UNCHANGED <<now, reader, wake, connected, first_recv, last_recv, in_stall,
                   bytes_sent, bytes_recv, counters, stalls, dog, main, wire>>

WriterCount(c) ==
    /\ Writer(c, "count", "shutdown")
    /\ midstream_disconnects' = midstream_disconnects + 1
    /\ UNCHANGED <<now, reader, wake, conn, connect_failed, winding_down, stalls,
                   dog, main, wire>>

WriterEnds(c) ==
    /\ Writer(c, "shutdown", "end")
    /\ UNCHANGED <<now, reader, wake, conn, counters, stalls, dog, main, wire>>

-----------------------------------------------------------------------------
(* The reader.                                                             *)

\* Mutant: first_recv is stored before last_recv_ms.
ReadFrameFlagsFirst(c) ==
    /\ link[c] # "reset" /\ ready[c] > 0 /\ ~garbled[c]
    /\ Reader(c, "read", "got")
    /\ ready' = [ready EXCEPT ![c] = @ - 1]
    /\ bytes_recv' = [bytes_recv EXCEPT ![c] = TRUE]
    /\ first_recv' = [first_recv EXCEPT ![c] = TRUE]
    /\ got_at' = [got_at EXCEPT ![c] = @ \cup {now}]
    /\ UNCHANGED <<now, writer, wake, connected, last_recv, in_stall,
                   disconnected, bytes_sent, counters, stalls, dog, main,
                   pipe, link, relaying, garbled, silenced, broke_at>>

\* Frame::read returns a frame, and its bytes are counted.
ReadFrame(c) ==
    /\ link[c] # "reset" /\ ready[c] > 0 /\ ~garbled[c]
    /\ Reader(c, "read", "got")
    /\ ready' = [ready EXCEPT ![c] = @ - 1]
    /\ bytes_recv' = [bytes_recv EXCEPT ![c] = TRUE]
    /\ got_at' = [got_at EXCEPT ![c] = @ \cup {now}]
    /\ UNCHANGED <<now, writer, wake, connected, first_recv, last_recv, in_stall,
                   disconnected, bytes_sent, counters, stalls, dog, main,
                   pipe, link, relaying, garbled, silenced, broke_at>>

StampFrame(c) ==
    /\ Reader(c, "got", "flag")
    /\ last_recv' = [last_recv EXCEPT ![c] = now]
    /\ UNCHANGED <<now, writer, wake, connected, first_recv, in_stall,
                   disconnected, bytes_sent, bytes_recv, counters, stalls, dog,
                   main, wire>>

FlagFirst(c) ==
    /\ Reader(c, "flag", "clear")
    /\ first_recv' = [first_recv EXCEPT ![c] = TRUE]
    /\ UNCHANGED <<now, writer, wake, connected, last_recv, in_stall,
                   disconnected, bytes_sent, bytes_recv, counters, stalls, dog,
                   main, wire>>

\* Mutant: a stall, once reported, is never over.
ClearStallNever(c) ==
    /\ Reader(c, "clear", "read")
    /\ UNCHANGED <<now, writer, wake, conn, counters, stalls, dog, main, wire>>

ClearStall(c) ==
    /\ Reader(c, "clear", "read")
    /\ in_stall' = [in_stall EXCEPT ![c] = FALSE]
    /\ UNCHANGED <<now, writer, wake, connected, first_recv, last_recv,
                   disconnected, bytes_sent, bytes_recv, counters, stalls, dog,
                   main, wire>>

\* Mutant: the reader stops at the end of the stream only, and goes on after an error.
ReadEndsAtEofOnly(c) ==
    /\ link[c] = "closed" /\ ready[c] = 0 /\ ~garbled[c]
    /\ Reader(c, "read", "check")
    /\ UNCHANGED <<now, writer, wake, conn, counters, stalls, dog, main, wire>>

\* Ok(None) or Err: the stream ended or broke, in a frame or between two, or
\* Frame::read found no frame (InvalidData) on a connection that is still up.
ReadEnds(c) ==
    /\ \/ link[c] = "reset"
       \/ link[c] = "closed" /\ ready[c] = 0
       \/ garbled[c]
    /\ Reader(c, "read", "check")
    /\ UNCHANGED <<now, writer, wake, conn, counters, stalls, dog, main, wire>>

ReaderCheck(c) ==
    /\ Reader(c, "check", IF MidStream THEN "swap" ELSE "join")
    /\ UNCHANGED <<now, writer, wake, conn, counters, stalls, dog, main, wire>>

ReaderSwap(c) ==
    /\ Reader(c, "swap", IF disconnected[c] THEN "join" ELSE "count")
    /\ disconnected' = [disconnected EXCEPT ![c] = TRUE]
    /\ UNCHANGED <<now, writer, wake, connected, first_recv, last_recv, in_stall,
                   bytes_sent, bytes_recv, counters, stalls, dog, main, wire>>

ReaderCount(c) ==
    /\ Reader(c, "count", "join")
    /\ midstream_disconnects' = midstream_disconnects + 1
    /\ UNCHANGED <<now, writer, wake, conn, connect_failed, winding_down, stalls,
                   dog, main, wire>>

\* writer.await returns.
FlowEnds(c) ==
    /\ writer[c] = "end"
    /\ Reader(c, "join", "end")
    /\ UNCHANGED <<now, writer, wake, conn, counters, stalls, dog, main, wire>>

-----------------------------------------------------------------------------
(* The watchdog.                                                           *)

\* A tick: stop at the deadline, else read the clock and begin a pass.
WatchdogTick ==
    /\ watchdog = "tick" /\ wd_now < now
    /\ wd_now' = now
    /\ IF now >= Deadline \/ winding_down
       THEN watchdog' = "stopped" /\ UNCHANGED wd_todo
       ELSE watchdog' = "pass" /\ wd_todo' = Conns
    /\ UNCHANGED <<now, tasks, conn, counters, stalls, wd_gap, wd_flow, main, wire>>

\* The flow's flags and last_recv_ms are loaded; a gap worth acting on is kept.
WatchdogLoad ==
    /\ watchdog = "pass" /\ wd_todo # {} /\ wd_gap = 0
    /\ LET c == Min(wd_todo)
           gap == IF wd_now > last_recv[c] THEN wd_now - last_recv[c] ELSE 0
       IN  /\ wd_todo' = wd_todo \ {c}
           /\ IF connected[c] /\ ~disconnected[c] /\ first_recv[c] /\ gap > StallTicks
              THEN wd_gap' = gap /\ wd_flow' = c
              ELSE UNCHANGED <<wd_gap, wd_flow>>
    /\ UNCHANGED <<now, tasks, conn, counters, stalls, watchdog, wd_now, main, wire>>

\* in_stall.swap(true), and the event is pushed when it was false.
WatchdogSwap ==
    /\ watchdog = "pass" /\ wd_gap > 0
    /\ in_stall' = [in_stall EXCEPT ![wd_flow] = TRUE]
    /\ stalls' = IF in_stall[wd_flow] THEN stalls
                 ELSE stalls \cup {[conn_id |-> wd_flow, at |-> wd_now, gap |-> wd_gap]}
    /\ wd_gap' = 0 /\ wd_flow' = 0
    /\ UNCHANGED <<now, tasks, connected, first_recv, last_recv, disconnected,
                   bytes_sent, bytes_recv, counters, watchdog, wd_now, wd_todo,
                   main, wire>>

WatchdogSleeps ==
    /\ watchdog = "pass" /\ wd_todo = {} /\ wd_gap = 0
    /\ watchdog' = "tick"
    /\ UNCHANGED <<now, tasks, conn, counters, stalls, wd_now, wd_todo, wd_gap,
                   wd_flow, main, wire>>

-----------------------------------------------------------------------------
(* run_tcp: every flow joined, then winding_down, then the report.         *)

WindDown ==
    /\ main = "join"
    /\ \A c \in Conns : reader[c] = "end"
    /\ main' = "wind"
    /\ winding_down' = TRUE
    /\ UNCHANGED <<now, tasks, conn, connect_failed, midstream_disconnects,
                   stalls, dog, wire>>

\* watchdog.abort() and finalize; an event not pushed by now is not reported.
Finalize ==
    /\ main = "wind"
    /\ main' = "done"
    /\ watchdog' = "stopped"
    /\ UNCHANGED <<now, tasks, conn, counters, stalls, wd_now, wd_todo, wd_gap,
                   wd_flow, wire>>

-----------------------------------------------------------------------------
(* The path and the echo endpoint.                                         *)

\* The forwarder delivers a frame and tcp_echo returns it.
Relay(c) ==
    /\ link[c] = "open" /\ relaying[c]
    /\ pipe[c] > 0 /\ ready[c] < Window
    /\ pipe' = [pipe EXCEPT ![c] = @ - 1]
    /\ ready' = [ready EXCEPT ![c] = @ + 1]
    /\ UNCHANGED <<now, tasks, conn, counters, stalls, dog, main, link,
                   relaying, garbled, silenced, broke_at, got_at>>

\* tcp_echo has echoed everything and reads the client's half-close.
EchoCloses(c) ==
    /\ link[c] = "open" /\ relaying[c]
    /\ writer[c] = "end" /\ pipe[c] = 0
    /\ link' = [link EXCEPT ![c] = "closed"]
    /\ UNCHANGED <<now, tasks, conn, counters, stalls, dog, main, pipe, ready,
                   relaying, garbled, silenced, broke_at, got_at>>

Silence(c) ==
    /\ "silence" \in Faults /\ link[c] = "open" /\ relaying[c]
    /\ relaying' = [relaying EXCEPT ![c] = FALSE]
    /\ silenced' = [silenced EXCEPT ![c] = TRUE]
    /\ UNCHANGED <<now, tasks, conn, counters, stalls, dog, main, pipe, ready,
                   link, garbled, broke_at, got_at>>

Resume(c) ==
    /\ ~relaying[c]
    /\ relaying' = [relaying EXCEPT ![c] = TRUE]
    /\ UNCHANGED <<now, tasks, conn, counters, stalls, dog, main, pipe, ready,
                   link, garbled, silenced, broke_at, got_at>>

\* The far side closes (what it has sent is still read) or resets.
Break(c) ==
    /\ link[c] = "open"
    /\ \/ /\ "close" \in Faults
          /\ link' = [link EXCEPT ![c] = "closed"]
          /\ UNCHANGED ready
       \/ /\ "reset" \in Faults
          /\ link' = [link EXCEPT ![c] = "reset"]
          /\ ready' = [ready EXCEPT ![c] = 0]
    /\ broke_at' = [broke_at EXCEPT ![c] = Min({@, now})]
    /\ UNCHANGED <<now, tasks, conn, counters, stalls, dog, main, pipe,
                   relaying, garbled, silenced, got_at>>

\* The port forwards to something else, or the stream is corrupted: a magic or a
\* length that Frame::read refuses.  The connection itself stays up.
Garble(c) ==
    /\ "garbage" \in Faults /\ link[c] = "open" /\ relaying[c] /\ ~garbled[c]
    /\ garbled' = [garbled EXCEPT ![c] = TRUE]
    /\ broke_at' = [broke_at EXCEPT ![c] = Min({@, now})]
    /\ UNCHANGED <<now, tasks, conn, counters, stalls, dog, main, pipe, ready,
                   link, relaying, silenced, got_at>>

-----------------------------------------------------------------------------
(* Time.                                                                   *)

ReaderBusy(c) ==
    \/ reader[c] \notin {"connect", "read", "join", "end"}
    \/ reader[c] = "read" /\ (ready[c] > 0 \/ garbled[c] \/ link[c] \in {"closed", "reset"})
    \/ reader[c] = "join" /\ writer[c] = "end"

\* A writer that wrote at this very tick, or is blocked, does not hold time up.
WriterBusy(c) ==
    \/ writer[c] \notin {"unborn", "loop", "write", "end"}
    \/ /\ Awake(c) \/ (writer[c] = "write" /\ (pipe[c] < Window \/ link[c] # "open"))
       /\ now > wake[c] - Pace

PathBusy(c) ==
    /\ link[c] = "open" /\ relaying[c]
    /\ (pipe[c] > 0 /\ ready[c] < Window) \/ (writer[c] = "end" /\ pipe[c] = 0)

Quiet ==
    /\ \A c \in Conns : ~ReaderBusy(c) /\ ~WriterBusy(c) /\ ~PathBusy(c)
    /\ watchdog = "stopped" \/ (watchdog = "tick" /\ wd_now = now)

Advance ==
    /\ now < Horizon /\ main = "join" /\ Quiet
    /\ now' = now + 1
    /\ UNCHANGED <<tasks, conn, counters, stalls, dog, main, wire>>

-----------------------------------------------------------------------------
ReaderStep(c) ==
    \/ ConnectFails(c) \/ Connects(c) \/ StampConnect(c) \/ SpawnWriter(c)
    \/ ReadFrame(c) \/ StampFrame(c) \/ FlagFirst(c) \/ ClearStall(c)
    \/ ReadEnds(c) \/ ReaderCheck(c) \/ ReaderSwap(c) \/ ReaderCount(c)
    \/ FlowEnds(c)

WriterStep(c) ==
    \/ BeginWrite(c) \/ Write(c) \/ WriteFails(c) \/ WriterShuts(c)
    \/ WriterCheck(c) \/ WriterSwap(c) \/ WriterCount(c) \/ WriterEnds(c)

WatchdogStep == WatchdogTick \/ WatchdogLoad \/ WatchdogSwap \/ WatchdogSleeps

PathStep(c) ==
    \/ Relay(c) \/ EchoCloses(c)
    \/ Silence(c) \/ Resume(c) \/ Break(c) \/ Garble(c)

Next ==
    \/ \E c \in Conns : ReaderStep(c) \/ WriterStep(c) \/ PathStep(c)
    \/ WatchdogStep \/ WindDown \/ Finalize \/ Advance

Spec == Init /\ [][Next]_vars

\* The runtime runs every runnable task and a connect ends by its timeout; time
\* passes; a path that is relaying relays, and tcp_echo answers.  Nothing makes
\* a silent path resume.
CodeFairness ==
    /\ \A c \in Conns : WF_vars(ReaderStep(c)) /\ WF_vars(WriterStep(c))
    /\ \A c \in Conns : SF_vars(Relay(c)) /\ SF_vars(EchoCloses(c))
    /\ WF_vars(WatchdogStep) /\ WF_vars(WindDown) /\ WF_vars(Finalize)
    /\ SF_vars(Advance)

FairSpec == Spec /\ CodeFairness

-----------------------------------------------------------------------------
(* Properties.                                                             *)

\* "Count each broken flow once (reader + writer race to notice)"
\* (client.rs:214): however the two tasks of every flow interleave, the counter
\* is the number of flows marked disconnected, less those whose marking task
\* has still to add one.
DisconnectsConserved ==
    midstream_disconnects
      + Cardinality({c \in Conns : reader[c] = "count"})
      + Cardinality({c \in Conns : writer[c] = "count"})
    = Cardinality({c \in Conns : disconnected[c]})

\* Every flow of run.conns is in the report once: still connecting, failed or
\* connected.
FlowsConserved ==
    connect_failed + Cardinality({c \in Conns : connected[c]})
      + Cardinality({c \in Conns : reader[c] = "connect"})
    = Cardinality(Conns)

\* The finished report counts exactly the flows whose path closed, reset or
\* brought something else than frames before the deadline: no break goes unseen,
\* and the half-closes that the writers make at the deadline are never taken for
\* one.
BreaksReported ==
    main = "done" =>
        /\ \A c \in Conns : disconnected[c] <=> broke_at[c] < Deadline
        /\ midstream_disconnects
             = Cardinality({c \in Conns : broke_at[c] < Deadline})

\* The watchdog reads last_recv_ms while the reader writes it: a reported gap is
\* nevertheless longer than the threshold, begins at a tick at which a frame came
\* back, has none in it, and ends no later than the flow itself.
StallsReal ==
    \A e \in stalls :
        /\ e.gap > StallTicks
        /\ e.at - e.gap \in got_at[e.conn_id]
        /\ \A t \in got_at[e.conn_id] : t <= e.at - e.gap \/ t >= e.at
        /\ e.at <= broke_at[e.conn_id]

\* An active flow whose last frame is overdue.
Overdue(c) ==
    /\ connected[c] /\ ~disconnected[c] /\ first_recv[c]
    /\ wd_now > last_recv[c] + StallTicks

PassOver == watchdog = "tick" \/ (watchdog = "pass" /\ wd_todo = {} /\ wd_gap = 0)

\* "... a watchdog flags any gap in the returning stream as a stall"
\* (protocol.rs:8-9): whenever it has finished a pass, every flow that is overdue
\* has a report that is not older than its last frame, so that no report of an
\* earlier stall stands in for this one.  The tick of that frame counts: when the
\* frame that ends a stall crosses the pass that reports it, the swap raises
\* in_stall again after the reader has cleared it, and the next stall has none.
StalledFlowsReported ==
    PassOver => \A c \in Conns : Overdue(c) =>
        \E e \in stalls : e.conn_id = c /\ e.at >= last_recv[c]

Clean(c) == ~silenced[c] /\ broke_at[c] = Never

\* The longest silence of a path left alone: a writer that does not sleep writes
\* at every tick.
Pause == IF Pace = 0 THEN 1 ELSE Pace

\* "A healthy direct path must show all connections up, bytes flowing both
\* ways, and zero stalls / disconnects" (client.rs:537-538): a flow whose path
\* was never tampered with is never taken for broken, nor blamed for a silence
\* longer than its own writer's sleep, which a pace beyond the threshold does
\* make a stall; and when the run is over whatever it sent has come back.
CleanPathIsClean ==
    \A c \in Conns : Clean(c) =>
        /\ ~disconnected[c]
        /\ \A e \in stalls : e.conn_id = c => e.gap <= Pause
        /\ main = "done" => /\ pipe[c] = 0 /\ ready[c] = 0
                            /\ bytes_sent[c] = bytes_recv[c]

\* The reader has left at bytes that are no frame, the echo goes on until both
\* directions are full, and the write that follows has no deadline.
Stuck(c) ==
    /\ garbled[c] /\ link[c] = "open"
    /\ writer[c] = "write" /\ pipe[c] = Window /\ ready[c] = Window

\* Unless a path falls silent for ever, the run comes to its report: reader,
\* writer, echo and path wait on one another for good in one way only, the
\* write of a flow whose reader has bailed out.
RunEnds ==
    (\A c \in Conns : []<>relaying[c]) =>
        <>(main = "done") \/ \E c \in Conns : <>[]Stuck(c)

\* "Flows that connected but received zero echoed bytes for the whole test
\* ... upstream that accepts then never relays back" (client.rs:49-51) are to be
\* reported, so the run must come to its report on every path.
RunAlwaysEnds == <>(main = "done")
=============================================================================
