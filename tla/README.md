# Verification of NPT

NPT is a stress tester for network proxies: a client that simulates users, a
server that answers them, and `npt-ci`, a probe that watches forwarded ports for
stalls and disconnects.  This directory holds TLA+ models of its concurrent
parts, the TLC runs that check them on small instances, and TLAPS proofs of what
holds on every instance.  Line numbers refer to the sources in this repository.

## Inventory

| Component | State it keeps | Operations | Talks to |
|---|---|---|---|
| Server pool (`client/src/server_pool.rs`) | per server: healthy flag, two streak counters, `active_connections`; a round-robin ticket | `get_server` by four strategies, `mark_connection_start/end/failed/success`, the health checker and its probe tasks | called by every user task; probes dial the servers |
| TCP client (`client/src/tcp_client.rs`) | the activity's socket, bytes moved | connect with failover, page, download, upload, 30 s timeout on each read | pool, metrics, TCP server |
| QUIC client (`client/src/quic_client.rs`) | the session's connection | connect, requests on streams, early returns | pool, metrics, QUIC server |
| User simulation (`client/src/simulator.rs`) | a semaphore, one `stoped` flag per user | think time, choice of activity, stop when the session's time is over | the two clients |
| TCP server (`server/src/tcp_server.rs`) | one record per connection | receive loop, download, upload loop | TCP client, metrics |
| QUIC server (`server/src/quic_server.rs`) | `active_sessions` by remote address | connection handler, stream tasks, cleanup every 30 s | QUIC client, metrics |
| Metrics (`shared/src/metrics.rs`) | a record per connection, histories | start, end, counters, samples | everything |
| CI probe (`ci/src/client.rs`) | per flow atomics (`ConnState`), per run counters (`PortRun`) | reader, writer, watchdog, TCP and UDP runs, report | the forwarded port |
| Echo endpoint (`ci/src/server.rs`) | none | echo bytes and datagrams | CI probe |
| CI suite (`ci/src/main.rs`, `detect.rs`, `report.rs`, `panel.rs`, `archive.rs`) | outcomes per port | resolve ports, run, evaluate, archive, exit code | CI probe, the panel's HTTP API |
| Log buffer (`shared/src/log_buffer.rs`) | a bounded deque and a channel to a file | add, read, clear | tracing, TUIs |
| Screens (`client/src/tui.rs`, `server/src/tui.rs`) | histories for the charts, a cache of them, scroll position | poll a key, refresh, draw | log buffer, metrics, the entry points |
| Entry points (`client/src/main.rs`, `server/src/main.rs`) | the program's tasks | start the tasks, wait for the first to end, report | everything |
| Reports (`shared/src/report.rs`) | none | percentiles, bands, export | metrics |

What is hard in each, and what makes it correct:

* **Server pool.** `get_server` chooses from a copied list, so each outcome is
  marked long after the state it was decided on; user tasks and probe tasks write
  the same entry, with the same rule written out twice.  Correct: flag and
  counters always agree, a server that works comes back, one that does not
  leaves, and the connection counter is the connections held, on every error path.
* **CI probe.** Reader, writer and watchdog share atomics without a lock.  Correct:
  a reported stall is a stall, an overdue flow is reported, every flow and every
  break is counted once, a clean path is not blamed, the run ends.
* **QUIC sessions.** Sessions are removed by address, by two kinds of task, and a
  stream books in two locked blocks with a write between them.  Correct: no
  session outlives its handler, and records and sessions agree.
* **TCP exchange.** Two loops count one file each for themselves; the stop flag and
  the path's faults cut in anywhere; reads have timeouts and writes have none.
  Correct: files are moved whole, clean paths produce no errors, packet counts
  agree, both ends finish.
* **A client run: users, metrics, report.** Records are summed by iterating a map
  that users write to; the sampler is aborted and not awaited; users notice the end
  of their time only between activities.  Correct: samples lose and repeat no byte,
  error counts only grow, the count of users is exact, the report of a finished run
  adds up, every run ends.
* **CI suite.** Early returns, best-effort steps and switches between a port and its
  outcome.  Correct: every leg is reported once, with the verdict the documentation
  gives it; the exit code says so; one missing artifact costs no other.
* **UDP flows.**  Datagrams are lost, duplicated and delayed; an echo can be counted
  before its datagram; a receive error ends the reader alone; flows start late.
  Correct: nothing is counted twice or forgotten, a stall has a cause, a clean flow is
  not blamed, and the run ends.
* **QUIC session.**  Requests of a page run side by side under three timeouts, one of
  which covers all of them.  Correct: requests, replies, latencies and losses account
  for each other, no success is invented, the session closes.
* **Log buffer and screens.**  An entry reaches the file and the buffer in two steps;
  the log grows between a key and the drawing; the charts are drawn from a cache; the
  server's screen blocks the `select!` it is a branch of.  Correct: buffer and file
  stay in step, a key shows, the cache is fresh, leaving the screen ends the program.

`PROJECT.json` lists the hazards one by one, at their lines, with the properties
that cover them.

## Modules

| Module | What it is |
|---|---|
| `ServerPool` | the pool, the users' sessions that drive it, the health checker |
| `HealthLatch` | the abstract promise about health: leave at the N-th bad outcome in a row, come back at the M-th good one, and only then |
| `RoundRobin` | `ServerPool` with a history of the picks made |
| `ProbeRun` | one TCP run of the CI probe |
| `QuicSessions` | the QUIC server's session table with its records |
| `TcpExchange` | one activity of the client against `handle_connection` |
| `ClientRun` | a run of the client: simulated users, metrics collector, sampler, report |
| `UdpProbe` | one UDP run of the CI probe |
| `QuicPages` | a connected QUIC browsing session: pages, requests, timeouts, counts |
| `Report` | the percentiles of the reports, and what they are checked against |
| `LogBuffer` | `add_entry` by concurrent threads, the buffer, the file's task |
| `Screen` | `LogBuffer` composed with either screen, the sampler and either `main` |
| `CiSuite` | `npt-ci run`: ports, legs, verdicts, archive, exit code |
| `MC...` | instances for TLC |
| `...Proofs` | theorems about the module named; `ServerPoolProofs` also about `RoundRobin`, `QuicPagesProofs` about `Report`, `ProgramProofs` about `CiSuite` and `ClientRun` |

A state variable has the name of the field or local it stands for; program
counters (`pc`, `handler`, `reader`, `client`, ...) name the place in the async
function.  A step ends where another task can see or do something: at an await,
at a lock's release, and in `ProbeRun` at each load and store of an atomic.
Relaxed atomics are taken in program order.  Operators whose comment starts with
*Mutant* are wrong versions of the definition that follows them, kept to show
that the property they are listed with in `PROJECT.json` would notice.

**ServerPool.**  `Begin .. EndMetrics` are a user's session: `Snapshot` and `Pick`
are the two halves of `get_server`; `Dial` is the connect, `MarkSuccess` and
`MarkFailed` its outcome, `Retry` the loop of `connect_with_failover` with its
three attempts; `Exchanged` and `ExchangeFailed` stand for everything the session
does on an open connection; `MarkEnd` and `EndMetrics` close the two books.  QUIC
sessions have their own order of calls and their own early returns (`QuicFailed`).
`Failure` and `Success` are the rule about health in `mark_connection_failed` and
`mark_connection_success`, `ProbeErr` and `ProbeOk` its copy in the probe's `match`,
written separately so that the two may differ.
`Tick`, `Probe` and `ApplyProbe` are the health checker.  `lost` is a history
variable: sessions that returned between `mark_connection_start` and
`mark_connection_end`.

**ProbeRun.**  `Connects .. FlowEnds` are the reader (`tcp_flow`), `BeginWrite ..
WriterEnds` the writer it spawns, `WatchdogTick .. WatchdogSleeps` the watchdog,
`WindDown` and `Finalize` the end of `run_tcp`.  Time is in ticks of the watchdog
and advances only when no task has anything left to do at the present tick
(`Quiet`): tasks run promptly compared with the watchdog's 250 ms (`client.rs:405`).  A
path may fall silent and resume, be closed or be reset at any time, and bring bytes that
are no frame (`Garble`): `Frame::read` then fails with `InvalidData`, and the reader
leaves, although the link is open and nobody drains it any more.

**QuicSessions.**  One action per block under the map's lock.  The remote address
of each connection is chosen at the start and fixed, so the runs cover
connections that share an address and connections that do not.

**TcpExchange.**  A message is a type and, for a chunk, a size in units.  Each
direction holds `Window` messages.  A socket is `open`, `fin` after its end was
dropped with nothing unread, `rst` otherwise; a write to an end that has gone is
answered with a reset.  A read times out only while the path is silent.

**ClientRun.**  `Begin .. Leave` are `simulate_user_behavior` with its timer
(`StopFires`); `Transfer .. ActivityOver` are what an activity does to its records.
`SamplerTick`, `Meet`, `Commit`, `Skip` and `CommitErrors` are one pass of
`metrics_task`: `Meet` is one step of the map's iterator, and a record inserted
during the iteration may or may not be met.  `Stop` is main's `select!` followed by
`abort()`, which a sampler in the middle of a pass does not notice;
`CopyRecords .. CopyErrors` are `generate_test_report`.  `floor` and `natural` are
history variables.  Time is in seconds; tasks with something to do run within one.

**UdpProbe.**  `BindFails .. FlowEnds` are `udp_flow`, `Receive .. ReadTimesOut` the
reader it spawns with its one-second timeout, the watchdog is that of `ProbeRun`, and
`WindDown` and `Finalize` are the end of `run_udp`.  The path's queues are counts of
datagrams: `transit` on the way, `inbox` at the socket.  The path delivers (`Arrive`), loses,
duplicates, holds back and resumes, and answers with an ICMP error (`Reject`); a
datagram that is no frame is `ReceiveStray`.
`lost`, `copied`, `died`, `faults` and `arrived` are history variables.

**QuicPages.**  `BeginPage .. Close` are the session's loop and `browse_page`;
`SendRequest`, `SendFails`, `ReadFails` and `ReadSucceeds` are a request.  `Advance`
lets a tick pass when no request's timeout is due.  `Percentile`, `LatencyBand` and
`RttSummary` of `Report` are evaluated on the latencies the session leaves; `Faithful`
says what a percentile is without computing one.

**LogBuffer and Screen.**  `SendToFile` and `PushBack` are the halves of
`add_entry`; `OpenFile`, `OpenFails` and `WriteEntry` the file's task.  In `Screen`
the keys, `UpdateMetrics` and `Render` are the loop of either `tui.rs`, with the
conditions in which they differ under `kind`; `LeaveSelect`, `Report` and `Exit` the
end of either `main`.  `sent` and `pushed` are history variables.

**CiSuite.**  One action per step of `test_one_port` and `archive_failure` that can
go one way or another.  `Probe` returns any metrics a finished run can have
(`PossibleMetrics`); `Evaluate` is `evaluate`, and `Broken` the list of failures in
`ci/README.md` against which it is checked.  `answers`, `broken` and `refused` are
history variables.

## Runs

| Run | Instance | Shows |
|---|---|---|
| `pool_users` | 3 servers, 2 users, TCP and QUIC, one session each with up to three attempts | `ConnectionsConserved`, `MetricsConserved`, `FairRotation` |
| `pool_health` | 2 servers, 1 user, TCP and QUIC, default thresholds 3 and 2, health checker on, least connections | `FlagMatchesCounters`, `LatchSpec` (refinement of `HealthLatch`), `HealthSettles` (a server that works comes back, one that does not leaves) |
| `probe_flow` | 1 flow, 6 ticks, stall after 1, a frame every 2, window 1, all faults | `StallsReal`, `StalledFlowsReported`, `CleanPathIsClean`, `DisconnectsConserved`, `BreaksReported`, `RunEnds` |
| `udp_probe` | 2 flows, the second of which starts at the deadline, 2 faults of any kind to each | `ReceiptsConserved`, `StallsExplained`, `CleanFlowsClean`, `RunEnds` |
| `quic_sessions` | 2 connections from 1 or 2 addresses, 1 stream each | `NoOrphanSession`, `RecordsMatchSessions`, `RepliesFollowRequests`, `InactiveLeave` |
| `quic_pages` | 2 pages of no or 3 resources, 2 at a time, timeout 2 | `RequestsAccount`, `SummaryHonest`, `PercentilesFaithful`, `SessionEnds` |
| `tcp_exchange` | files of 6 units, chunks up to 3, pages of up to 3 requests, window 3 | `WholeFile`, `CleanExchange`, `PacketsAgree`, `BothEnd` |
| `client_run` | 1 user, 1 second, up to 2 records, TCP and QUIC, think times 0 and 1 | `SamplesAccount`, `ActiveUsersExact`, `ReportAdds`, `RunEnds` |
| `log_screen` | 2 threads, 3 entries, buffer 2, window 1, history 1, 1 sample, client and server | `BufferFollowsFile`, `KeysShow`, `CacheFresh`, `ProgramSettles` |
| `ci_suite` | port lists `<1>`, `<1,2>`, `<1,1>`; 2 flows; protocol "both"; three settings of the switches; 1 failure while archiving | `EveryLegReported`, `VerdictsTrue`, `ExitCodeHonest`, `FailuresArchived` |

`SamplesAccount`, `HealthSettles`, `BothEnd` and `ProgramSettles` are conjunctions of
parts with names and comments of their own.  Each module has its type invariant; the
runs check the properties that say more, and where a proof needs the types it proves
them.

Two runs show where the code does not do what its documentation says; each checks
one property and TLC finds the counterexample:

* `pool_leak` (`PicksLeastHeld`): an exchange that fails leaves
  `active_connections` raised for good, and least connections avoids a server
  that holds nothing.
* `probe_hang` (`RunAlwaysEnds`): a TCP reader on a silent path has no deadline, and
  the run never reports.

Seen while modelling, and not given a run:

* Pool.  With one server there is no health checker (`server_pool.rs:83`), so a server
  that reached the failure threshold never returns.  Round robin follows the hash map's
  order, on which the assertion in `server_pool.rs:306-309` cannot rely.
* TCP probe.  The reader's `in_stall = false` and the watchdog's swap can cross, and the
  flow's next stall is swallowed: `StalledFlowsReported` wants a report no older than the
  flow's last frame, which leaves this one case, in which the earlier report was made at
  the very tick of that frame.  With a send rate so low that frames are further apart than
  `stall_secs` a clean path is reported as stalled; `CleanPathIsClean` then says that it is
  for its own writer's sleep and for nothing longer.  The reader bails out at a bad frame
  "instead of hanging on garbage" (`protocol.rs:17-18`), but the run need not: the writer
  goes on, nobody drains the echo, and once both directions are full its write
  (`client.rs:212`) waits for ever, and with it the flow (267) and the run.  `RunEnds`
  names this state (`Stuck`) as the only way in which a run on relaying paths does not end.
* UDP probe.  With an interval of a second or more the reader may be gone before the
  last echo; a flow whose stagger reaches the deadline sends nothing and is reported
  as one without return traffic; an ICMP error ends the reader, and the writer that
  goes on makes it look like a stall; a path that delivers for ever keeps the reader.
  The three properties of `UdpProbe` name these cases as their exceptions.
* QUIC client.  A resource that fails leaves no error in the metrics, and one that
  fails takes all the resources of its page out of the session's count; the 30 seconds
  for all resources (`quic_client.rs:301`) can cut off later ones.  A session that
  finds no server or does not connect leaves its record without an end
  (`quic_client.rs:125, 161, 174`), which `MetricsConserved` allows and the screen
  counts as active.
* QUIC server.  A connection from an address still in the table takes over its entry,
  and the earlier record stays active; cleanup removes the addresses it found inactive
  without looking again (`quic_server.rs:281`), so that an active connection can lose its
  session and have its record ended, and a stream at a shared address books its reply on
  the other connection's record.  `RecordsMatchSessions` says of every connection that a
  session in the table has an active record, and only of those with an address of their
  own that an active record has its session.
* TCP exchange.  The server's `send_message` has no timeout, so a path that stops
  reading and stays so keeps a download's handler for ever, which is why `BothEnd` has
  its premise; web browsing does not look at the stop flag between pages.
* Metrics and report.  The average throughput divides all bytes by the length of the
  longest connection in whole seconds; the peak throughput and the error distribution
  leave QUIC out; the sampler computes QUIC's average latency and leaves it out of the
  sample; a chart's count of connections is the present one, repeated.
* Log and screens.  `Down` leaves ten entries where the window shows eight, so the two
  oldest can never be seen; entries still in the channel when `main` returns are not
  written; the server's `select!` sees neither a signal nor a dead server while its
  screen runs, and the client's process stays until its screen is left by a key.
* Suite.  `--ports` drops ids that do not parse without a word; a port that does not
  resolve has no artifact directory; a port listed twice has one directory for both.

### Bounds

Counters stop at `CounterCap`, which is at least both thresholds: only "at least
the threshold" is ever asked of them.  Two users suffice for every race on a
server's entry, since each step touches one entry under its lock; three servers
are the fewest on which a rotation can lose one and go on rotating.  A user's one
session has up to three connect attempts, so up to six tickets interleave.
`MaxProbes = 1` probe of a server is in flight: the interval is longer than the
probe's timeout in the default configuration.  Six ticks hold two complete stall episodes of
a flow with `StallTicks = 1`, and `Pace = 2` is a pace beyond the threshold; `Horizon`
ends time after the last writer's sleep.
Reader and writer of one flow race with each other only, so one flow shows every
race, and the theorems on the shared counters hold for any number.  Ages of
QUIC sessions stop just above the threshold.  Two streams at one entry meet when
both connections share an address.  A file of 6 units in chunks of 1 to 3 takes
between two and six chunks, and a window of 3 is full in the middle of it.
A user writes only to its own records, so one user, its timer, the sampler and main
have every race but that on the count of users, which a theorem settles; two
records suffice for one to be met before and one after a write.  A test of 1 second
has sessions of 0 and 1 seconds and three ticks of the sampler.  Two flows give the
ratios 0, 1/2 and 1, on both sides of and equal to the limits 0, 10 and 50 percent;
one refused artifact can be the directory, a snapshot or a ZIP of either leg.
Two UDP flows are one that runs its time and one that starts as it ends; two faults
each let one fault hide another.  A page of three resources, two at a time, has a
second wave; a timeout of two ticks lets an answer come before, at and after another's
timeout.  Three entries overflow a buffer of two, and two threads can cross between
file and buffer; a window of one line scrolls through both.  The code's window
of 8 lines and the 10 entries that `Down` leaves are both 1 here; `KeysAlwaysShow` covers
every pair in which the window is no larger.
`CHECK_DEADLOCK FALSE` is set everywhere because all systems end: the users'
sessions, the run, the connections and the activity are finite.

### Fairness

* `ServerPool.FairSpec`: the checker's interval fires again, a probe ends by its
  own timeout, and a task that holds an outcome applies it.  Nothing is assumed
  of users or of servers.
* `ProbeRun.FairSpec`: tokio runs every runnable task, a connect ends by its
  timeout, time passes, and a path that is relaying again and again relays; that a
  path is not silent for ever is the premise of `RunEnds`, not an assumption.
  Liveness is checked with a pace of at least a tick: a writer that never sleeps would let
  the model's time stand still.  What is proved holds of any pace.
* `QuicSessions.FairSpec`: the cleanup task's interval ticks for ever.
* `TcpExchange.FairSpec`: both tasks run, reads end by their timeouts, and TCP
  repeats a write until the reset of a client that has gone gets through.  Again
  the path's behaviour is the premise of the server's half of `BothEnd`.
* `ClientRun.FairSpec`: the runtime runs every runnable task, timers fire, activities
  end (`ClientEnds`) and time passes; nobody need press Ctrl-C, so `Interrupted` has
  no fairness.
* `UdpProbe.FairSpec`: tasks run, timers fire and time passes, and what a relaying path
  holds arrives or is lost.  Nothing makes a path that holds back relay again.
* `QuicPages.FairSpec`: the session's task runs and time passes; no answer need come.
* `Screen.FairSpec`: the screen's loop, the file's task and main are run; no key, sample,
  entry or signal need ever come.
* `CiSuite` is sequential and has safety properties only.

## Proofs

Every safety property that a run checks is a theorem here, about the specification
without fairness (`Spec`, `HSpec` of `RoundRobin`, `SuiteSpec` of `CiSuite`) and for
every value of the constants that satisfies the modules' assumptions (finite sets,
positive thresholds within the cap, a positive window).  Two theorems have a premise
of their own about the constants, given below: `RotationAlwaysFair` and
`PacedPathsHaveNoStall`.

* `ServerPoolProofs`
  * `TypeCorrect`.  `TypeOK` is not inductive: that `target` is a server when an
    outcome is marked and that a retry is left when a user backs off are added
    (`TargetKnown`, `RetriesLeft`; together `Typed`).
  * `FlagAlwaysMatches`.  `FlagMatchesCounters` with `Typed` is inductive; every
    action either leaves the health alone or is one `Failure` or `Success`
    (`HealthSteps`), the probe's copy of the rule included (`CopiesAgree`).
  * `PoolImplementsLatch`.  `streak` maps to successes minus failures; because one
    of the two is always 0, a failure maps to `Bad` and a success to `Good`.
  * `ConnectionsAlwaysConserved`.  The set of holders of a server changes by at most
    one user in a step, and its cardinality with it.
  * `MetricsAlwaysConserved`.  A user between sessions has no kind, and one that
    dials is a QUIC user (`KindKnown`): the users of a kind change by one in a step,
    and the kind's open records with them, or, for QUIC, without them.
  * `RotationAlwaysFair`, of `RoundRobin` and for `Strategy = "RoundRobin"`.
    `FairRotation` speaks of the picks alone and is not inductive; `Rotation` adds what
    the code computes: the ticket counter is the number of picks, and the k-th pick is
    the server at position (k - 1) mod n of the list it was made from (`Dealt`). Two
    tickets less than n apart have different positions (`TicketsApart`), and a position
    holds one server of a list (`PositionsApart`).
* `TcpExchangeProofs`
  * `FilesAlwaysWhole`. `Phase` says, for each place of the client that has a file on
    its way, what is between the two ends: a request, its chunks and what is still due
    (`Sums`: what the client has and every chunk under way add up to the file less what
    is due), one chunk of an upload or its acknowledgement, or nothing any more. The
    server and the path keep each of them (`FarPhase`), and the client goes from one to
    the next (`NearPhase`); the file is whole when it stops waiting.
  * `ExchangesAlwaysClean` and `PacketsAlwaysAgree`. Both rest on `Clear`, which holds
    until the first fault: the sockets are what the two ends' places say (`Sockets`);
    for each place of the client, which single message is under way and which places of
    the server fit it (`Course`), so that nobody ever meets a message it does not
    expect; and what one end has received and what is under way is what the other has
    sent (`Counted`). `CleanExchange` alone says nothing of the server's place and is
    not inductive. For paths with faults `PacketsAlwaysAgree` rests on `Booked`: what an
    end has received and what is on its way to it never exceed what the other has sent.
* `ProbeRunProofs`
  * `DisconnectsAlwaysConserved` and `FlowsAlwaysConserved`. The invariant `Inv` adds
    that a connecting flow is not connected yet and the types of the program counters;
    each step moves at most one flow between the counted sets.
  * `StallsAlwaysReal`, `StalledFlowsAlwaysReported` and `BreaksAlwaysReported`, from
    `Whole`. `Stamped` relates a flow's last time of receipt to the frames it got while
    the reader is between the two; `Pass` says that the gap the watchdog holds in its
    hand is still one (`Gap`), although frames may come meanwhile: they bear the present
    tick, at which it ends. `Alarm` says that a flow whose stall flag is set, or which
    the pass under way has examined and found overdue, has been reported; `Ended` which
    places of reader and writer a socket that is open, closed or reset allows, and that
    a flow that broke before the deadline, by an end, a reset or a bad frame, has been marked
    or is at a step that marks it within the tick; of several breaks of a flow the first
    counts (`FirstBreak`).
  * `CleanPathsStayClean`, from `Whole` and `Fair`. On an untampered flow nothing is lost
    (`Echoed`), and the last frame is at most one pace old while the run lasts (`Paced`),
    so that the watchdog can blame it for no longer gap (`Blamed`). From the same
    invariants `PacedPathsHaveNoStall`: if frames are no further apart than the threshold
    (`Pace <= StallTicks`, `StallTicks > 0`), as with the defaults, which do not limit the
    rate, such a flow is given no stall at all.
* `UdpProbeProofs`
  * `ReceiptsAlwaysConserved`. The equation is inductive with the types of its counters
    and of the flows' program counters.
  * `StallsAlwaysExplained`, from `Whole`: a flow's writer and reader are at places that
    fit each other (`Paired`) and at times that fit the schedule (`Timely`), the last
    time of receipt is the newest arrival that has been read (`Stamped`), and what the
    watchdog measures in a pass is explained before it is reported (`Barks`).
  * `CleanFlowsAlwaysClean`, with the premise that the property itself states (`Interval
    < Second`, `Interval <= StallTicks`). `Clean` says that a flow without faults has
    heard an echo within its interval or has one coming (`Smooth`), so that its reader
    outlives its last datagram, and that the watchdog has blamed only flows with faults
    (`Unblamed`).
* `QuicSessionsProofs`: `SessionsTypeCorrect`; `SessionsNeverOrphaned`, from the types
  alone; `RecordsAlwaysMatch`, which needs `Fresh`: a session is not in cleanup's list
  between its insert and its record; and `RepliesAlwaysFollow`, whose invariant counts
  the streams between their two locked blocks: they are the requests not yet replied to,
  and their number is what `received` is ahead by at least.
* `QuicPagesProofs`
  * `RequestsAlwaysAccount`. The invariant adds that requests in flight are no older
    than their timeout and are among those begun; the sets of requests in a state change
    by one element, or are emptied by a timeout.
  * `SummaryAlwaysHonest`, from `Credit`: answers of the page under way are not counted
    yet (`Uncredited`), every page that has ended counted its main request or left an
    error, and as long as nothing failed each answer that came is counted or belongs to
    the page under way. What the session counts is known only at a page's end, so the
    property says nothing in the middle of one and is not inductive.
  * `PercentilesAlwaysFaithful`, for every list of latencies. Every place of a list has
    a value that it takes when the list is sorted (`PlaceTaken`: the least that enough
    values do not exceed), these values ascend, and the k-th bounds from below and above
    how many of the list lie on either side of a figure (`Ranks`). An interpolated
    figure lies between its two neighbours (`Between`, `PercentilesAscend`); the rest is
    arithmetic of the ranks. `Sorted` is defined by the k-th smallest value instead of
    TLC's `SortSeq`, of which the provers know no definition; the two agree on all lists
    of up to six of four values.
* `ScreenProofs`. `BufferAlwaysFollowsFile`: the entries in one history and not in the
  other are those of the threads between their two halves (`Histories`), one for each,
  so that the entries one overtakes map one-to-one to the other threads.
  `KeysAlwaysShow` needs `ScrollInLog`: the scroll position never exceeds what the log
  allowed when the key was read, and the log does not shrink. `CacheAlwaysFresh`: a
  refresh changes a history only if there is a sample of it.
* `ProgramProofs`, about `CiSuite` and `ClientRun`, which share nothing.
  * `EveryLegAlwaysReported`. The property is about the end of a run; what holds all
    along is `Agenda`: what has been reported, followed by the legs still to drive, is
    the plan that the answers so far make. An answer adds a list to the plan
    (`PlanGrows`), an outcome moves the head of the legs to the end of the report
    (`HeadMoves`). That `FlattenSeq` of a longer list of lists appends the last one
    (`FlattenAppend`) is proved from its recursive function, whose existence and
    uniqueness follow from the least place where they could fail (`JoinsExist`,
    `JoinsAgree`).
  * `VerdictsAlwaysTrue`. `EvaluateBroken`: the reasons that `evaluate` collects are
    none exactly if the path is not broken in the documentation's words. `Accused` says
    that the verdict under way is the history's, and `Unreported` that no leg is driven
    twice, so that a later leg cannot change what an outcome is compared with.
  * `ExitCodeAlwaysHonest`. Every position has an outcome or a leg under way, and those
    that did not resolve have a failed one without a leg (`Answered`); the code was
    computed from the outcomes as they are (`Coded`).
  * `FailuresAlwaysArchived`. `Stored` says at each stage of the archive what is in the
    directory or refused: all that was wanted but what is still to do. Directories and
    refusals only grow (`Grows`), also when two legs share a directory.
  * `ActiveUsersAlwaysExact`. The users in session are a finite set that gains one in
    `Begin` and loses one in `Leave`; the invariant adds the type of the users' program
    counters. That the set is not empty in `Leave` shows that the guard against zero in
    `decrement_active_users` never bites.
  * `SamplesAlwaysAccount`. Whatever users do, records are made and never lost, and what
    they count never falls (`Grown`). `Sampled` adds to the property what holds in the
    middle of a pass: the sum so far is at most what the records met hold by now, and
    with what the others hold it is at least the traffic at the pass's start, which is
    at least the total last remembered. The sums are the library's `SumFunctionOnSet`:
    that its order does not matter and that it grows with its values and its set
    (`SumWithout`, `SumGrows`) is proved from its recursive function, by a least set
    that would be an exception (`LeastSet`).
  * `ReportAlwaysAdds`. `Copied` says at each of main's stages what of the report has
    been copied. Whatever ended the run, users and sampler may still move, and traffic
    only grows, so that a copy stays below it; once the simulation has ended by itself no
    user writes any more, and the copies are those of one moment.

Every one of these inductive invariants was first checked by TLC, as an invariant of the
runs named above, and of further instances where those are small in one constant.

Checked by TLC only is everything under fairness (`HealthSettles`, the three
`RunEnds`, `InactiveLeave`, `BothEnd`, `SessionEnds`, `ProgramSettles`), which is beyond
TLAPS, and the two runs that end in a violation.

## Not modelled

Widgets and their layout, argument parsing, JSON, CSV and HTML, and the parsing of the
panel's answers are I/O and layout; that is most of the lines of the two `tui.rs`, of
`report.rs`, of `panel.rs` and of the configuration.  Serialization, tokio, quinn and
DashMap are taken to do what they document.  `last_used`, `total_connections` and
message bodies are left out because nothing that is modelled depends on them, and so
are the latency samples of the screens, which are averages of each record's own list,
and the rates of the reports, which are quotients of sums that are modelled.  That the
histories of `metrics.rs:264` grow without a limit is plain from the code, and no
property: a test's duration bounds them.

Coarser than the code are these steps.  `Snapshot` reads the healthy flags and
`LeastConnections` the counters at once, where the code goes from one entry of the map to
the next (`server_pool.rs:91-96, 125-130`); every property of the pool but the fairness of
rotation holds whatever list a pick is made from.  `Commit` adds differences where the
code pushes rates, which are those divided by the time and cut to whole numbers
(`metrics.rs:257-262`).  `Fetch` takes a ZIP's list of collectors, its export and its
write, any of which may fail, as one step with one refusal (`archive.rs:41-72`), and the
limit on failed connects is a whole percentage instead of an `f64`.

Where a hazard of `PROJECT.json` has a note, its property leaves out a part: the leaks of
`active_connections` and of QUIC records, which the code has, and what happens at an
address that several connections share.

## Plan

Done: every component's control is modelled.  Left, in this order:

1. `ProbeRun` composed with `CiSuite`: every report of a run is among
   `PossibleMetrics`, and the verdict is the right one for what the path did.
2. `QuicPages` composed with `QuicSessions`: what the client counts as lost and what
   the server has booked.
3. Theorems about the two compositions, from the invariants of their parts.
