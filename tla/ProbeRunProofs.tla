--------------------------- MODULE ProbeRunProofs ---------------------------
(***************************************************************************)
(* The probe's counters, its stall reports and its account of broken and   *)
(* of clean paths, for any number of flows, any timing and any behaviour   *)
(* of the path.                                                            *)
(***************************************************************************)
EXTENDS ProbeRun, FiniteSetTheorems, WellFoundedInduction, TLAPS

\* What the counting arguments need of the types.
TasksTyped ==
    /\ reader \in [Conns -> ReaderPCs]
    /\ writer \in [Conns -> WriterPCs]
    /\ connected \in [Conns -> BOOLEAN]
    /\ disconnected \in [Conns -> BOOLEAN]
    /\ connect_failed \in Nat
    /\ midstream_disconnects \in Nat

Marked == {c \in Conns : disconnected[c]}
ReadersToCount == {c \in Conns : reader[c] = "count"}
WritersToCount == {c \in Conns : writer[c] = "count"}
Up == {c \in Conns : connected[c]}
Connecting == {c \in Conns : reader[c] = "connect"}

LEMMA SetsFinite ==
    \A S \in SUBSET Conns : IsFiniteSet(S) /\ Cardinality(S) \in Nat
  BY ConnsAssumption, FS_Subset, FS_CardinalityType

LEMMA Grows ==
  ASSUME NEW S \in SUBSET Conns, NEW c \in Conns, c \notin S
  PROVE  Cardinality(S \cup {c}) = Cardinality(S) + 1
  BY SetsFinite, FS_AddElement

LEMMA Shrinks ==
  ASSUME NEW S \in SUBSET Conns, NEW c \in S
  PROVE  Cardinality(S \ {c}) = Cardinality(S) - 1
  BY SetsFinite, FS_RemoveElement

-----------------------------------------------------------------------------
(* The steps that touch what is counted.                                   *)

\* A flow still connecting is not connected.
ConnectingIsDown == \A c \in Conns : reader[c] = "connect" => ~connected[c]

Disconnects ==
    midstream_disconnects + Cardinality(ReadersToCount) + Cardinality(WritersToCount)
      = Cardinality(Marked)

Flows ==
    connect_failed + Cardinality(Up) + Cardinality(Connecting) = Cardinality(Conns)

Inv ==
    /\ TasksTyped
    /\ ConnectingIsDown
    /\ Disconnects
    /\ Flows

LEMMA InvInit == Init => Inv
  <1> SUFFICES ASSUME Init PROVE Inv
    OBVIOUS
  <1>1. TasksTyped /\ ConnectingIsDown
    BY DEF Init, TasksTyped, ConnectingIsDown, ReaderPCs, WriterPCs
  <1>2. Marked = {} /\ ReadersToCount = {} /\ WritersToCount = {} /\ Up = {}
    BY DEF Init, Marked, ReadersToCount, WritersToCount, Up
  <1>3. Connecting = Conns
    BY DEF Init, Connecting
  <1>4. Disconnects
    BY <1>2, FS_EmptySet DEF Init, Disconnects
  <1>5. Flows
    BY <1>2, <1>3, FS_EmptySet, SetsFinite DEF Init, Flows
  <1> QED BY <1>1, <1>4, <1>5 DEF Inv

\* What is counted stays as it is.
Untouched ==
    /\ Marked' = Marked
    /\ ReadersToCount' = ReadersToCount
    /\ WritersToCount' = WritersToCount
    /\ Up' = Up
    /\ Connecting' = Connecting
    /\ UNCHANGED <<connect_failed, midstream_disconnects>>

LEMMA UntouchedKeeps ==
  ASSUME Inv, TasksTyped', Untouched PROVE Inv'
  <1>1. Disconnects' /\ Flows'
    BY DEF Inv, Untouched, Disconnects, Flows
  <1>2. ConnectingIsDown'
    BY DEF Inv, Untouched, ConnectingIsDown, Up, Connecting
  <1> QED BY <1>1, <1>2 DEF Inv

\* A step of flow c's reader from one counter-neutral place to another.
LEMMA ReaderMoves ==
  ASSUME TasksTyped, NEW c \in Conns,
         NEW a \in ReaderPCs \ {"count", "connect"}, NEW b \in ReaderPCs \ {"count", "connect"},
         Reader(c, a, b),
         UNCHANGED <<connected, disconnected, connect_failed, midstream_disconnects>>,
         \/ UNCHANGED writer
         \/ writer[c] = "unborn" /\ writer' = [writer EXCEPT ![c] = "loop"]
  PROVE  TasksTyped' /\ Untouched
  BY DEF TasksTyped, Untouched, Reader, Marked, ReadersToCount, WritersToCount, Up,
     Connecting, ReaderPCs, WriterPCs

\* The same for the writer.
LEMMA WriterMoves ==
  ASSUME TasksTyped, NEW c \in Conns,
         NEW a \in WriterPCs \ {"count"}, NEW b \in WriterPCs \ {"count"},
         Writer(c, a, b),
         UNCHANGED <<reader, connected, disconnected, connect_failed, midstream_disconnects>>
  PROVE  TasksTyped' /\ Untouched
  BY DEF TasksTyped, Untouched, Writer, Marked, ReadersToCount, WritersToCount, Up,
     Connecting, ReaderPCs, WriterPCs

LEMMA ConnectStep ==
  ASSUME Inv, NEW c \in Conns, ConnectFails(c) \/ Connects(c) PROVE Inv'
  <1> USE DEF Inv
  <1>1. TasksTyped' /\ ConnectingIsDown'
    <2>1. CASE ConnectFails(c)
      BY <2>1 DEF ConnectFails, Reader, TasksTyped, ConnectingIsDown, ReaderPCs, WriterPCs, conn
    <2>2. CASE Connects(c)
      BY <2>2 DEF Connects, Reader, TasksTyped, ConnectingIsDown, ReaderPCs, WriterPCs, counters
    <2> QED BY <2>1, <2>2
  <1>2. c \in Connecting /\ Connecting' = Connecting \ {c}
    BY DEF ConnectFails, Connects, Reader, TasksTyped, Connecting
  <1>3. Cardinality(Connecting') = Cardinality(Connecting) - 1
    BY <1>2, Shrinks DEF Connecting
  <1>4. UNCHANGED <<midstream_disconnects, Marked, ReadersToCount, WritersToCount>>
    <2>1. UNCHANGED <<midstream_disconnects, disconnected, writer>>
      BY DEF ConnectFails, Connects, conn, counters
    <2>2. ReadersToCount' = ReadersToCount
      BY DEF ConnectFails, Connects, Reader, TasksTyped, ReadersToCount
    <2> QED BY <2>1, <2>2 DEF Marked, WritersToCount
  <1>5. Disconnects'
    BY <1>4 DEF Disconnects
  <1>6. Cardinality(Up) \in Nat /\ Cardinality(Connecting) \in Nat
    BY SetsFinite DEF Up, Connecting
  <1>7. CASE ConnectFails(c)
    <2>1. Up' = Up /\ connect_failed' = connect_failed + 1
      BY <1>7 DEF ConnectFails, conn, Up
    <2> QED BY <1>1, <1>3, <1>5, <1>6, <2>1 DEF Flows, TasksTyped
  <1>8. CASE Connects(c)
    <2>1. c \notin Up /\ Up' = Up \cup {c} /\ connect_failed' = connect_failed
      BY <1>2, <1>8 DEF Connects, Up, TasksTyped, ConnectingIsDown, Connecting, counters
    <2>2. Cardinality(Up') = Cardinality(Up) + 1
      BY <2>1, Grows DEF Up
    <2> QED BY <1>1, <1>3, <1>5, <1>6, <2>1, <2>2 DEF Flows, TasksTyped
  <1> QED BY <1>7, <1>8

\* The reader's swap: the flow is marked, and this task is to count it, or it
\* had been marked already.
LEMMA ReaderSwapStep ==
  ASSUME Inv, NEW c \in Conns, ReaderSwap(c) PROVE Inv'
  <1> USE DEF Inv
  <1>1. TasksTyped'
    BY DEF ReaderSwap, Reader, TasksTyped, ReaderPCs, WriterPCs, counters
  <1>2. CASE disconnected[c]
    <2>1. Untouched
      BY <1>2 DEF ReaderSwap, Reader, TasksTyped, Untouched, Marked, ReadersToCount,
         WritersToCount, Up, Connecting, counters
    <2> QED BY <1>1, <2>1, UntouchedKeeps
  <1>3. CASE ~disconnected[c]
    <2>1. c \notin Marked /\ Marked' = Marked \cup {c}
      BY <1>3 DEF ReaderSwap, TasksTyped, Marked
    <2>2. c \notin ReadersToCount /\ ReadersToCount' = ReadersToCount \cup {c}
      BY <1>3 DEF ReaderSwap, Reader, TasksTyped, ReadersToCount
    <2>3. UNCHANGED <<WritersToCount, Up, Connecting, connect_failed, midstream_disconnects>>
      BY DEF ReaderSwap, Reader, TasksTyped, WritersToCount, Up, Connecting, counters
    <2>4. /\ Cardinality(Marked') = Cardinality(Marked) + 1
          /\ Cardinality(ReadersToCount') = Cardinality(ReadersToCount) + 1
      BY <2>1, <2>2, Grows DEF Marked, ReadersToCount
    <2>5. /\ Cardinality(Marked) \in Nat
          /\ Cardinality(ReadersToCount) \in Nat
          /\ Cardinality(WritersToCount) \in Nat
      BY SetsFinite DEF Marked, ReadersToCount, WritersToCount
    <2>6. ConnectingIsDown'
      BY <2>3 DEF ConnectingIsDown, Up, Connecting
    <2> QED BY <1>1, <2>3, <2>4, <2>5, <2>6 DEF Disconnects, Flows, TasksTyped
  <1> QED BY <1>2, <1>3

LEMMA WriterSwapStep ==
  ASSUME Inv, NEW c \in Conns, WriterSwap(c) PROVE Inv'
  <1> USE DEF Inv
  <1>1. TasksTyped'
    BY DEF WriterSwap, Writer, TasksTyped, ReaderPCs, WriterPCs, counters
  <1>2. CASE disconnected[c]
    <2>1. Untouched
      BY <1>2 DEF WriterSwap, Writer, TasksTyped, Untouched, Marked, ReadersToCount,
         WritersToCount, Up, Connecting, counters
    <2> QED BY <1>1, <2>1, UntouchedKeeps
  <1>3. CASE ~disconnected[c]
    <2>1. c \notin Marked /\ Marked' = Marked \cup {c}
      BY <1>3 DEF WriterSwap, TasksTyped, Marked
    <2>2. c \notin WritersToCount /\ WritersToCount' = WritersToCount \cup {c}
      BY <1>3 DEF WriterSwap, Writer, TasksTyped, WritersToCount
    <2>3. UNCHANGED <<ReadersToCount, Up, Connecting, connect_failed, midstream_disconnects>>
      BY DEF WriterSwap, ReadersToCount, Up, Connecting, counters
    <2>4. /\ Cardinality(Marked') = Cardinality(Marked) + 1
          /\ Cardinality(WritersToCount') = Cardinality(WritersToCount) + 1
      BY <2>1, <2>2, Grows DEF Marked, WritersToCount
    <2>5. /\ Cardinality(Marked) \in Nat
          /\ Cardinality(ReadersToCount) \in Nat
          /\ Cardinality(WritersToCount) \in Nat
      BY SetsFinite DEF Marked, ReadersToCount, WritersToCount
    <2>6. ConnectingIsDown'
      BY <2>3 DEF ConnectingIsDown, Up, Connecting
    <2> QED BY <1>1, <2>3, <2>4, <2>5, <2>6 DEF Disconnects, Flows, TasksTyped
  <1> QED BY <1>2, <1>3

LEMMA CountStep ==
  ASSUME Inv, NEW c \in Conns, ReaderCount(c) \/ WriterCount(c) PROVE Inv'
  <1> USE DEF Inv
  <1>1. TasksTyped'
    BY DEF ReaderCount, WriterCount, Reader, Writer, TasksTyped, ReaderPCs, WriterPCs, conn
  <1>2. UNCHANGED <<Marked, Up, Connecting, connect_failed>>
    BY DEF ReaderCount, WriterCount, Reader, TasksTyped, Marked, Up, Connecting, conn
  <1>3. midstream_disconnects' = midstream_disconnects + 1
    BY DEF ReaderCount, WriterCount
  <1>4. /\ Cardinality(ReadersToCount) \in Nat
        /\ Cardinality(WritersToCount) \in Nat
        /\ Cardinality(Marked) \in Nat
    BY SetsFinite DEF ReadersToCount, WritersToCount, Marked
  <1>5. Disconnects'
    <2>1. CASE ReaderCount(c)
      <3>1. /\ c \in ReadersToCount /\ ReadersToCount' = ReadersToCount \ {c}
            /\ WritersToCount' = WritersToCount
        BY <2>1 DEF ReaderCount, Reader, TasksTyped, ReadersToCount, WritersToCount
      <3>2. Cardinality(ReadersToCount') = Cardinality(ReadersToCount) - 1
        BY <3>1, Shrinks DEF ReadersToCount
      <3> QED BY <1>2, <1>3, <1>4, <3>1, <3>2 DEF Disconnects, TasksTyped
    <2>2. CASE WriterCount(c)
      <3>1. /\ c \in WritersToCount /\ WritersToCount' = WritersToCount \ {c}
            /\ ReadersToCount' = ReadersToCount
        BY <2>2 DEF WriterCount, Writer, TasksTyped, ReadersToCount, WritersToCount
      <3>2. Cardinality(WritersToCount') = Cardinality(WritersToCount) - 1
        BY <3>1, Shrinks DEF WritersToCount
      <3> QED BY <1>2, <1>3, <1>4, <3>1, <3>2 DEF Disconnects, TasksTyped
    <2> QED BY <2>1, <2>2
  <1>6. ConnectingIsDown' /\ Flows'
    BY <1>2 DEF ConnectingIsDown, Up, Connecting, Flows
  <1> QED BY <1>1, <1>5, <1>6

-----------------------------------------------------------------------------
(* All steps.                                                              *)

LEMMA InvNext == Inv /\ [Next]_vars => Inv'
  <1> SUFFICES ASSUME Inv, [Next]_vars PROVE Inv'
    OBVIOUS
  <1>1. TasksTyped
    BY DEF Inv
  <1> USE DEF ReaderPCs, WriterPCs
  <1>2. ASSUME NEW c \in Conns, ReaderStep(c) PROVE Inv'
    <2>1. CASE ConnectFails(c) \/ Connects(c)
      BY <2>1, ConnectStep
    <2>2. CASE ReaderSwap(c)
      BY <2>2, ReaderSwapStep
    <2>3. CASE ReaderCount(c)
      BY <2>3, CountStep
    <2>4. CASE StampConnect(c)
      BY <1>1, <2>4, ReaderMoves, UntouchedKeeps DEF StampConnect, counters
    <2>5. CASE SpawnWriter(c)
      BY <1>1, <2>5, ReaderMoves, UntouchedKeeps DEF SpawnWriter, Writer, counters, conn
    <2>6. CASE ReadFrame(c)
      BY <1>1, <2>6, ReaderMoves, UntouchedKeeps DEF ReadFrame, counters
    <2>7. CASE StampFrame(c)
      BY <1>1, <2>7, ReaderMoves, UntouchedKeeps DEF StampFrame, counters
    <2>8. CASE FlagFirst(c)
      BY <1>1, <2>8, ReaderMoves, UntouchedKeeps DEF FlagFirst, counters
    <2>9. CASE ClearStall(c)
      BY <1>1, <2>9, ReaderMoves, UntouchedKeeps DEF ClearStall, counters
    <2>10. CASE ReadEnds(c)
      BY <1>1, <2>10, ReaderMoves, UntouchedKeeps DEF ReadEnds, counters, conn
    <2>11. CASE ReaderCheck(c)
      <3>1. PICK b \in {"swap", "join"} : Reader(c, "check", b)
        BY <2>11 DEF ReaderCheck
      <3> QED BY <1>1, <2>11, <3>1, ReaderMoves, UntouchedKeeps
              DEF ReaderCheck, counters, conn
    <2>12. CASE FlowEnds(c)
      BY <1>1, <2>12, ReaderMoves, UntouchedKeeps DEF FlowEnds, counters, conn
    <2> QED BY <1>2, <2>1, <2>2, <2>3, <2>4, <2>5, <2>6, <2>7, <2>8, <2>9, <2>10,
               <2>11, <2>12 DEF ReaderStep
  <1>3. ASSUME NEW c \in Conns, WriterStep(c) PROVE Inv'
    <2>1. CASE WriterSwap(c)
      BY <2>1, WriterSwapStep
    <2>2. CASE WriterCount(c)
      BY <2>2, CountStep
    <2>3. CASE BeginWrite(c)
      BY <1>1, <2>3, WriterMoves, UntouchedKeeps DEF BeginWrite, counters, conn
    <2>4. CASE Write(c)
      BY <1>1, <2>4, WriterMoves, UntouchedKeeps DEF Write, counters
    <2>5. CASE WriteFails(c)
      BY <1>1, <2>5, WriterMoves, UntouchedKeeps DEF WriteFails, counters, conn
    <2>6. CASE WriterShuts(c)
      BY <1>1, <2>6, WriterMoves, UntouchedKeeps DEF WriterShuts, counters, conn
    <2>7. CASE WriterCheck(c)
      <3>1. PICK b \in {"swap", "shutdown"} : Writer(c, "check", b)
        BY <2>7 DEF WriterCheck
      <3> QED BY <1>1, <2>7, <3>1, WriterMoves, UntouchedKeeps
              DEF WriterCheck, counters, conn
    <2>8. CASE WriterEnds(c)
      BY <1>1, <2>8, WriterMoves, UntouchedKeeps DEF WriterEnds, counters, conn
    <2> QED BY <1>3, <2>1, <2>2, <2>3, <2>4, <2>5, <2>6, <2>7, <2>8 DEF WriterStep
  <1>4. ASSUME UNCHANGED <<reader, writer, connected, disconnected,
                           connect_failed, midstream_disconnects>>
        PROVE  Inv'
    <2>1. TasksTyped' /\ Untouched
      BY <1>1, <1>4 DEF TasksTyped, Untouched, Marked, ReadersToCount, WritersToCount, Up, Connecting
    <2> QED BY <2>1, UntouchedKeeps
  <1>5. ASSUME NEW c \in Conns, PathStep(c) PROVE Inv'
    BY <1>4, <1>5 DEF PathStep, Relay, EchoCloses, Silence, Resume, Break, Garble, tasks, conn, counters
  <1>6. CASE WatchdogStep
    BY <1>4, <1>6 DEF WatchdogStep, WatchdogTick, WatchdogLoad, WatchdogSwap, WatchdogSleeps,
       tasks, conn, counters
  <1>7. CASE WindDown \/ Finalize \/ Advance
    BY <1>4, <1>7 DEF WindDown, Finalize, Advance, tasks, conn, counters
  <1>8. CASE UNCHANGED vars
    BY <1>4, <1>8 DEF vars, tasks, conn, counters
  <1> QED BY <1>2, <1>3, <1>5, <1>6, <1>7, <1>8 DEF Next

\* Every broken flow is counted once, whichever of its two tasks notices first.
THEOREM DisconnectsAlwaysConserved == Spec => []DisconnectsConserved
  <1>1. Inv => DisconnectsConserved
    BY DEF Inv, Disconnects, DisconnectsConserved, Marked, ReadersToCount, WritersToCount
  <1> QED BY InvInit, InvNext, <1>1, PTL DEF Spec

\* Every flow is connecting, failed or connected, and counted as that.
THEOREM FlowsAlwaysConserved == Spec => []FlowsConserved
  <1>1. Inv => FlowsConserved
    BY DEF Inv, Flows, FlowsConserved, Up, Connecting
  <1> QED BY InvInit, InvNext, <1>1, PTL DEF Spec

-----------------------------------------------------------------------------
(* What the watchdog and the paths add: the inductive invariant, part by   *)
(* part.                                                                   *)

TypeOK ==
    /\ now \in Nat
    /\ reader \in [Conns -> ReaderPCs] /\ writer \in [Conns -> WriterPCs]
    /\ wake \in [Conns -> Nat]
    /\ connected \in [Conns -> BOOLEAN] /\ first_recv \in [Conns -> BOOLEAN]
    /\ last_recv \in [Conns -> Nat] /\ in_stall \in [Conns -> BOOLEAN]
    /\ disconnected \in [Conns -> BOOLEAN]
    /\ bytes_sent \in [Conns -> BOOLEAN] /\ bytes_recv \in [Conns -> BOOLEAN]
    /\ \A e \in stalls : e.conn_id \in Conns /\ e.at \in Nat /\ e.gap \in Nat
    /\ winding_down \in BOOLEAN
    /\ watchdog \in {"tick", "pass", "stopped"}
    /\ wd_now \in Nat /\ wd_todo \subseteq Conns /\ wd_gap \in Nat
    /\ wd_gap > 0 => wd_flow \in Conns
    /\ main \in {"join", "wind", "done"}
    /\ pipe \in [Conns -> Nat] /\ ready \in [Conns -> Nat]
    /\ link \in [Conns -> {"none", "open", "closed", "reset"}]
    /\ relaying \in [Conns -> BOOLEAN] /\ silenced \in [Conns -> BOOLEAN]
    /\ garbled \in [Conns -> BOOLEAN]
    /\ broke_at \in [Conns -> Nat]
    /\ got_at \in [Conns -> SUBSET Nat]

\* A frame of flow c came back gap ticks before "at", and none in between; the
\* gap is beyond the threshold and the flow had not broken before.
Gap(c, at, gap) ==
    /\ gap > StallTicks
    /\ at - gap \in got_at[c]
    /\ \A t \in got_at[c] : t <= at - gap \/ t >= at
    /\ at <= broke_at[c]

\* last_recv_ms is the tick of the newest frame, but for the frame the reader
\* has in hand and has not stamped.
Stamped(c) ==
    /\ last_recv[c] <= now /\ \A t \in got_at[c] : t <= now
    /\ reader[c] \in {"connect", "stamp", "spawn"} => got_at[c] = {} /\ ~first_recv[c]
    /\ reader[c] = "got" => now \in got_at[c]
    /\ reader[c] \in {"spawn", "flag", "clear"} => last_recv[c] = now
    /\ first_recv[c] \/ reader[c] = "flag" => last_recv[c] \in got_at[c]
    /\ \A t \in got_at[c] : t <= last_recv[c] \/ (reader[c] = "got" /\ t = now)

\* A pass works with the present tick, and the gap it holds is a real one.
Pass ==
    /\ wd_now <= now
    /\ watchdog = "pass" => wd_now = now /\ now < Deadline
    /\ watchdog = "tick" => wd_gap = 0
    /\ wd_gap > 0 => Gap(wd_flow, wd_now, wd_gap)
    /\ \A e \in stalls : e.at <= now

\* Flow c has a report that its last frame does not follow.
Reported(c) == \E e \in stalls : e.conn_id = c /\ e.at >= last_recv[c]

\* The watchdog has nothing left to do about flow c at this tick.
Examined(c) ==
    \/ watchdog = "tick"
    \/ watchdog = "pass" /\ c \notin wd_todo /\ ~(wd_gap > 0 /\ wd_flow = c)

\* A raised in_stall flag stands for a report since the last frame, unless the
\* reader is about to clear it; and a flow that the pass has dealt with and is
\* overdue has its report.
Alarm(c) ==
    /\ in_stall[c] => Reported(c) \/ reader[c] \in {"flag", "clear"}
    /\ Examined(c) /\ Overdue(c) => Reported(c)

\* How a flow ends: which tasks can stand where once its path is open, closed,
\* reset or garbled, and that a flow broken before the deadline is marked within the
\* tick, by whichever task comes first.
Ended(c) ==
    /\ link[c] = "none" =>
         reader[c] \in {"connect", "end"} /\ writer[c] = "unborn" /\ ~garbled[c]
    /\ link[c] = "open" =>
         /\ reader[c] # "connect"
         /\ ~garbled[c] => reader[c] \in {"stamp", "spawn", "read", "got", "flag", "clear"}
         /\ writer[c] \in {"unborn", "loop", "write", "shutdown", "end"}
         /\ writer[c] \in {"shutdown", "end"} => now >= Deadline
    /\ link[c] \in {"none", "open"} /\ ~garbled[c] => broke_at[c] = Never /\ ~disconnected[c]
    /\ garbled[c] => broke_at[c] <= now
    /\ link[c] \in {"closed", "reset"} =>
         /\ reader[c] # "connect"
         /\ broke_at[c] <= now \/ (broke_at[c] = Never /\ link[c] = "closed" /\ now >= Deadline)
    /\ (writer[c] = "unborn") <=> (reader[c] \in {"connect", "stamp", "spawn"} \/ link[c] = "none")
    /\ reader[c] \in {"swap", "count"} \/ writer[c] \in {"swap", "count"} => now < Deadline
    /\ disconnected[c] => broke_at[c] < Deadline
    /\ (broke_at[c] < Deadline /\ ~disconnected[c]) =>
         /\ now = broke_at[c]
         /\ reader[c] \in {"stamp", "spawn", "read", "got", "flag", "clear", "check", "swap"}
    /\ winding_down => reader[c] = "end"
    /\ (reader[c] = "end" /\ link[c] # "none") => writer[c] = "end"

\* run_tcp winds down before it reports.
Wind == now <= Horizon /\ (main # "join" => winding_down)

\* On a clean path what was sent is under way or has come back, and the far
\* end closes only after the writer.
Echoed(c) == Clean(c) =>
    /\ relaying[c]
    /\ link[c] = "none" => pipe[c] = 0 /\ ready[c] = 0
    /\ link[c] # "reset"
    /\ link[c] = "closed" => writer[c] = "end" /\ pipe[c] = 0
    /\ reader[c] \in {"check", "swap", "count", "join", "end"} => ready[c] = 0 /\ pipe[c] = 0
    /\ bytes_sent[c] <=> pipe[c] > 0 \/ ready[c] > 0 \/ bytes_recv[c]

\* On a clean path a frame is under way, or was taken and stamped recently
\* enough for the writer not to be due again.
Paced(c) ==
    /\ wake[c] <= now + Pace
    /\ link[c] = "none" => ~connected[c]
    /\ (Clean(c) /\ link[c] = "open" /\ reader[c] \notin {"stamp", "spawn"}) =>
         /\ \/ pipe[c] > 0 \/ ready[c] > 0 \/ reader[c] = "got"
            \/ last_recv[c] + Pace >= wake[c]
         /\ now < Deadline => now <= last_recv[c] + Pause

\* No clean flow is held or reported for more than its writer's sleep.
Blamed ==
    /\ wd_gap > 0 /\ Clean(wd_flow) => wd_gap <= Pause
    /\ \A e \in stalls : Clean(e.conn_id) => e.gap <= Pause

\* What every run keeps, whatever its paths do.
Whole ==
    /\ TypeOK /\ Inv /\ Wind
    /\ \A c \in Conns : Stamped(c) /\ Ended(c) /\ Alarm(c)
    /\ Pass /\ StallsReal

\* What it keeps besides for its clean paths.
Fair ==
    /\ \A c \in Conns : Echoed(c) /\ Paced(c)
    /\ Blamed

-----------------------------------------------------------------------------
(* The steps, for the reader and the watchdog.                             *)

\* Min picks a least element: the flow the pass takes next is one of its flows.
LEMMA MinIn ==
  ASSUME NEW S \in SUBSET Nat, S # {}
  PROVE  Min(S) \in S /\ \A n \in S : Min(S) <= n
  <1> DEFINE R == {ss \in Nat \X Nat : ss[1] < ss[2]}
  <1>1. IsWellFoundedOn(R, Nat)
    BY NatLessThanWellFounded DEF OpToRel
  <1>2. \A x, y \in Nat : y < x => <<y, x>> \in R
    OBVIOUS
  <1> HIDE DEF R
  <1>3. PICK m \in S : \A y \in S : ~(<<y, m>> \in R)
    BY <1>1, WFMin
  <1>4. ASSUME NEW n \in S PROVE m <= n
    <2>1. m \in Nat /\ n \in Nat /\ <<n, m>> \notin R
      BY <1>3
    <2>2. ~(n < m)
      BY <1>2, <2>1
    <2> QED BY <2>1, <2>2
  <1> QED BY <1>4 DEF Min

\* The writer sleeps to the end of its pace or of time.
LEMMA MinOfTwo ==
  ASSUME NEW a \in Nat, NEW b \in Nat
  PROVE  Min({a, b}) = IF a <= b THEN a ELSE b
  <1>1. Min({a,b}) \in {a,b} /\ \A n \in {a,b} : Min({a,b}) <= n
    BY MinIn
  <1> QED BY <1>1

\* What a break leaves of the history: the tick of the first one.
LEMMA FirstBreak ==
  ASSUME TypeOK, NEW c \in Conns
  PROVE  Min({broke_at[c], now}) = IF broke_at[c] <= now THEN broke_at[c] ELSE now
  <1>1. broke_at[c] \in Nat /\ now \in Nat
    BY DEF TypeOK
  <1> QED BY <1>1, MinOfTwo

\* The types hold at the start ...
LEMMA TypeInit == Init => TypeOK
  <1> SUFFICES ASSUME Init PROVE TypeOK
    OBVIOUS
  <1>1. Never \in Nat
    BY TimesAssumption DEF Never, Horizon
  <1>2. broke_at \in [Conns -> Nat]
    BY <1>1 DEF Init
  <1>3. got_at \in [Conns -> SUBSET Nat]
    BY DEF Init
  <1>4. /\ reader \in [Conns -> ReaderPCs] /\ writer \in [Conns -> WriterPCs]
        /\ wake \in [Conns -> Nat] /\ last_recv \in [Conns -> Nat]
        /\ pipe \in [Conns -> Nat] /\ ready \in [Conns -> Nat]
        /\ link \in [Conns -> {"none", "open", "closed", "reset"}]
    BY DEF Init, ReaderPCs, WriterPCs
  <1>5. /\ connected \in [Conns -> BOOLEAN] /\ first_recv \in [Conns -> BOOLEAN]
        /\ in_stall \in [Conns -> BOOLEAN] /\ disconnected \in [Conns -> BOOLEAN]
        /\ bytes_sent \in [Conns -> BOOLEAN] /\ bytes_recv \in [Conns -> BOOLEAN]
        /\ relaying \in [Conns -> BOOLEAN] /\ silenced \in [Conns -> BOOLEAN]
        /\ garbled \in [Conns -> BOOLEAN]
    BY DEF Init
  <1>6. /\ now \in Nat /\ stalls = {} /\ winding_down \in BOOLEAN
        /\ watchdog = "tick" /\ wd_now = 0 /\ wd_todo = {} /\ wd_gap = 0 /\ main = "join"
    BY DEF Init
  <1> QED
    BY <1>2, <1>3, <1>4, <1>5, <1>6 DEF TypeOK

\* ... and after every step.
LEMMA TypeStep == ASSUME TypeOK, [Next]_vars PROVE TypeOK'
  <1> USE TimesAssumption DEF TypeOK, ReaderPCs, WriterPCs, Reader, Writer, tasks, conn,
      counters, dog, wire
  <1>1. ASSUME NEW c \in Conns, ReaderStep(c) PROVE TypeOK'
    <2>1. CASE ConnectFails(c)
      BY <2>1 DEF ConnectFails
    <2>2. CASE Connects(c)
      BY <2>2 DEF Connects
    <2>3. CASE StampConnect(c)
      BY <2>3 DEF StampConnect
    <2>4. CASE SpawnWriter(c)
      BY <2>4 DEF SpawnWriter
    <2>5. CASE ReadFrame(c)
      BY <2>5 DEF ReadFrame
    <2>6. CASE StampFrame(c)
      BY <2>6 DEF StampFrame
    <2>7. CASE FlagFirst(c)
      BY <2>7 DEF FlagFirst
    <2>8. CASE ClearStall(c)
      BY <2>8 DEF ClearStall
    <2>9. CASE ReadEnds(c)
      BY <2>9 DEF ReadEnds
    <2>10. CASE ReaderCheck(c)
      BY <2>10 DEF ReaderCheck
    <2>11. CASE ReaderSwap(c)
      BY <2>11 DEF ReaderSwap
    <2>12. CASE ReaderCount(c)
      BY <2>12 DEF ReaderCount
    <2>13. CASE FlowEnds(c)
      BY <2>13 DEF FlowEnds
    <2> QED
      BY <1>1, <2>1, <2>2, <2>3, <2>4, <2>5, <2>6, <2>7, <2>8, <2>9, <2>10, <2>11, <2>12, <2>13
      DEF ReaderStep
  <1>2. ASSUME NEW c \in Conns, WriterStep(c) PROVE TypeOK'
    <2>1. CASE BeginWrite(c) \/ WriteFails(c) \/ WriterShuts(c) \/ WriterCheck(c)
      BY <2>1 DEF BeginWrite, WriteFails, WriterShuts, WriterCheck
    <2>2. CASE Write(c)
      <3>1. Min({now + Pace, Horizon}) \in Nat
        <4>1. now + Pace \in Nat /\ Horizon \in Nat
          BY DEF Horizon
        <4> QED BY <4>1, MinOfTwo
      <3> QED
        BY <2>2, <3>1 DEF Write
    <2>3. CASE WriterSwap(c) \/ WriterCount(c) \/ WriterEnds(c)
      BY <2>3 DEF WriterSwap, WriterCount, WriterEnds
    <2> QED BY <1>2, <2>1, <2>2, <2>3 DEF WriterStep
  <1>3. ASSUME NEW c \in Conns, PathStep(c) PROVE TypeOK'
    <2>1. CASE Relay(c)
      BY <2>1 DEF Relay
    <2>2. CASE EchoCloses(c) \/ Silence(c) \/ Resume(c)
      BY <2>2 DEF EchoCloses, Silence, Resume
    <2>3. CASE Break(c)
      BY <2>3, FirstBreak DEF Break
    <2>4. CASE Garble(c)
      BY <2>4, FirstBreak DEF Garble
    <2> QED BY <1>3, <2>1, <2>2, <2>3, <2>4 DEF PathStep
  <1>4. CASE WatchdogTick \/ WatchdogSleeps
    BY <1>4 DEF WatchdogTick, WatchdogSleeps
  <1>5. CASE WatchdogLoad
    <2>1. Min(wd_todo) \in Conns
      BY <1>5, MinIn, ConnsAssumption DEF WatchdogLoad
    <2> QED
      BY <1>5, <2>1 DEF WatchdogLoad
  <1>6. CASE WatchdogSwap
    BY <1>6 DEF WatchdogSwap
  <1>7. CASE WindDown \/ Finalize \/ Advance
    <2>1. CASE WindDown
      BY <2>1 DEF WindDown
    <2>2. CASE Finalize
      BY <2>2 DEF Finalize
    <2>3. CASE Advance
      BY <2>3 DEF Advance
    <2> QED BY <1>7, <2>1, <2>2, <2>3
  <1>8. CASE UNCHANGED vars
    BY <1>8 DEF vars
  <1> QED
    BY <1>1, <1>2, <1>3, <1>4, <1>5, <1>6, <1>7, <1>8 DEF Next, WatchdogStep

-----------------------------------------------------------------------------
\* What the writers, the watchdog and the path do, run_tcp's last steps included.
Aside ==
    \/ \E c \in Conns : WriterStep(c) \/ PathStep(c)
    \/ WatchdogStep \/ WindDown \/ Finalize

\* None of those steps stamps or takes a frame, or moves a reader or the clock.
LEMMA AsideLeavesFrames ==
  Aside \/ UNCHANGED vars => UNCHANGED <<now, reader, first_recv, last_recv, got_at>>
  <1> USE DEF tasks, conn, wire
  <1>1. ASSUME NEW c \in Conns, WriterStep(c)
        PROVE  UNCHANGED <<now, reader, first_recv, last_recv, got_at>>
    BY <1>1 DEF WriterStep, BeginWrite, Write, WriteFails, WriterShuts, WriterCheck,
       WriterSwap, WriterCount, WriterEnds
  <1>2. ASSUME NEW c \in Conns, PathStep(c)
        PROVE  UNCHANGED <<now, reader, first_recv, last_recv, got_at>>
    BY <1>2 DEF PathStep, Relay, EchoCloses, Silence, Resume, Break, Garble
  <1> QED
    BY <1>1, <1>2 DEF Aside, WatchdogStep, WatchdogTick, WatchdogLoad, WatchdogSwap,
       WatchdogSleeps, WindDown, Finalize, vars

\* The reader stamps what it takes before it can take another or the clock can move.
LEMMA StampedStep ==
  ASSUME TypeOK, \A d \in Conns : Stamped(d), [Next]_vars, NEW c \in Conns
  PROVE  Stamped(c)'
  <1> USE DEF TypeOK, Stamped, ReaderPCs, Reader, tasks, conn, wire
  <1>1. ASSUME NEW d \in Conns, ReaderStep(d) PROVE Stamped(c)'
    <2>1. CASE ConnectFails(d) \/ Connects(d) \/ SpawnWriter(d)
      BY <2>1 DEF ConnectFails, Connects, SpawnWriter
    <2>2. CASE StampConnect(d)
      BY <2>2 DEF StampConnect
    <2>3. CASE ReadFrame(d)
      BY <2>3 DEF ReadFrame
    <2>4. CASE StampFrame(d)
      BY <2>4 DEF StampFrame
    <2>5. CASE FlagFirst(d)
      BY <2>5 DEF FlagFirst
    <2>6. CASE ClearStall(d) \/ ReadEnds(d) \/ ReaderCheck(d)
      BY <2>6 DEF ClearStall, ReadEnds, ReaderCheck
    <2>7. CASE ReaderSwap(d) \/ ReaderCount(d) \/ FlowEnds(d)
      BY <2>7 DEF ReaderSwap, ReaderCount, FlowEnds
    <2> QED
      BY <1>1, <2>1, <2>2, <2>3, <2>4, <2>5, <2>6, <2>7 DEF ReaderStep
  <1>2. CASE Advance
    <2>1. reader[c] \notin {"stamp", "spawn", "got", "flag", "clear"}
      BY <1>2 DEF Advance, Quiet, ReaderBusy
    <2> QED
      BY <1>2, <2>1 DEF Advance
  <1>3. CASE Aside \/ UNCHANGED vars
    BY <1>3, AsideLeavesFrames
  <1> QED
    BY <1>1, <1>2, <1>3 DEF Next, Aside

\* Frames and breaks come to a flow only at the present tick, which no reported gap
\* covers.
LEMMA FramesGrow ==
  ASSUME TypeOK, [Next]_vars, NEW c \in Conns
  PROVE  /\ got_at[c] \subseteq got_at'[c]
         /\ \A t \in got_at'[c] : t \in got_at[c] \/ t = now
         /\ broke_at'[c] \in {broke_at[c], now}
         /\ now' \in {now, now + 1}
  <1> USE DEF TypeOK, tasks, conn, wire
  <1>1. ASSUME NEW d \in Conns, ReaderStep(d)
        PROVE  /\ UNCHANGED <<now, broke_at>>
               /\ UNCHANGED got_at \/ got_at' = [got_at EXCEPT ![d] = @ \cup {now}]
    BY <1>1 DEF ReaderStep, ConnectFails, Connects, StampConnect, SpawnWriter, ReadFrame,
       StampFrame, FlagFirst, ClearStall, ReadEnds, ReaderCheck, ReaderSwap, ReaderCount,
       FlowEnds
  <1>2. CASE Advance
    BY <1>2 DEF Advance
  <1>3. CASE Aside \/ UNCHANGED vars
    <2>1. ASSUME NEW d \in Conns, WriterStep(d) PROVE UNCHANGED broke_at
      BY <2>1 DEF WriterStep, BeginWrite, Write, WriteFails, WriterShuts, WriterCheck,
         WriterSwap, WriterCount, WriterEnds
    <2>2. ASSUME NEW d \in Conns, PathStep(d) PROVE broke_at'[c] \in {broke_at[c], now}
      <3>1. CASE Break(d)
        BY <3>1, FirstBreak DEF Break
      <3>2. CASE Garble(d)
        BY <3>2, FirstBreak DEF Garble
      <3>3. CASE Relay(d) \/ EchoCloses(d) \/ Silence(d) \/ Resume(d)
        BY <3>3 DEF Relay, EchoCloses, Silence, Resume
      <3> QED BY <2>2, <3>1, <3>2, <3>3 DEF PathStep
    <2>3. CASE WatchdogStep \/ WindDown \/ Finalize \/ UNCHANGED vars
      BY <2>3 DEF WatchdogStep, WatchdogTick, WatchdogLoad, WatchdogSwap, WatchdogSleeps,
         WindDown, Finalize, vars
    <2> QED
      BY <1>3, <2>1, <2>2, <2>3, AsideLeavesFrames DEF Aside
  <1> QED
    BY <1>1, <1>2, <1>3 DEF Next, Aside

\* A gap that is past stays as it is.
LEMMA GapStays ==
  ASSUME TypeOK, [Next]_vars, NEW c \in Conns, NEW at \in Nat, NEW gap \in Nat,
         at <= now, Gap(c, at, gap)
  PROVE  Gap(c, at, gap)'
  BY FramesGrow DEF Gap

\* The watchdog's own steps are the only ones that report or keep a gap.
LEMMA OthersLeaveDog ==
  ASSUME [Next]_vars, ~WatchdogStep
  PROVE  /\ UNCHANGED <<stalls, wd_now, wd_todo, wd_gap, wd_flow>>
         /\ watchdog' = watchdog \/ (Finalize /\ watchdog' = "stopped")
  <1> USE DEF dog
  <1>1. ASSUME NEW c \in Conns, ReaderStep(c) PROVE UNCHANGED <<stalls, dog>>
    BY <1>1 DEF ReaderStep, ConnectFails, Connects, StampConnect, SpawnWriter, ReadFrame,
       StampFrame, FlagFirst, ClearStall, ReadEnds, ReaderCheck, ReaderSwap, ReaderCount,
       FlowEnds
  <1>2. ASSUME NEW c \in Conns, WriterStep(c) PROVE UNCHANGED <<stalls, dog>>
    BY <1>2 DEF WriterStep, BeginWrite, Write, WriteFails, WriterShuts, WriterCheck,
       WriterSwap, WriterCount, WriterEnds
  <1>3. ASSUME NEW c \in Conns, PathStep(c) PROVE UNCHANGED <<stalls, dog>>
    BY <1>3 DEF PathStep, Relay, EchoCloses, Silence, Resume, Break, Garble
  <1>4. CASE WindDown \/ Advance \/ UNCHANGED vars
    BY <1>4 DEF WindDown, Advance, vars
  <1>5. CASE Finalize
    BY <1>5 DEF Finalize
  <1> QED
    BY <1>1, <1>2, <1>3, <1>4, <1>5 DEF Next

\* The stall argument: the pass reads a stamp that is either the newest frame or
\* older than one taken at this very tick, so the gap it holds contains no frame.
LEMMA PassStep ==
  ASSUME TypeOK, \A c \in Conns : Stamped(c) /\ Ended(c), Pass, StallsReal, [Next]_vars
  PROVE  Pass' /\ StallsReal'
  <1>0. now' = now \/ Advance
    <2>1. ASSUME NEW d \in Conns, ReaderStep(d) PROVE UNCHANGED now
      BY <2>1 DEF ReaderStep, ConnectFails, Connects, StampConnect, SpawnWriter, ReadFrame,
         StampFrame, FlagFirst, ClearStall, ReadEnds, ReaderCheck, ReaderSwap, ReaderCount,
         FlowEnds
    <2> QED
      BY <2>1, AsideLeavesFrames DEF Next, Aside
  <1>1. now' \in {now, now + 1} /\ now \in Nat /\ wd_now \in Nat /\ wd_gap \in Nat
    BY <1>0 DEF Advance, TypeOK
  <1>2. \A f \in Conns, at, gap \in Nat :
          (at <= now /\ Gap(f, at, gap)) => Gap(f, at, gap)'
    BY GapStays
  <1>3. ASSUME NEW e \in stalls PROVE e.at <= now' /\ Gap(e.conn_id, e.at, e.gap)'
    <2>1. e.conn_id \in Conns /\ e.at \in Nat /\ e.gap \in Nat
      BY DEF TypeOK
    <2>2. e.at <= now /\ Gap(e.conn_id, e.at, e.gap)
      BY DEF Pass, StallsReal, Gap
    <2>3. e.at <= now'
      BY <1>1, <2>1, <2>2
    <2>4. Gap(e.conn_id, e.at, e.gap)'
      BY <1>2, <2>1, <2>2, Zenon
    <2> QED BY <2>3, <2>4
  <1>4. CASE ~WatchdogStep
    <2>1. StallsReal'
      BY <1>3, <1>4, OthersLeaveDog DEF StallsReal, Gap
    <2>2. watchdog = "pass" => now' = now
      BY <1>0 DEF Advance, Quiet
    <2>3. wd_gap' > 0 => Gap(wd_flow, wd_now, wd_gap)'
      BY <1>1, <1>2, <1>4, OthersLeaveDog DEF Pass, TypeOK, Gap
    <2> QED
      BY <1>1, <1>3, <1>4, <2>1, <2>2, <2>3, OthersLeaveDog DEF Pass
  <1>5. CASE WatchdogTick
    <2>1. /\ wd_now' = now /\ now' = now /\ wd_gap = 0
          /\ UNCHANGED <<stalls, wd_gap>>
          /\ watchdog' = "pass" => now < Deadline
      BY <1>5, TimesAssumption DEF WatchdogTick, Pass, TypeOK
    <2> QED
      BY <1>1, <1>3, <2>1 DEF Pass, StallsReal, Gap
  <1>6. CASE WatchdogSleeps
    <2>1. now' = now /\ wd_gap = 0 /\ UNCHANGED <<stalls, wd_gap, wd_now>> /\ watchdog' = "tick"
      BY <1>6 DEF WatchdogSleeps
    <2> QED
      BY <1>1, <1>3, <2>1 DEF Pass, StallsReal, Gap
  <1>7. CASE WatchdogLoad
    <2> DEFINE c == Min(wd_todo)
               gap == IF wd_now > last_recv[c] THEN wd_now - last_recv[c] ELSE 0
    <2>1. c \in Conns
      BY <1>7, MinIn, ConnsAssumption DEF WatchdogLoad, TypeOK
    <2>2. UNCHANGED <<now, stalls, watchdog, wd_now, got_at, broke_at>> /\ watchdog = "pass"
      BY <1>7 DEF WatchdogLoad, wire
    <2>3. \/ UNCHANGED <<wd_gap, wd_flow>>
          \/ /\ ~disconnected[c] /\ first_recv[c] /\ gap > StallTicks
             /\ wd_gap' = gap /\ wd_flow' = c
      BY <1>7 DEF WatchdogLoad
    <2> HIDE DEF c
    <2>4. CASE UNCHANGED <<wd_gap, wd_flow>>
      BY <1>1, <1>3, <2>2, <2>4 DEF Pass, StallsReal, Gap
    <2>5. CASE /\ ~disconnected[c] /\ first_recv[c] /\ gap > StallTicks
               /\ wd_gap' = gap /\ wd_flow' = c
      <3>1. /\ last_recv[c] \in Nat /\ gap = wd_now - last_recv[c]
            /\ last_recv[c] \in got_at[c]
            /\ \A t \in got_at[c] : t \in Nat /\ (t <= last_recv[c] \/ t = now)
        BY <2>1, <2>5, TimesAssumption DEF TypeOK, Stamped
      <3>2. wd_now - gap = last_recv[c]
        BY <1>1, <3>1
      <3>5. wd_now <= broke_at[c]
        <4>1. wd_now = now /\ now < Deadline
          BY <2>2 DEF Pass
        <4>2. broke_at[c] < Deadline => now = broke_at[c]
          BY <2>1, <2>5 DEF Ended
        <4>3. broke_at[c] \in Nat
          BY <2>1 DEF TypeOK
        <4> QED BY <1>1, <4>1, <4>2, <4>3, TimesAssumption
      <3>3. Gap(c, wd_now, gap)
        BY <2>5, <3>1, <3>2, <3>5 DEF Gap, Pass
      <3>4. Gap(wd_flow, wd_now, wd_gap)'
        BY <2>2, <2>5, <3>3 DEF Gap
      <3> QED
        BY <1>1, <1>3, <2>2, <3>4 DEF Pass, StallsReal, Gap
    <2> QED BY <2>3, <2>4, <2>5
  <1>8. CASE WatchdogSwap
    <2>1. /\ UNCHANGED <<now, watchdog, wd_now, got_at, broke_at>> /\ wd_gap > 0 /\ wd_gap' = 0
          /\ \A e \in stalls' : \/ e \in stalls
                                \/ e = [conn_id |-> wd_flow, at |-> wd_now, gap |-> wd_gap]
      BY <1>8 DEF WatchdogSwap, wire
    <2>2. Gap(wd_flow, wd_now, wd_gap)
      BY <2>1 DEF Pass
    <2>3. \A e \in stalls' : e.at <= now /\ Gap(e.conn_id, e.at, e.gap)'
      BY <1>3, <2>1, <2>2 DEF Gap, Pass
    <2> QED
      BY <1>1, <2>1, <2>3 DEF Pass, StallsReal, Gap
  <1> QED
    BY <1>4, <1>5, <1>6, <1>7, <1>8 DEF WatchdogStep

-----------------------------------------------------------------------------
\* Only the clock of the watchdog makes a flow overdue: a flow's first frame is
\* flagged at the tick at which it is stamped.
LEMMA OverdueOnlyByTick ==
  ASSUME TypeOK, Pass, [Next]_vars, ~WatchdogStep, NEW c \in Conns, Stamped(c), Overdue(c)'
  PROVE  Overdue(c)
  <1> USE TimesAssumption DEF TypeOK, Pass, Stamped, Overdue, Reader, dog, tasks, conn
  <1>1. ASSUME NEW d \in Conns, ReaderStep(d) PROVE Overdue(c)
    <2>1. CASE ConnectFails(d) \/ SpawnWriter(d) \/ ReadFrame(d) \/ ClearStall(d) \/ ReadEnds(d)
      BY <2>1 DEF ConnectFails, SpawnWriter, ReadFrame, ClearStall, ReadEnds
    <2>2. CASE Connects(d)
      BY <2>2 DEF Connects
    <2>3. CASE StampConnect(d)
      BY <2>3 DEF StampConnect
    <2>4. CASE StampFrame(d)
      BY <2>4 DEF StampFrame
    <2>5. CASE FlagFirst(d)
      BY <2>5 DEF FlagFirst
    <2>6. CASE ReaderCheck(d) \/ ReaderCount(d) \/ FlowEnds(d)
      BY <2>6 DEF ReaderCheck, ReaderCount, FlowEnds
    <2>7. CASE ReaderSwap(d)
      BY <2>7 DEF ReaderSwap
    <2> QED
      BY <1>1, <2>1, <2>2, <2>3, <2>4, <2>5, <2>6, <2>7 DEF ReaderStep
  <1>2. ASSUME NEW d \in Conns, WriterStep(d) PROVE Overdue(c)
    <2>1. CASE WriterSwap(d)
      BY <2>1 DEF WriterSwap
    <2>2. CASE ~WriterSwap(d)
      BY <1>2, <2>2 DEF WriterStep, BeginWrite, Write, WriteFails, WriterShuts, WriterCheck,
         WriterCount, WriterEnds
    <2> QED BY <2>1, <2>2
  <1>3. ASSUME NEW d \in Conns, PathStep(d) PROVE Overdue(c)
    BY <1>3 DEF PathStep, Relay, EchoCloses, Silence, Resume, Break, Garble
  <1>4. CASE WindDown \/ Finalize \/ Advance \/ UNCHANGED vars
    BY <1>4 DEF WindDown, Finalize, Advance, vars
  <1> QED
    BY <1>1, <1>2, <1>3, <1>4 DEF Next

\* Only the swap of the watchdog raises in_stall.
LEMMA StallFlagOnlyBySwap ==
  ASSUME TypeOK, [Next]_vars, ~WatchdogSwap, NEW c \in Conns, in_stall'[c]
  PROVE  in_stall[c]
  <1> USE DEF TypeOK, conn
  <1>1. ASSUME NEW d \in Conns, ReaderStep(d) PROVE in_stall[c]
    BY <1>1 DEF ReaderStep, ConnectFails, Connects, StampConnect, SpawnWriter, ReadFrame,
       StampFrame, FlagFirst, ClearStall, ReadEnds, ReaderCheck, ReaderSwap, ReaderCount,
       FlowEnds
  <1>2. ASSUME NEW d \in Conns, WriterStep(d) PROVE in_stall[c]
    BY <1>2 DEF WriterStep, BeginWrite, Write, WriteFails, WriterShuts, WriterCheck,
       WriterSwap, WriterCount, WriterEnds
  <1>3. ASSUME NEW d \in Conns, PathStep(d) PROVE in_stall[c]
    BY <1>3 DEF PathStep, Relay, EchoCloses, Silence, Resume, Break, Garble
  <1>4. CASE WatchdogTick \/ WatchdogLoad \/ WatchdogSleeps
    BY <1>4 DEF WatchdogTick, WatchdogLoad, WatchdogSleeps
  <1>5. CASE WindDown \/ Finalize \/ Advance \/ UNCHANGED vars
    BY <1>5 DEF WindDown, Finalize, Advance, vars
  <1> QED
    BY <1>1, <1>2, <1>3, <1>4, <1>5 DEF Next, WatchdogStep

\* Only the reader's stamps move last_recv_ms, and from a stamp it goes straight on
\* to clear in_stall.
LEMMA OthersLeaveStamp ==
  ASSUME TypeOK, [Next]_vars, NEW c \in Conns,
         ~(StampConnect(c) \/ StampFrame(c) \/ ClearStall(c))
  PROVE  /\ last_recv'[c] = last_recv[c]
         /\ reader[c] \in {"flag", "clear"} => reader'[c] \in {"flag", "clear"}
  <1> USE DEF TypeOK, ReaderPCs, Reader, tasks, conn
  <1>1. ASSUME NEW d \in Conns, ReaderStep(d), d # c
        PROVE  last_recv'[c] = last_recv[c] /\ reader'[c] = reader[c]
    BY <1>1 DEF ReaderStep, ConnectFails, Connects, StampConnect, SpawnWriter, ReadFrame,
       StampFrame, FlagFirst, ClearStall, ReadEnds, ReaderCheck, ReaderSwap, ReaderCount,
       FlowEnds
  <1>2. ASSUME ReaderStep(c)
        PROVE  /\ last_recv'[c] = last_recv[c]
               /\ reader[c] \in {"flag", "clear"} => reader'[c] \in {"flag", "clear"}
    BY <1>2 DEF ReaderStep, ConnectFails, Connects, SpawnWriter, ReadFrame,
       FlagFirst, ReadEnds, ReaderCheck, ReaderSwap, ReaderCount, FlowEnds
  <1>3. CASE Advance
    BY <1>3 DEF Advance
  <1>4. CASE Aside \/ UNCHANGED vars
    BY <1>4, AsideLeavesFrames
  <1> QED
    BY <1>1, <1>2, <1>3, <1>4 DEF Next, Aside

\* A fresh stamp is not overdue, and the flag that it leaves up is cleared next.
LEMMA AlarmByReader ==
  ASSUME NEW c \in Conns, TypeOK, Stamped(c), Pass, StallsReal, Alarm(c),
         StampConnect(c) \/ StampFrame(c) \/ ClearStall(c)
  PROVE  Alarm(c)'
  <1> USE TimesAssumption DEF TypeOK, ReaderPCs, Reader, dog
  <1>1. CASE StampConnect(c)
    <2>1. reader[c] = "stamp" /\ got_at[c] = {}
      BY <1>1 DEF StampConnect, Stamped
    <2>2. ~Reported(c)
      BY <2>1 DEF Reported, StallsReal
    <2>3. ~in_stall[c]
      BY <2>1, <2>2 DEF Alarm
    <2>4. last_recv'[c] = now /\ in_stall' = in_stall /\ wd_now' = wd_now
      BY <1>1 DEF StampConnect
    <2>5. ~Overdue(c)'
      BY <2>4 DEF Overdue, Pass
    <2> QED BY <2>3, <2>4, <2>5 DEF Alarm
  <1>2. CASE StampFrame(c)
    <2>1. last_recv'[c] = now /\ reader'[c] = "flag" /\ wd_now' = wd_now
      BY <1>2 DEF StampFrame
    <2>2. ~Overdue(c)'
      BY <2>1 DEF Overdue, Pass
    <2> QED BY <2>1, <2>2 DEF Alarm
  <1>3. CASE ClearStall(c)
    <2>1. /\ ~in_stall'[c]
          /\ UNCHANGED <<stalls, last_recv, dog, connected, disconnected, first_recv>>
      BY <1>3 DEF ClearStall
    <2> QED BY <2>1 DEF Alarm, Overdue, Examined, Reported
  <1> QED BY <1>1, <1>2, <1>3

\* The reader may clear in_stall between the load and the swap; then the swap
\* reports, and a flag still up means that an earlier swap has.
LEMMA AlarmStep ==
  ASSUME TypeOK, \A d \in Conns : Stamped(d), Pass, StallsReal, [Next]_vars,
         NEW c \in Conns, Alarm(c)
  PROVE  Alarm(c)'
  <1>0. CASE StampConnect(c) \/ StampFrame(c) \/ ClearStall(c)
    BY <1>0, AlarmByReader
  <1>1. CASE ~WatchdogStep /\ ~(StampConnect(c) \/ StampFrame(c) \/ ClearStall(c))
    <2>0. /\ last_recv'[c] = last_recv[c]
          /\ reader[c] \in {"flag", "clear"} => reader'[c] \in {"flag", "clear"}
      BY <1>1, OthersLeaveStamp
    <2>1. Reported(c) => Reported(c)'
      BY <1>1, <2>0, OthersLeaveDog DEF Reported
    <2>2. Examined(c)' => Examined(c)
      BY <1>1, OthersLeaveDog DEF Examined
    <2>3. Overdue(c)' => Overdue(c)
      BY <1>1, OverdueOnlyByTick
    <2>4. in_stall'[c] => in_stall[c]
      BY <1>1, StallFlagOnlyBySwap DEF WatchdogStep
    <2> QED
      BY <2>0, <2>1, <2>2, <2>3, <2>4 DEF Alarm
  <1>2. CASE WatchdogTick
    <2>1. UNCHANGED <<in_stall, stalls, last_recv, reader>> /\ ~Examined(c)'
      BY <1>2 DEF WatchdogTick, Examined, conn, tasks
    <2> QED
      BY <2>1 DEF Alarm, Reported
  <1>3. CASE WatchdogSleeps
    <2>1. /\ UNCHANGED <<in_stall, stalls, wd_now, connected, disconnected, first_recv, last_recv,
                         reader>>
          /\ Examined(c)
      BY <1>3 DEF WatchdogSleeps, Examined, conn, tasks
    <2> QED
      BY <2>1 DEF Alarm, Reported, Overdue
  <1>4. CASE WatchdogLoad
    <2> DEFINE d == Min(wd_todo)
               gap == IF wd_now > last_recv[d] THEN wd_now - last_recv[d] ELSE 0
    <2>1. /\ UNCHANGED <<in_stall, stalls, watchdog, wd_now, connected, disconnected,
                         first_recv, last_recv, reader>>
          /\ watchdog = "pass" /\ wd_gap = 0 /\ wd_todo' = wd_todo \ {d}
          /\ IF connected[d] /\ ~disconnected[d] /\ first_recv[d] /\ gap > StallTicks
             THEN wd_gap' = gap /\ wd_flow' = d
             ELSE UNCHANGED <<wd_gap, wd_flow>>
      BY <1>4 DEF WatchdogLoad, conn, tasks
    <2> HIDE DEF d
    <2>2. (Overdue(c) /\ c = d) => gap > StallTicks /\ gap > 0
      BY TimesAssumption DEF Overdue, TypeOK
    <2>3. (Overdue(c) /\ Examined(c)') => Examined(c)
      BY <2>1, <2>2 DEF Examined, Overdue
    <2> QED
      BY <2>1, <2>3 DEF Alarm, Reported, Overdue
  <1>5. CASE WatchdogSwap
    <2>1. /\ UNCHANGED <<watchdog, wd_todo, wd_now, connected, disconnected, first_recv, last_recv,
                         reader>>
          /\ watchdog = "pass" /\ wd_gap > 0 /\ wd_gap' = 0
          /\ in_stall' = [in_stall EXCEPT ![wd_flow] = TRUE]
          /\ stalls' = IF in_stall[wd_flow] THEN stalls
                       ELSE stalls \cup {[conn_id |-> wd_flow, at |-> wd_now, gap |-> wd_gap]}
      BY <1>5 DEF WatchdogSwap, tasks
    <2>2. CASE c = wd_flow
      <3>1. CASE in_stall[wd_flow]
        <4>1. Reported(c)' = Reported(c)
          BY <2>1, <3>1 DEF Reported
        <4>2. Overdue(c) => reader[c] \notin {"flag", "clear"}
          BY TimesAssumption DEF Overdue, Stamped, Pass, TypeOK
        <4> QED BY <2>1, <2>2, <3>1, <4>1, <4>2 DEF Alarm, Overdue
      <3>2. CASE ~in_stall[wd_flow]
        <4>1. [conn_id |-> wd_flow, at |-> wd_now, gap |-> wd_gap] \in stalls'
          BY <2>1, <3>2
        <4>2. wd_now >= last_recv'[c]
          BY <2>1 DEF Pass, Stamped, TypeOK
        <4> QED BY <2>2, <4>1, <4>2 DEF Alarm, Reported
      <3> QED BY <3>1, <3>2
    <2>3. CASE c # wd_flow
      <3>1. Reported(c) => Reported(c)'
        BY <2>1 DEF Reported
      <3>2. in_stall'[c] = in_stall[c] /\ (Examined(c)' => Examined(c))
        BY <2>1, <2>3 DEF TypeOK, Examined
      <3> QED
        BY <2>1, <3>1, <3>2 DEF Alarm, Overdue
    <2> QED BY <2>2, <2>3
  <1> QED
    BY <1>0, <1>1, <1>2, <1>3, <1>4, <1>5 DEF WatchdogStep

-----------------------------------------------------------------------------
\* The times of a run, in their order.
LEMMA NeverIsLate == Never \in Nat /\ Deadline \in Nat /\ Never > Deadline /\ Horizon \in Nat
  BY TimesAssumption DEF Never, Horizon

\* No flow has ended at the start.
LEMMA EndedInit == Init => \A c \in Conns : Ended(c)
  BY NeverIsLate DEF Init, Ended

\* Time does not pass while a task has a broken stream to notice, so the deadline
\* test of both tasks falls at the tick of the break.
LEMMA EndedStep ==
  ASSUME TypeOK, Wind, \A d \in Conns : Ended(d), [Next]_vars, NEW c \in Conns
  PROVE  Ended(c)'
  <1> USE NeverIsLate DEF TypeOK, ReaderPCs, WriterPCs, Reader, Writer, tasks, conn, counters,
      wire, MidStream
  <1>0. Ended(c)
    OBVIOUS
  <1>1. ASSUME NEW d \in Conns, ReaderStep(d) PROVE Ended(c)'
    <2>1. CASE ConnectFails(d)
      BY <1>0, <2>1 DEF ConnectFails, Ended
    <2>2. CASE Connects(d)
      BY <1>0, <2>2 DEF Connects, Ended
    <2>3. CASE StampConnect(d)
      BY <1>0, <2>3 DEF StampConnect, Ended
    <2>4. CASE SpawnWriter(d)
      BY <1>0, <2>4 DEF SpawnWriter, Ended
    <2>5. CASE ReadFrame(d) \/ StampFrame(d)
      BY <1>0, <2>5 DEF ReadFrame, StampFrame, Ended
    <2>6. CASE FlagFirst(d) \/ ClearStall(d)
      BY <1>0, <2>6 DEF FlagFirst, ClearStall, Ended
    <2>7. CASE ReadEnds(d)
      BY <1>0, <2>7 DEF ReadEnds, Ended
    <2>8. CASE ReaderCheck(d)
      BY <1>0, <2>8 DEF ReaderCheck, Ended
    <2>9. CASE ReaderSwap(d)
      BY <1>0, <2>9 DEF ReaderSwap, Ended
    <2>10. CASE ReaderCount(d)
      BY <1>0, <2>10 DEF ReaderCount, Ended
    <2>11. CASE FlowEnds(d)
      BY <1>0, <2>11 DEF FlowEnds, Ended
    <2> QED
      BY <1>1, <2>1, <2>2, <2>3, <2>4, <2>5, <2>6, <2>7, <2>8, <2>9, <2>10, <2>11
      DEF ReaderStep
  <1>2. ASSUME NEW d \in Conns, WriterStep(d) PROVE Ended(c)'
    <2>1. CASE BeginWrite(d) \/ Write(d)
      BY <1>0, <2>1 DEF BeginWrite, Write, Ended, Awake
    <2>2. CASE WriteFails(d)
      BY <1>0, <2>2 DEF WriteFails, Ended
    <2>3. CASE WriterShuts(d)
      BY <1>0, <2>3 DEF WriterShuts, Ended
    <2>4. CASE WriterCheck(d)
      BY <1>0, <2>4 DEF WriterCheck, Ended
    <2>5. CASE WriterSwap(d)
      BY <1>0, <2>5 DEF WriterSwap, Ended
    <2>6. CASE WriterCount(d)
      BY <1>0, <2>6 DEF WriterCount, Ended
    <2>7. CASE WriterEnds(d)
      BY <1>0, <2>7 DEF WriterEnds, Ended
    <2> QED
      BY <1>2, <2>1, <2>2, <2>3, <2>4, <2>5, <2>6, <2>7 DEF WriterStep
  <1>3. ASSUME NEW d \in Conns, PathStep(d) PROVE Ended(c)'
    <2>1. CASE Relay(d) \/ Silence(d) \/ Resume(d)
      BY <1>0, <2>1 DEF Relay, Silence, Resume, Ended
    <2>2. CASE EchoCloses(d)
      BY <1>0, <2>2 DEF EchoCloses, Ended
    <2>3. CASE Break(d)
      BY <1>0, <2>3, FirstBreak DEF Break, Ended, Wind
    <2>4. CASE Garble(d)
      BY <1>0, <2>4, FirstBreak DEF Garble, Ended, Wind
    <2> QED BY <1>3, <2>1, <2>2, <2>3, <2>4 DEF PathStep
  <1>4. CASE WatchdogStep
    BY <1>0, <1>4 DEF WatchdogStep, WatchdogTick, WatchdogLoad, WatchdogSwap, WatchdogSleeps, Ended
  <1>5. CASE WindDown \/ Finalize
    BY <1>0, <1>5 DEF WindDown, Finalize, Ended
  <1>6. CASE Advance
    <2>1. ~ReaderBusy(c) /\ ~WriterBusy(c)
      BY <1>6 DEF Advance, Quiet
    <2>2. /\ reader[c] \in {"connect", "read", "join", "end"}
          /\ reader[c] = "read" => link[c] \notin {"closed", "reset"} /\ ~garbled[c]
          /\ writer[c] \in {"unborn", "loop", "write", "end"}
      BY <2>1 DEF ReaderBusy, WriterBusy
    <2> QED
      BY <1>0, <1>6, <2>2 DEF Advance, Ended
  <1>7. CASE UNCHANGED vars
    BY <1>0, <1>7 DEF vars, Ended
  <1> QED
    BY <1>1, <1>2, <1>3, <1>4, <1>5, <1>6, <1>7 DEF Next

\* winding_down is set once and never reset.
LEMMA WindStep ==
  ASSUME TypeOK, Wind, [Next]_vars PROVE Wind'
  <1> USE DEF TypeOK, counters
  <1>1. CASE WindDown \/ Finalize \/ Advance
    BY <1>1, NeverIsLate DEF WindDown, Finalize, Advance, Wind
  <1>2. CASE ~(WindDown \/ Finalize \/ Advance)
    <2>1. ASSUME NEW d \in Conns, ReaderStep(d) PROVE UNCHANGED <<now, main, winding_down>>
      BY <2>1 DEF ReaderStep, ConnectFails, Connects, StampConnect, SpawnWriter, ReadFrame,
         StampFrame, FlagFirst, ClearStall, ReadEnds, ReaderCheck, ReaderSwap, ReaderCount,
         FlowEnds
    <2>2. ASSUME NEW d \in Conns, WriterStep(d) PROVE UNCHANGED <<now, main, winding_down>>
      BY <2>2 DEF WriterStep, BeginWrite, Write, WriteFails, WriterShuts, WriterCheck,
         WriterSwap, WriterCount, WriterEnds
    <2>3. ASSUME NEW d \in Conns, PathStep(d) PROVE UNCHANGED <<now, main, winding_down>>
      BY <2>3 DEF PathStep, Relay, EchoCloses, Silence, Resume, Break, Garble
    <2>4. CASE WatchdogStep
      BY <2>4 DEF WatchdogStep, WatchdogTick, WatchdogLoad, WatchdogSwap, WatchdogSleeps, Wind
    <2>5. CASE UNCHANGED vars
      BY <2>5 DEF vars, Wind
    <2> QED
      BY <1>2, <2>1, <2>2, <2>3, <2>4, <2>5 DEF Next, Wind
  <1> QED BY <1>1, <1>2

-----------------------------------------------------------------------------
(* The steps, for the clean paths.                                         *)

\* A path that was tampered with is never clean again.
LEMMA CleanOnlyLost ==
  ASSUME TypeOK, Wind, [Next]_vars, NEW c \in Conns, Clean(c)'
  PROVE  Clean(c)
  <1> USE NeverIsLate DEF TypeOK, wire, Clean
  <1>1. ASSUME NEW d \in Conns, ReaderStep(d) PROVE UNCHANGED <<silenced, broke_at>>
    BY <1>1 DEF ReaderStep, ConnectFails, Connects, StampConnect, SpawnWriter, ReadFrame,
       StampFrame, FlagFirst, ClearStall, ReadEnds, ReaderCheck, ReaderSwap, ReaderCount,
       FlowEnds
  <1>2. ASSUME NEW d \in Conns, WriterStep(d) PROVE UNCHANGED <<silenced, broke_at>>
    BY <1>2 DEF WriterStep, BeginWrite, Write, WriteFails, WriterShuts, WriterCheck,
       WriterSwap, WriterCount, WriterEnds
  <1>3. ASSUME NEW d \in Conns, PathStep(d) PROVE Clean(c)
    <2>1. CASE Break(d) \/ Garble(d)
      BY <2>1, FirstBreak DEF Break, Garble, Wind, Never
    <2>2. CASE Relay(d) \/ EchoCloses(d) \/ Silence(d) \/ Resume(d)
      BY <2>2 DEF Relay, EchoCloses, Silence, Resume
    <2> QED BY <1>3, <2>1, <2>2 DEF PathStep
  <1>4. CASE WatchdogStep \/ WindDown \/ Finalize \/ Advance \/ UNCHANGED vars
    BY <1>4 DEF WatchdogStep, WatchdogTick, WatchdogLoad, WatchdogSwap, WatchdogSleeps,
       WindDown, Finalize, Advance, vars
  <1> QED
    BY <1>1, <1>2, <1>3, <1>4 DEF Next

\* No step loses a frame of a clean path.
LEMMA EchoedStep ==
  ASSUME TypeOK, Wind, [Next]_vars, NEW c \in Conns, Ended(c), Echoed(c)
  PROVE  Echoed(c)'
  <1> SUFFICES ASSUME Clean(c)' PROVE Echoed(c)'
    BY DEF Echoed
  <1>0. Clean(c)
    BY CleanOnlyLost
  <1>g. ~garbled[c]
    BY <1>0, NeverIsLate DEF Clean, Ended, Wind, Never, TypeOK
  <1> USE <1>0, WindowAssumption DEF TypeOK, ReaderPCs, WriterPCs, Reader, Writer,
      tasks, conn, counters, wire, Echoed
  <1>1. ASSUME NEW d \in Conns, ReaderStep(d) PROVE Echoed(c)'
    <2>1. CASE ConnectFails(d)
      BY <2>1 DEF ConnectFails, Ended
    <2>2. CASE Connects(d)
      BY <2>2 DEF Connects, Ended
    <2>3. CASE StampConnect(d) \/ SpawnWriter(d)
      BY <2>3 DEF StampConnect, SpawnWriter, Ended
    <2>5. CASE ReadFrame(d)
      BY <2>5 DEF ReadFrame
    <2>6. CASE StampFrame(d) \/ FlagFirst(d) \/ ClearStall(d)
      BY <2>6 DEF StampFrame, FlagFirst, ClearStall
    <2>7. CASE ReadEnds(d)
      BY <1>g, <2>7 DEF ReadEnds
    <2>8. CASE ReaderCheck(d) \/ ReaderSwap(d)
      BY <2>8 DEF ReaderCheck, ReaderSwap
    <2>10. CASE ReaderCount(d) \/ FlowEnds(d)
      BY <2>10 DEF ReaderCount, FlowEnds
    <2> QED
      BY <1>1, <2>1, <2>2, <2>3, <2>5, <2>6, <2>7, <2>8, <2>10
      DEF ReaderStep
  <1>2. ASSUME NEW d \in Conns, WriterStep(d) PROVE Echoed(c)'
    <2>1. CASE BeginWrite(d)
      BY <2>1 DEF BeginWrite
    <2>2. CASE Write(d)
      <3>1. CASE d # c
        BY <2>2, <3>1 DEF Write
      <3>2. CASE d = c
        <4>1. writer[c] = "write" /\ link[c] = "open"
          BY <2>2, <3>2 DEF Write
        <4>2. reader[c] \notin {"check", "swap", "count", "join", "end"}
          BY <1>g, <4>1 DEF Ended
        <4> QED BY <2>2, <3>2, <4>1, <4>2 DEF Write
      <3> QED BY <3>1, <3>2
    <2>3. CASE WriteFails(d) \/ WriterShuts(d)
      BY <2>3 DEF WriteFails, WriterShuts
    <2>4. CASE WriterCheck(d) \/ WriterSwap(d)
      BY <2>4 DEF WriterCheck, WriterSwap
    <2>6. CASE WriterCount(d) \/ WriterEnds(d)
      BY <2>6 DEF WriterCount, WriterEnds
    <2> QED
      BY <1>2, <2>1, <2>2, <2>3, <2>4, <2>6 DEF WriterStep
  <1>3. ASSUME NEW d \in Conns, PathStep(d) PROVE Echoed(c)'
    <2>1. CASE Relay(d)
      BY <2>1 DEF Relay, Ended
    <2>2. CASE EchoCloses(d)
      BY <2>2 DEF EchoCloses
    <2>3. CASE Silence(d) \/ Resume(d)
      BY <2>3 DEF Silence, Resume, Clean
    <2>4. CASE Break(d)
      <3>1. d # c
        BY <2>4, NeverIsLate, FirstBreak DEF Break, Clean, Wind, Never
      <3> QED
        BY <2>4, <3>1 DEF Break
    <2>5. CASE Garble(d)
      BY <2>5 DEF Garble
    <2> QED BY <1>3, <2>1, <2>2, <2>3, <2>4, <2>5 DEF PathStep
  <1>4. CASE WatchdogStep \/ WindDown \/ Finalize \/ Advance
    BY <1>4 DEF WatchdogStep, WatchdogTick, WatchdogLoad, WatchdogSwap, WatchdogSleeps,
       WindDown, Finalize, Advance
  <1>7. CASE UNCHANGED vars
    BY <1>7 DEF vars
  <1> QED
    BY <1>1, <1>2, <1>3, <1>4, <1>7 DEF Next

\* The writer never sleeps for longer than its pace.
LEMMA WakeBound ==
  ASSUME now \in Nat
  PROVE  Min({now + Pace, Horizon}) \in Nat /\ Min({now + Pace, Horizon}) <= now + Pace
  <1>1. now + Pace \in Nat /\ Horizon \in Nat
    BY TimesAssumption DEF Horizon
  <1> DEFINE a == now + Pace
  <1> HIDE DEF a
  <1>3. Min({a, Horizon}) = IF a <= Horizon THEN a ELSE Horizon
    BY <1>1, MinOfTwo DEF a
  <1> QED BY <1>1, <1>3 DEF a

\* The clock moves only when a clean path is empty and its writer asleep, so the
\* silence is bounded by the sleep.
LEMMA PacedStep ==
  ASSUME TypeOK, Wind, [Next]_vars, NEW c \in Conns, Stamped(c), Ended(c), Echoed(c), Paced(c),
         ConnectingIsDown
  PROVE  Paced(c)'
  <1> USE TimesAssumption, WindowAssumption DEF TypeOK, ReaderPCs, WriterPCs, Reader, Writer,
      tasks, conn, counters, wire, Paced
  <1>0. Clean(c)' => Clean(c)
    BY CleanOnlyLost
  <1>a. Pause \in Nat /\ Pause >= Pace /\ Pause >= 1
    BY DEF Pause
  <1>1. ASSUME NEW d \in Conns, ReaderStep(d) PROVE Paced(c)'
    <2>1. CASE ConnectFails(d)
      BY <1>0, <2>1 DEF ConnectFails, ConnectingIsDown
    <2>2. CASE Connects(d)
      BY <1>0, <2>2 DEF Connects
    <2>3. CASE StampConnect(d)
      BY <1>0, <2>3 DEF StampConnect
    <2>4. CASE SpawnWriter(d)
      BY <1>0, <1>a, <2>4 DEF SpawnWriter, Stamped, Ended
    <2>5. CASE ReadFrame(d)
      BY <1>0, <2>5 DEF ReadFrame
    <2>6. CASE StampFrame(d)
      BY <1>0, <1>a, <2>6 DEF StampFrame
    <2>7. CASE FlagFirst(d) \/ ClearStall(d)
      BY <1>0, <2>7 DEF FlagFirst, ClearStall
    <2>8. CASE ReadEnds(d) \/ ReaderCheck(d)
      BY <1>0, <2>8 DEF ReadEnds, ReaderCheck
    <2>10. CASE ReaderSwap(d) \/ ReaderCount(d) \/ FlowEnds(d)
      BY <1>0, <2>10 DEF ReaderSwap, ReaderCount, FlowEnds
    <2> QED
      BY <1>1, <2>1, <2>2, <2>3, <2>4, <2>5, <2>6, <2>7, <2>8, <2>10
      DEF ReaderStep
  <1>2. ASSUME NEW d \in Conns, WriterStep(d) PROVE Paced(c)'
    <2>1. CASE BeginWrite(d)
      BY <1>0, <2>1 DEF BeginWrite
    <2>2. CASE Write(d)
      <3>1. Min({now + Pace, Horizon}) \in Nat /\ Min({now + Pace, Horizon}) <= now + Pace
        BY WakeBound
      <3> QED
        BY <1>0, <2>2, <3>1 DEF Write
    <2>3. CASE WriteFails(d) \/ WriterShuts(d)
      BY <1>0, <2>3 DEF WriteFails, WriterShuts
    <2>4. CASE WriterCheck(d) \/ WriterSwap(d)
      BY <1>0, <2>4 DEF WriterCheck, WriterSwap
    <2>6. CASE WriterCount(d) \/ WriterEnds(d)
      BY <1>0, <2>6 DEF WriterCount, WriterEnds
    <2> QED
      BY <1>2, <2>1, <2>2, <2>3, <2>4, <2>6 DEF WriterStep
  <1>3. ASSUME NEW d \in Conns, PathStep(d) PROVE Paced(c)'
    <2>1. CASE Relay(d)
      BY <1>0, <2>1 DEF Relay
    <2>2. CASE EchoCloses(d) \/ Break(d)
      BY <1>0, <2>2 DEF EchoCloses, Break
    <2>3. CASE Silence(d) \/ Resume(d) \/ Garble(d)
      BY <1>0, <2>3 DEF Silence, Resume, Garble
    <2> QED BY <1>3, <2>1, <2>2, <2>3 DEF PathStep
  <1>4. CASE WatchdogStep \/ WindDown \/ Finalize
    BY <1>0, <1>4 DEF WatchdogStep, WatchdogTick, WatchdogLoad, WatchdogSwap, WatchdogSleeps,
       WindDown, Finalize
  <1>5. CASE Advance
    <2>1. /\ now' = now + 1 /\ ~ReaderBusy(c) /\ ~WriterBusy(c) /\ ~PathBusy(c)
          /\ UNCHANGED <<wake, link, connected, reader, writer, pipe, ready, last_recv,
                         silenced, broke_at>>
      BY <1>5 DEF Advance, Quiet
    <2>2. SUFFICES ASSUME Clean(c), link[c] = "open", reader[c] \notin {"stamp", "spawn"}
                   PROVE  /\ last_recv[c] + Pace >= wake[c]
                          /\ now + 1 < Deadline => now + 1 <= last_recv[c] + Pause
      BY <1>0, <2>1
    <2>3. reader[c] = "read" /\ ready[c] = 0
      <3>1. ~garbled[c]
        BY <2>2, NeverIsLate DEF Clean, Ended, Wind, Never
      <3> QED BY <2>1, <2>2, <3>1 DEF ReaderBusy, Ended
    <2>4. pipe[c] = 0
      BY <2>1, <2>2, <2>3 DEF PathBusy, Echoed
    <2>5. last_recv[c] + Pace >= wake[c]
      BY <2>2, <2>3, <2>4
    <2>6. now < Deadline => writer[c] \in {"loop", "write"}
      BY <2>2, <2>3 DEF Ended
    <2>7. writer[c] \in {"loop", "write"} => now < wake[c] \/ now + Pace <= wake[c]
      BY <2>1, <2>4 DEF WriterBusy, Awake
    <2>8. now + 1 < Deadline => now + 1 <= last_recv[c] + Pause
      BY <2>5, <2>6, <2>7 DEF Pause
    <2> QED BY <2>5, <2>8
  <1>7. CASE UNCHANGED vars
    BY <1>0, <1>7 DEF vars
  <1> QED
    BY <1>1, <1>2, <1>3, <1>4, <1>5, <1>7 DEF Next

\* So a pass finds no clean flow silent for longer than that.
LEMMA BlamedStep ==
  ASSUME TypeOK, Wind, [Next]_vars, Pass, Blamed,
         \A c \in Conns : Stamped(c) /\ Ended(c) /\ Echoed(c) /\ Paced(c)
  PROVE  Blamed'
  <1>0. \A d \in Conns : Clean(d)' => Clean(d)
    BY CleanOnlyLost
  <1>1. \A e \in stalls : Clean(e.conn_id)' => e.gap <= Pause
    BY <1>0 DEF Blamed, TypeOK
  <1>2. CASE ~WatchdogStep
    <2>1. UNCHANGED <<stalls, wd_gap, wd_flow>>
      BY <1>2, OthersLeaveDog
    <2>2. (wd_gap > 0 /\ Clean(wd_flow))' => wd_gap > 0 /\ Clean(wd_flow)
      <3>1. PICK f : f = wd_flow
        OBVIOUS
      <3>2. wd_gap > 0 => (Clean(f)' => Clean(f))
        BY <1>0, <3>1 DEF TypeOK
      <3> QED BY <2>1, <3>1, <3>2 DEF Clean
    <2> QED BY <1>1, <2>1, <2>2 DEF Blamed
  <1>3. CASE WatchdogTick \/ WatchdogSleeps
    <2>1. UNCHANGED <<stalls, wd_gap>> /\ wd_gap = 0
      BY <1>3 DEF WatchdogTick, WatchdogSleeps, Pass
    <2> QED BY <1>1, <2>1 DEF Blamed
  <1>4. CASE WatchdogLoad
    <2>1. PICK c \in Conns : c = Min(wd_todo)
      BY <1>4, MinIn, ConnsAssumption DEF WatchdogLoad, TypeOK
    <2> DEFINE gap == IF wd_now > last_recv[c] THEN wd_now - last_recv[c] ELSE 0
    <2>2. /\ wd_gap = 0 /\ stalls' = stalls /\ watchdog = "pass"
          /\ UNCHANGED <<silenced, broke_at>>
          /\ \/ UNCHANGED wd_gap
             \/ /\ connected[c] /\ first_recv[c] /\ gap > StallTicks
                /\ wd_gap' = gap /\ wd_flow' = c
      BY <1>4, <2>1 DEF WatchdogLoad, wire
    <2>3. wd_now = now /\ now < Deadline
      BY <2>2 DEF Pass
    <2>4. ASSUME connected[c], first_recv[c], gap > StallTicks, Clean(c) PROVE gap <= Pause
      <3>1. link[c] = "open"
        BY <2>1, <2>3, <2>4, NeverIsLate DEF Ended, Echoed, Paced, TypeOK, Clean
      <3>2. reader[c] \notin {"stamp", "spawn"}
        BY <2>1, <2>4 DEF Stamped
      <3>3. now <= last_recv[c] + Pause
        BY <2>1, <2>3, <2>4, <3>1, <3>2 DEF Paced
      <3>4. Pause \in Nat
        BY TimesAssumption DEF Pause
      <3> QED
        BY <2>1, <2>3, <2>4, <3>3, <3>4, TimesAssumption DEF TypeOK
    <2>5. (wd_gap > 0 /\ Clean(wd_flow))' => wd_gap' <= Pause
      <3>1. CASE UNCHANGED wd_gap
        BY <2>2, <3>1
      <3>2. CASE /\ connected[c] /\ first_recv[c] /\ gap > StallTicks
                 /\ wd_gap' = gap /\ wd_flow' = c
        <4>1. Clean(wd_flow)' => Clean(c)
          BY <2>2, <3>2 DEF Clean
        <4> QED BY <2>4, <3>2, <4>1
      <3> QED BY <2>2, <3>1, <3>2
    <2> QED BY <1>1, <2>2, <2>5 DEF Blamed
  <1>5. CASE WatchdogSwap
    <2>1. /\ wd_gap > 0 /\ wd_gap' = 0 /\ UNCHANGED <<silenced, broke_at>>
          /\ \A e \in stalls' : \/ e \in stalls
                                \/ e = [conn_id |-> wd_flow, at |-> wd_now, gap |-> wd_gap]
      BY <1>5 DEF WatchdogSwap, wire
    <2>2. \A e \in stalls' : Clean(e.conn_id)' => e.gap <= Pause
      BY <1>1, <2>1 DEF Blamed, Clean
    <2> QED BY <2>1, <2>2 DEF Blamed
  <1> QED
    BY <1>2, <1>3, <1>4, <1>5 DEF WatchdogStep

-----------------------------------------------------------------------------
\* The start.
LEMMA WholeInit == Init => Whole /\ Fair
  <1> SUFFICES ASSUME Init PROVE Whole /\ Fair
    OBVIOUS
  <1>1. TypeOK /\ Inv /\ \A c \in Conns : Ended(c)
    BY TypeInit, InvInit, EndedInit
  <1>2. Wind
    BY NeverIsLate DEF Init, Wind
  <1>3. Pass /\ StallsReal
    BY DEF Init, Pass, StallsReal
  <1>4. ASSUME NEW c \in Conns PROVE Stamped(c) /\ Alarm(c)
    BY DEF Init, Stamped, Alarm, Overdue
  <1>5. ASSUME NEW c \in Conns PROVE Echoed(c) /\ Paced(c)
    BY TimesAssumption DEF Init, Echoed, Paced
  <1>6. Blamed
    BY DEF Init, Blamed
  <1> QED
    BY <1>1, <1>2, <1>3, <1>4, <1>5, <1>6 DEF Whole, Fair

\* Every step, for all paths ...
LEMMA WholeNext == Whole /\ [Next]_vars => Whole'
  <1> SUFFICES ASSUME Whole, [Next]_vars PROVE Whole'
    OBVIOUS
  <1>1. TypeOK' /\ Inv' /\ Wind'
    BY TypeStep, InvNext, WindStep DEF Whole
  <1>2. ASSUME NEW c \in Conns PROVE Stamped(c)' /\ Ended(c)' /\ Alarm(c)'
    BY <1>2, StampedStep, EndedStep, AlarmStep DEF Whole
  <1>3. Pass' /\ StallsReal'
    BY PassStep DEF Whole
  <1> QED
    BY <1>1, <1>2, <1>3 DEF Whole

\* ... and for the clean ones.
LEMMA FairNext == Whole /\ Fair /\ [Next]_vars => Fair'
  <1> SUFFICES ASSUME Whole, Fair, [Next]_vars PROVE Fair'
    OBVIOUS
  <1>1. ASSUME NEW c \in Conns PROVE Echoed(c)' /\ Paced(c)'
    BY <1>1, EchoedStep, PacedStep DEF Whole, Fair, Inv
  <1>2. Blamed'
    BY BlamedStep DEF Whole, Fair
  <1> QED
    BY <1>1, <1>2 DEF Fair

\* Every reported stall is longer than the threshold, begins at a frame that came
\* back, has none in it and ends no later than its flow, though the watchdog reads
\* last_recv_ms while the reader writes it.
THEOREM StallsAlwaysReal == Spec => []StallsReal
  <1>1. Whole => StallsReal
    BY DEF Whole
  <1> QED BY WholeInit, WholeNext, <1>1, PTL DEF Spec

\* After every pass each overdue flow has a report no older than its last frame,
\* whatever the reader did to in_stall between the load and the swap.
THEOREM StalledFlowsAlwaysReported == Spec => []StalledFlowsReported
  <1>1. Whole => StalledFlowsReported
    BY DEF Whole, StalledFlowsReported, PassOver, Alarm, Examined, Reported
  <1> QED BY WholeInit, WholeNext, <1>1, PTL DEF Spec

\* The finished report counts exactly the flows whose path broke before the
\* deadline: every break is seen, and the half-closes at the deadline are not
\* taken for one.
THEOREM BreaksAlwaysReported == Spec => []BreaksReported
  <1>1. Whole => BreaksReported
    <2> SUFFICES ASSUME Whole, main = "done"
                 PROVE  /\ \A c \in Conns : disconnected[c] <=> broke_at[c] < Deadline
                        /\ midstream_disconnects
                             = Cardinality({c \in Conns : broke_at[c] < Deadline})
      BY DEF BreaksReported
    <2>1. ASSUME NEW c \in Conns
          PROVE  /\ disconnected[c] <=> broke_at[c] < Deadline
                 /\ reader[c] # "count" /\ writer[c] # "count"
      BY DEF Whole, Wind, Ended
    <2>2. ReadersToCount = {} /\ WritersToCount = {}
      BY <2>1 DEF ReadersToCount, WritersToCount
    <2>3. Marked = {c \in Conns : broke_at[c] < Deadline}
      BY <2>1 DEF Marked
    <2>4. midstream_disconnects = Cardinality(Marked)
      BY <2>2, FS_EmptySet DEF Whole, Inv, Disconnects, TasksTyped
    <2> QED
      BY <2>1, <2>3, <2>4
  <1> QED BY WholeInit, WholeNext, <1>1, PTL DEF Spec

\* A flow whose path was left alone is never taken for broken, is blamed for no
\* silence longer than its writer's own sleep, and all it sent is back at the end.
THEOREM CleanPathsStayClean == Spec => []CleanPathIsClean
  <1>1. Whole /\ Fair => CleanPathIsClean
    <2> SUFFICES ASSUME Whole, Fair, NEW c \in Conns, Clean(c)
                 PROVE /\ ~disconnected[c]
                       /\ \A e \in stalls : e.conn_id = c => e.gap <= Pause
                       /\ main = "done" => /\ pipe[c] = 0 /\ ready[c] = 0
                                           /\ bytes_sent[c] = bytes_recv[c]
      BY DEF CleanPathIsClean
    <2>1. ~disconnected[c]
      BY NeverIsLate DEF Whole, Ended, Clean
    <2>2. \A e \in stalls : e.conn_id = c => e.gap <= Pause
      BY DEF Fair, Blamed
    <2>3. ASSUME main = "done" PROVE pipe[c] = 0 /\ ready[c] = 0
      BY <2>3 DEF Whole, Fair, Wind, Ended, Echoed
    <2>4. ASSUME main = "done" PROVE bytes_sent[c] = bytes_recv[c]
      <3>1. bytes_sent[c] <=> bytes_recv[c]
        BY <2>3, <2>4 DEF Fair, Echoed
      <3>2. bytes_sent[c] \in BOOLEAN /\ bytes_recv[c] \in BOOLEAN
        BY DEF Whole, TypeOK
      <3> QED BY <3>1, <3>2
    <2> QED BY <2>1, <2>2, <2>3, <2>4
  <1> QED BY WholeInit, WholeNext, FairNext, <1>1, PTL DEF Spec

\* With a pace within the threshold, as the defaults have it, a path left alone
\* has no stall at all; one tick is the least silence there is.
THEOREM PacedPathsHaveNoStall ==
  ASSUME Pace <= StallTicks, StallTicks > 0
  PROVE  Spec => [](\A c \in Conns : Clean(c) => \A e \in stalls : e.conn_id # c)
  <1>1. Whole /\ Fair => \A c \in Conns : Clean(c) => \A e \in stalls : e.conn_id # c
    <2> SUFFICES ASSUME Whole, Fair, NEW e \in stalls, Clean(e.conn_id) PROVE FALSE
      OBVIOUS
    <2>1. e.gap \in Nat /\ e.gap > StallTicks /\ e.gap <= Pause
      BY DEF Whole, TypeOK, StallsReal, Fair, Blamed
    <2>2. Pause <= StallTicks /\ Pause \in Nat
      BY TimesAssumption DEF Pause
    <2> QED BY <2>1, <2>2, TimesAssumption
  <1> QED BY WholeInit, WholeNext, FairNext, <1>1, PTL DEF Spec
=============================================================================
