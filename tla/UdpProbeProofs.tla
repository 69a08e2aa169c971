--------------------------- MODULE UdpProbeProofs ---------------------------
(***************************************************************************)
(* The books of the UDP probe's datagrams, its stall reports and its       *)
(* account of clean flows, for any number of flows, any timing, any        *)
(* intervals and any number of faults.                                     *)
(***************************************************************************)
EXTENDS UdpProbe, FiniteSetTheorems, WellFoundedInduction, TLAPS

FlowPCs == {"ramp", "stamp", "spawn", "loop", "tick", "count", "join", "end"}

\* What the books need of the types: in particular no count is ever negative.
Counted ==
    /\ flow \in [Conns -> FlowPCs]
    /\ udp_sent \in [Conns -> Nat] /\ udp_recv \in [Conns -> Nat]
    /\ transit \in [Conns -> Nat] /\ inbox \in [Conns -> Nat]
    /\ lost \in [Conns -> Nat] /\ copied \in [Conns -> Nat]

\* One flow's side of ReceiptsConserved.
Balanced(c) ==
    udp_recv[c] + inbox[c] + transit[c] + lost[c]
      = udp_sent[c] + copied[c] + (IF flow[c] = "count" THEN 1 ELSE 0)

Inv == Counted /\ \A c \in Conns : Balanced(c)

books == <<udp_sent, udp_recv, transit, inbox, lost, copied>>

LEMMA InvInit == Init => Inv
  BY DEF Init, Inv, Counted, Balanced, FlowPCs

\* A step that leaves the books, and moves a flow past counting at most.
LEMMA BooksUntouched ==
  ASSUME Inv, UNCHANGED books,
         \/ UNCHANGED flow
         \/ \E c \in Conns, from, to \in FlowPCs \ {"count"} : Flow(c, from, to)
  PROVE  Inv'
  BY DEF Inv, Counted, Balanced, books, Flow

\* A datagram sent is in transit, and still to be counted by the writer.
LEMMA SendStep ==
  ASSUME Inv, NEW c \in Conns, Send(c) \/ CountSent(c) PROVE Inv'
  <1>1. CASE Send(c)
    <2>1. /\ flow[c] = "tick" /\ flow' = [flow EXCEPT ![c] = "count"]
          /\ transit' = [transit EXCEPT ![c] = @ + 1]
          /\ UNCHANGED <<udp_sent, udp_recv, inbox, lost, copied>>
      BY <1>1 DEF Send, Flow, conn
    <2>2. Counted'
      BY <2>1 DEF Inv, Counted, FlowPCs
    <2>3. ASSUME NEW d \in Conns PROVE Balanced(d)'
      BY <2>1 DEF Inv, Counted, Balanced, FlowPCs
    <2> QED BY <2>2, <2>3 DEF Inv
  <1>2. CASE CountSent(c)
    <2>1. /\ flow[c] = "count" /\ flow' = [flow EXCEPT ![c] = "loop"]
          /\ udp_sent' = [udp_sent EXCEPT ![c] = @ + 1]
          /\ UNCHANGED <<udp_recv, transit, inbox, lost, copied>>
      BY <1>2 DEF CountSent, Flow, wire
    <2>2. Counted'
      BY <2>1 DEF Inv, Counted, FlowPCs
    <2>3. ASSUME NEW d \in Conns PROVE Balanced(d)'
      BY <2>1 DEF Inv, Counted, Balanced, FlowPCs
    <2> QED BY <2>2, <2>3 DEF Inv
  <1> QED BY <1>1, <1>2

LEMMA FlowStepKeeps ==
  ASSUME Inv, NEW c \in Conns, FlowStep(c) PROVE Inv'
  <1> USE DEF books, conn, wire, FlowPCs
  <1>1. CASE BindFails(c)
    BY <1>1, BooksUntouched DEF BindFails
  <1>2. CASE Connects(c)
    BY <1>2, BooksUntouched DEF Connects
  <1>3. CASE StampConnect(c)
    BY <1>3, BooksUntouched DEF StampConnect
  <1>4. CASE SpawnReader(c)
    BY <1>4, BooksUntouched DEF SpawnReader
  <1>5. CASE WriterChecks(c)
    <2>1. Flow(c, "loop", "tick") \/ Flow(c, "loop", "join")
      BY <1>5 DEF WriterChecks
    <2> QED BY <1>5, <2>1, BooksUntouched DEF WriterChecks
  <1>6. CASE Send(c) \/ CountSent(c)
    BY <1>6, SendStep
  <1>7. CASE SendFails(c)
    BY <1>7, BooksUntouched DEF SendFails
  <1>8. CASE FlowEnds(c)
    BY <1>8, BooksUntouched DEF FlowEnds
  <1> QED
    BY <1>1, <1>2, <1>3, <1>4, <1>5, <1>6, <1>7, <1>8 DEF FlowStep

LEMMA ReaderStepKeeps ==
  ASSUME Inv, NEW c \in Conns, ReaderStep(c) PROVE Inv'
  <1>1. CASE Receive(c)
    <2>1. /\ inbox[c] > 0 /\ inbox' = [inbox EXCEPT ![c] = @ - 1]
          /\ udp_recv' = [udp_recv EXCEPT ![c] = @ + 1]
          /\ UNCHANGED <<flow, udp_sent, transit, lost, copied>>
      BY <1>1 DEF Receive
    <2>2. Counted'
      BY <2>1 DEF Inv, Counted
    <2>3. ASSUME NEW d \in Conns PROVE Balanced(d)'
      BY <2>1 DEF Inv, Counted, Balanced
    <2> QED BY <2>2, <2>3 DEF Inv
  <1>2. CASE ~Receive(c)
    <2>1. UNCHANGED flow /\ UNCHANGED books
      BY <1>2 DEF ReaderStep, ReceiveStray, Stamp, FlagFirst, ClearStall,
                  ReaderDies, ReadTimesOut, books, conn, wire
    <2> QED BY <2>1, BooksUntouched
  <1> QED BY <1>1, <1>2

\* The path moves, loses or doubles what it holds.
LEMMA PathStepKeeps ==
  ASSUME Inv, NEW c \in Conns, PathStep(c) PROVE Inv'
  <1>1. UNCHANGED <<flow, udp_sent, udp_recv>>
    BY DEF PathStep, Arrive, Lose, Duplicate, Reject, Hold, Resume, tasks, conn
  <1>2. CASE Arrive(c)
    <2>1. /\ transit[c] > 0 /\ transit' = [transit EXCEPT ![c] = @ - 1]
          /\ inbox' = [inbox EXCEPT ![c] = @ + 1]
          /\ UNCHANGED <<lost, copied>>
      BY <1>2 DEF Arrive
    <2>2. Counted'
      BY <1>1, <2>1 DEF Inv, Counted
    <2>3. ASSUME NEW d \in Conns PROVE Balanced(d)'
      BY <1>1, <2>1 DEF Inv, Counted, Balanced
    <2> QED BY <2>2, <2>3 DEF Inv
  <1>3. CASE Lose(c) \/ Reject(c)
    <2>1. /\ transit[c] > 0 /\ transit' = [transit EXCEPT ![c] = @ - 1]
          /\ lost' = [lost EXCEPT ![c] = @ + 1]
          /\ UNCHANGED <<inbox, copied>>
      BY <1>3 DEF Lose, Reject
    <2>2. Counted'
      BY <1>1, <2>1 DEF Inv, Counted
    <2>3. ASSUME NEW d \in Conns PROVE Balanced(d)'
      BY <1>1, <2>1 DEF Inv, Counted, Balanced
    <2> QED BY <2>2, <2>3 DEF Inv
  <1>4. CASE Duplicate(c)
    <2>1. /\ transit' = [transit EXCEPT ![c] = @ + 1]
          /\ copied' = [copied EXCEPT ![c] = @ + 1]
          /\ UNCHANGED <<inbox, lost>>
      BY <1>4 DEF Duplicate
    <2>2. Counted'
      BY <1>1, <2>1 DEF Inv, Counted
    <2>3. ASSUME NEW d \in Conns PROVE Balanced(d)'
      BY <1>1, <2>1 DEF Inv, Counted, Balanced
    <2> QED BY <2>2, <2>3 DEF Inv
  <1>5. CASE Hold(c) \/ Resume(c)
    BY <1>1, <1>5, BooksUntouched DEF Hold, Resume, books
  <1> QED BY <1>2, <1>3, <1>4, <1>5 DEF PathStep

LEMMA OthersKeep ==
  ASSUME Inv, WatchdogStep \/ Sample \/ WindDown \/ Finalize \/ Advance
  PROVE  Inv'
  <1>1. UNCHANGED flow /\ UNCHANGED books
    BY DEF WatchdogStep, WatchdogTick, WatchdogLoad, WatchdogSwap, WatchdogSleeps,
           Sample, WindDown, Finalize, Advance, books, tasks, conn, wire
  <1> QED BY <1>1, BooksUntouched

\* The books balance after every step.
LEMMA InvNext == Inv /\ [Next]_vars => Inv'
  <1> SUFFICES ASSUME Inv, [Next]_vars PROVE Inv'
    OBVIOUS
  <1>1. CASE UNCHANGED vars
    <2>1. UNCHANGED flow /\ UNCHANGED books
      BY <1>1 DEF vars, tasks, conn, wire, books
    <2> QED BY <2>1, BooksUntouched
  <1>2. CASE Next
    BY <1>2, FlowStepKeeps, ReaderStepKeeps, PathStepKeeps, OthersKeep DEF Next
  <1> QED BY <1>1, <1>2

\* The datagrams the probe reports as received are those it sent, less what the
\* path still holds or has lost, whatever the order in which sender and reader
\* count theirs (client.rs:351, 379).
THEOREM ReceiptsAlwaysConserved == Spec => []ReceiptsConserved
  <1>1. Init => Inv
    BY InvInit
  <1>2. Inv => ReceiptsConserved
    BY DEF Inv, Balanced, ReceiptsConserved
  <1> QED BY <1>1, <1>2, InvNext, PTL DEF Spec

-----------------------------------------------------------------------------
(* Stalls and clean flows: what the invariant says.                        *)

\* A reader in its loop, and a writer in its own.
Reading == {"recv", "stamp", "flag", "clear"}
Writing == {"loop", "tick", "count"}

Typed ==
    /\ now \in Nat /\ now <= Horizon
    /\ reader \in [Conns -> Reading \cup {"unborn", "end"}]
    /\ due \in [Conns -> Nat] /\ timer \in [Conns -> Nat] /\ last_recv \in [Conns -> Nat]
    /\ connected \in [Conns -> BOOLEAN] /\ first_recv \in [Conns -> BOOLEAN]
    /\ sockerr \in [Conns -> BOOLEAN] /\ relaying \in [Conns -> BOOLEAN]
    /\ died \in [Conns -> BOOLEAN]
    /\ faults \in [Conns -> Nat] /\ arrived \in [Conns -> SUBSET Nat]

\* What the watchdog keeps, and what it has reported.
DogTyped ==
    /\ stalls \subseteq [conn_id : Conns, at : Nat, gap : Nat]
    /\ wd_now \in Nat /\ wd_gap \in Nat /\ wd_todo \subseteq Conns
    /\ wd_gap > 0 => wd_flow \in Conns
    /\ watchdog = "tick" => wd_gap = 0

\* Where a flow's task and its reader can stand together.
Paired(c) ==
    /\ flow[c] \in {"ramp", "stamp", "spawn"} => reader[c] = "unborn"
    /\ flow[c] \in Writing \cup {"join"} => reader[c] # "unborn"
    /\ flow[c] # "end" => (connected[c] <=> flow[c] # "ramp")
    /\ flow[c] = "end" => IF connected[c] THEN reader[c] = "end" ELSE reader[c] = "unborn"
    /\ reader[c] = "unborn" => transit[c] = 0 /\ arrived[c] = {} /\ ~first_recv[c]

\* What the clock has to do with a flow's steps.
Timely(c) ==
    /\ flow[c] = "ramp" => now <= Stagger(c)
    /\ flow[c] \in {"stamp", "spawn"} => now = Stagger(c)
    /\ flow[c] = "spawn" => last_recv[c] = now
    /\ connected[c] => now >= Stagger(c)
    /\ flow[c] \in Writing => now <= due[c] /\ due[c] <= now + Interval /\ now <= PathMemory
    /\ flow[c] = "tick" => due[c] < Deadline + Interval
    /\ flow[c] \in {"tick", "count"} \/ udp_sent[c] > 0 => Stagger(c) < Deadline
    /\ flow[c] = "join" \/ (flow[c] = "end" /\ connected[c]) => now >= Deadline
    /\ last_recv[c] <= now
    /\ reader[c] = "recv" => timer[c] >= last_recv[c] + Second
    /\ reader[c] = "end" /\ ~died[c] => now >= Deadline

\* What comes to the socket of a flow with a reader is stamped within its tick.
Stamped(c) ==
    /\ \A t \in arrived[c] : t <= now
    /\ reader[c] \in Reading =>
         \A t \in arrived[c] :
           \/ t <= last_recv[c]
           \/ t = now /\ (inbox[c] > 0 \/ reader[c] = "stamp")

\* One report's share of StallsExplained.
Explained(c, at, gap) ==
    \/ died[c]
    \/ \A t \in arrived[c] : t <= at - gap \/ t >= at

\* A pass is one tick of a run that still writes; the gap it holds and those it
\* has reported are explained.
Barks ==
    /\ watchdog = "pass" => wd_now = now /\ now < Deadline
    /\ watchdog = "pass" /\ wd_gap > 0 => Explained(wd_flow, wd_now, wd_gap)
    /\ \A e \in stalls : e.at <= now /\ Explained(e.conn_id, e.at, e.gap)

\* Only a fault loses, doubles or holds a datagram, or puts an error on a socket.
Pure(c) ==
    faults[c] = 0 =>
        lost[c] = 0 /\ copied[c] = 0 /\ relaying[c] /\ ~sockerr[c] /\ ~died[c]

\* The flow's reader is at work and has stamped something within an interval.
Fresh(c) == reader[c] \in Reading /\ last_recv[c] + Interval >= now

\* Nothing of the flow's is on its way, in its socket or in its reader's hand.
Flushed(c) == transit[c] = 0 /\ inbox[c] = 0 /\ reader[c] \in {"recv", "flag", "clear"}

\* A flow nobody tampers with is stamped as often as it sends, so that its reader
\* outlives its writer; and it sends something unless it starts too late.
Smooth(c) ==
    faults[c] = 0 =>
        /\ flow[c] \in Writing =>
             Fresh(c) /\ (Flushed(c) => last_recv[c] + Interval >= due[c])
        /\ flow[c] = "join" => transit[c] = 0 \/ (Fresh(c) /\ now <= PathMemory)
        /\ reader[c] = "end" =>
             transit[c] = 0 /\ inbox[c] = 0 /\ flow[c] \in {"join", "end"}
        /\ udp_sent[c] = 0 =>
             /\ flow[c] = "loop" => now = Stagger(c)
             /\ flow[c] = "join" \/ (flow[c] = "end" /\ connected[c]) => Stagger(c) >= Deadline

\* The watchdog holds and reports gaps only of flows that met a fault.
Unblamed ==
    /\ watchdog = "pass" /\ wd_gap > 0 => faults[wd_flow] > 0
    /\ \A e \in stalls : faults[e.conn_id] > 0

\* The run winds down when its flows have ended.
Joined == main # "join" => \A c \in Conns : flow[c] = "end"

-----------------------------------------------------------------------------
(* Times.                                                                  *)

\* Min picks a least element.
LEMMA MinIn ==
  ASSUME NEW S \in SUBSET Nat, S # {}
  PROVE  Min(S) \in S /\ \A n \in S : Min(S) <= n
  <1> DEFINE R == {ss \in Nat \X Nat : ss[1] < ss[2]}
  <1>1. IsWellFoundedOn(R, Nat)
    BY NatLessThanWellFounded DEF OpToRel
  <1>2. \A x, y \in Nat : y < x => <<y, x>> \in R
    OBVIOUS
  <1> HIDE DEF R
  <1>3. PICK m \in S : \A y \in S : ~(<<y, m>> \in R)
    BY <1>1, WFMin
  <1>4. ASSUME NEW n \in S PROVE m <= n
    <2>1. m \in Nat /\ n \in Nat /\ <<n, m>> \notin R
      BY <1>3
    <2>2. ~(n < m)
      BY <1>2, <2>1
    <2> QED BY <2>1, <2>2
  <1> QED BY <1>4 DEF Min

LEMMA MinOfTwo ==
  ASSUME NEW a \in Nat, NEW b \in Nat
  PROVE  Min({a, b}) = IF a <= b THEN a ELSE b
  <1>1. Min({a, b}) \in {a, b} /\ \A n \in {a, b} : Min({a, b}) <= n
    BY MinIn
  <1> QED BY <1>1

\* The watchdog's gap: saturating_sub.
LEMMA MaxWithZero ==
  ASSUME NEW a \in Int PROVE Max({0, a}) = IF a >= 0 THEN a ELSE 0
  <1>1. \E m \in {0, a} : \A n \in {0, a} : m >= n
    OBVIOUS
  <1>2. Max({0, a}) \in {0, a} /\ \A n \in {0, a} : Max({0, a}) >= n
    BY <1>1, Zenon DEF Max
  <1> QED BY <1>2

\* A finite set of numbers has a greatest: else take a smallest set that has none,
\* and put back the element taken out of it.
LEMMA MaxIn ==
  ASSUME NEW S \in SUBSET Nat, IsFiniteSet(S), S # {}
  PROVE  Max(S) \in S /\ \A n \in S : Max(S) >= n
  <1> DEFINE Top(T) == \E m \in T : \A n \in T : m >= n
             Bad == {k \in Nat : \E T \in SUBSET Nat : /\ IsFiniteSet(T) /\ T # {} /\ ~Top(T)
                                                       /\ Cardinality(T) = k}
  <1>1. Bad = {}
    <2> SUFFICES ASSUME Bad # {} PROVE FALSE
      OBVIOUS
    <2>1. Min(Bad) \in Bad /\ \A k \in Bad : Min(Bad) <= k
      <3>1. Bad \in SUBSET Nat
        OBVIOUS
      <3> HIDE DEF Bad
      <3> QED BY <3>1, MinIn
    <2>2. PICK T \in SUBSET Nat : /\ IsFiniteSet(T) /\ T # {} /\ ~Top(T)
                                  /\ Cardinality(T) = Min(Bad)
      BY <2>1
    <2>3. PICK x \in T : TRUE
      BY <2>2
    <2> DEFINE U == T \ {x}
    <2>4. IsFiniteSet(U) /\ Cardinality(U) = Cardinality(T) - 1 /\ Cardinality(T) \in Nat
          /\ Cardinality(U) \in Nat
      BY <2>2, <2>3, FS_RemoveElement, FS_CardinalityType
    <2>5. Cardinality(U) \notin Bad
      <3> HIDE DEF Bad
      <3> QED BY <2>1, <2>2, <2>4
    <2>6. U = {} \/ Top(U)
      BY <2>4, <2>5
    <2>7. CASE U = {}
      <3>1. \A n \in T : n = x
        BY <2>7
      <3> QED BY <2>2, <2>3, <3>1
    <2>8. CASE Top(U)
      <3>1. PICK m \in U : \A n \in U : m >= n
        BY <2>8
      <3>2. \A n \in T : n = x \/ n \in U
        OBVIOUS
      <3>3. \E y \in T : y >= x /\ y >= m
        <4>1. x \in Nat /\ m \in Nat /\ m \in T
          BY <2>3
        <4> QED BY <2>3, <4>1
      <3>4. PICK y \in T : y >= x /\ y >= m
        BY <3>3
      <3>5. \A n \in T : y >= n
        BY <2>2, <3>1, <3>2, <3>4
      <3> QED BY <2>2, <3>5
    <2> QED BY <2>6, <2>7, <2>8
  <1>2. Cardinality(S) \in Nat
    BY FS_CardinalityType
  <1>3. Top(S)
    BY <1>1, <1>2
  <1> QED BY <1>3 DEF Max

\* The times of a run, in their order.
LEMMA Clock ==
  /\ Deadline \in Nat /\ PathMemory \in Nat /\ Horizon \in Nat
  /\ PathMemory >= Deadline + Interval /\ PathMemory < Horizon
  /\ \A c \in Conns : Stagger(c) \in Nat /\ Stagger(c) <= PathMemory
  <1>1. Deadline \in Nat
    <2>1. Second \in Nat /\ Duration \in Nat
      BY TimesAssumption
    <2> QED BY <2>1 DEF Deadline
  <1>2. ASSUME NEW c \in Conns PROVE Stagger(c) \in Nat
    <2>1. Cardinality(Conns) \in Nat \ {0}
      BY ConnsAssumption, FS_CardinalityType, FS_EmptySet
    <2>2. c \in Nat /\ Ramp \in Nat
      BY ConnsAssumption, TimesAssumption
    <2>3. Ramp * c \in Nat
      BY <2>2
    <2>4. \A a \in Nat, n \in Nat \ {0} : a \div n \in Nat
      OBVIOUS
    <2> QED BY <2>1, <2>3, <2>4 DEF Stagger
  <1> DEFINE S == {Stagger(c) : c \in Conns} \cup {Deadline}
  <1>3. S \in SUBSET Nat /\ S # {} /\ IsFiniteSet(S)
    <2>1. IsFiniteSet({Stagger(c) : c \in Conns})
      <3> DEFINE f == [c \in Conns |-> Stagger(c)]
      <3>1. f \in Surjection(Conns, {Stagger(c) : c \in Conns})
        BY DEF Surjection
      <3> QED BY <3>1, ConnsAssumption, FS_Surjection
    <2> QED BY <1>1, <1>2, <2>1, FS_AddElement
  <1>4. LastStart \in S /\ \A n \in S : LastStart >= n
    <2> HIDE DEF S
    <2>1. Max(S) \in S /\ \A n \in S : Max(S) >= n
      BY <1>3, MaxIn
    <2> QED BY <2>1 DEF LastStart, S
  <1>5. /\ LastStart \in Nat /\ LastStart >= Deadline
        /\ \A c \in Conns : LastStart >= Stagger(c)
    BY <1>3, <1>4
  <1> QED BY <1>1, <1>2, <1>5, TimesAssumption DEF PathMemory, Horizon
-----------------------------------------------------------------------------
(* The steps.                                                              *)

\* What is flow c's own stays as it is, and the clock too.
Untouched(c) ==
    /\ now' = now /\ flow'[c] = flow[c] /\ reader'[c] = reader[c]
    /\ due'[c] = due[c] /\ timer'[c] = timer[c]
    /\ connected'[c] = connected[c] /\ first_recv'[c] = first_recv[c]
    /\ last_recv'[c] = last_recv[c] /\ udp_sent'[c] = udp_sent[c]
    /\ transit'[c] = transit[c] /\ inbox'[c] = inbox[c] /\ sockerr'[c] = sockerr[c]
    /\ relaying'[c] = relaying[c] /\ lost'[c] = lost[c] /\ copied'[c] = copied[c]
    /\ faults'[c] = faults[c] /\ died'[c] = died[c] /\ arrived'[c] = arrived[c]

Own(c) == FlowStep(c) \/ ReaderStep(c) \/ PathStep(c)

\* The writer's next tick is never in the past.
LEMMA Rescheduled ==
  ASSUME Typed, NEW c \in Conns, now >= due[c],
         due' = [due EXCEPT ![c] = Min({@ + Interval, Horizon})]
  PROVE  /\ due' \in [Conns -> Nat] /\ due'[c] <= due[c] + Interval
         /\ now <= due[c] => now <= due'[c]
  <1>1. due[c] + Interval \in Nat /\ Horizon \in Nat
    BY Clock, TimesAssumption DEF Typed
  <1>2. Min({due[c] + Interval, Horizon})
          = IF due[c] + Interval <= Horizon THEN due[c] + Interval ELSE Horizon
    BY <1>1, MinOfTwo
  <1>3. due'[c] = IF due[c] + Interval <= Horizon THEN due[c] + Interval ELSE Horizon
    BY <1>2 DEF Typed
  <1>4. due' \in [Conns -> Nat]
    BY <1>1, <1>2 DEF Typed
  <1> QED BY <1>1, <1>3, <1>4, TimesAssumption DEF Typed

LEMMA TypedInit == Init => Typed /\ DogTyped
  BY Clock DEF Init, Typed, DogTyped, Reading

\* The types hold after every step.
LEMMA TypedStep == ASSUME Inv, Typed, [Next]_vars PROVE Typed'
  <1> USE Clock, TimesAssumption DEF Typed, FlowPCs, Reading, Flow, Reader, Fault, conn,
     report, dog, wire, tasks
  <1>1. ASSUME NEW c \in Conns, FlowStep(c) PROVE Typed'
    <2>1. CASE BindFails(c)
      BY <2>1 DEF BindFails
    <2>2. CASE Connects(c)
      BY <2>2 DEF Connects
    <2>3. CASE StampConnect(c)
      BY <2>3 DEF StampConnect
    <2>4. CASE SpawnReader(c)
      BY <2>4 DEF SpawnReader
    <2>5. CASE WriterChecks(c)
      BY <2>5 DEF WriterChecks
    <2>6. CASE Send(c)
      <3>1. now >= due[c] /\ due' = [due EXCEPT ![c] = Min({@ + Interval, Horizon})]
        BY <2>6 DEF Send
      <3>2. /\ due' \in [Conns -> Nat] /\ due'[c] <= due[c] + Interval
            /\ now <= due[c] => now <= due'[c]
        BY <3>1, Rescheduled
      <3> QED BY <2>6, <3>2 DEF Send
    <2>7. CASE CountSent(c)
      BY <2>7 DEF CountSent
    <2>8. CASE SendFails(c)
      <3>1. now >= due[c] /\ due' = [due EXCEPT ![c] = Min({@ + Interval, Horizon})]
        BY <2>8 DEF SendFails
      <3>2. /\ due' \in [Conns -> Nat] /\ due'[c] <= due[c] + Interval
            /\ now <= due[c] => now <= due'[c]
        BY <3>1, Rescheduled
      <3> QED BY <2>8, <3>2 DEF SendFails
    <2>9. CASE FlowEnds(c)
      BY <2>9 DEF FlowEnds
    <2> QED BY <1>1, <2>1, <2>2, <2>3, <2>4, <2>5, <2>6, <2>7, <2>8, <2>9 DEF FlowStep
  <1>2. ASSUME NEW c \in Conns, ReaderStep(c) PROVE Typed'
    <2>1. CASE Receive(c) \/ ReceiveStray(c)
      BY <2>1 DEF Receive, ReceiveStray
    <2>2. CASE Stamp(c)
      BY <2>2 DEF Stamp
    <2>3. CASE FlagFirst(c)
      BY <2>3 DEF FlagFirst
    <2>4. CASE ClearStall(c)
      BY <2>4 DEF ClearStall
    <2>5. CASE ReaderDies(c)
      BY <2>5 DEF ReaderDies
    <2>6. CASE ReadTimesOut(c)
      BY <2>6 DEF ReadTimesOut
    <2> QED BY <1>2, <2>1, <2>2, <2>3, <2>4, <2>5, <2>6 DEF ReaderStep
  <1>3. ASSUME NEW c \in Conns, PathStep(c) PROVE Typed'
    <2>1. CASE Lose(c) \/ Duplicate(c)
      BY <2>1 DEF Lose, Duplicate
    <2>2. CASE Arrive(c)
      BY <2>2 DEF Arrive
    <2>3. CASE Reject(c)
      BY <2>3 DEF Reject
    <2>4. CASE Hold(c)
      BY <2>4 DEF Hold
    <2>5. CASE Resume(c)
      BY <2>5 DEF Resume
    <2> QED BY <1>3, <2>1, <2>2, <2>3, <2>4, <2>5 DEF PathStep
  <1>4. CASE WatchdogStep
    BY <1>4 DEF WatchdogStep, WatchdogTick, WatchdogLoad, WatchdogSwap, WatchdogSleeps
  <1>5. CASE Sample \/ WindDown \/ Finalize \/ UNCHANGED vars
    BY <1>5 DEF Sample, WindDown, Finalize, vars
  <1>6. CASE Advance
    BY <1>6 DEF Advance
  <1> QED BY <1>1, <1>2, <1>3, <1>4, <1>5, <1>6 DEF Next

\* What is not a step of c's own, nor the clock's, leaves what is c's.
LEMMA OthersLeave ==
  ASSUME Inv, Typed, [Next]_vars, NEW c \in Conns, ~Own(c), ~Advance
  PROVE  Untouched(c)
  <1> USE DEF Inv, Counted, Typed, Flow, Reader, Fault, conn, report, dog, wire, tasks,
     Untouched
  <1>1. ASSUME NEW d \in Conns, d # c, FlowStep(d) PROVE Untouched(c)
    <2>1. CASE BindFails(d) \/ Connects(d) \/ StampConnect(d) \/ SpawnReader(d) \/ WriterChecks(d)
      BY <1>1, <2>1 DEF BindFails, Connects, StampConnect, SpawnReader, WriterChecks
    <2>2. CASE Send(d) \/ CountSent(d) \/ SendFails(d) \/ FlowEnds(d)
      BY <1>1, <2>2 DEF Send, CountSent, SendFails, FlowEnds
    <2> QED BY <1>1, <2>1, <2>2 DEF FlowStep
  <1>2. ASSUME NEW d \in Conns, d # c, ReaderStep(d) PROVE Untouched(c)
    <2>1. CASE Receive(d) \/ ReceiveStray(d) \/ Stamp(d) \/ FlagFirst(d)
      BY <1>2, <2>1 DEF Receive, ReceiveStray, Stamp, FlagFirst
    <2>2. CASE ClearStall(d) \/ ReaderDies(d) \/ ReadTimesOut(d)
      BY <1>2, <2>2 DEF ClearStall, ReaderDies, ReadTimesOut
    <2> QED BY <1>2, <2>1, <2>2 DEF ReaderStep
  <1>3. ASSUME NEW d \in Conns, d # c, PathStep(d) PROVE Untouched(c)
    <2>1. CASE Arrive(d) \/ Lose(d) \/ Duplicate(d)
      BY <1>3, <2>1 DEF Arrive, Lose, Duplicate
    <2>2. CASE Reject(d) \/ Hold(d) \/ Resume(d)
      BY <1>3, <2>2 DEF Reject, Hold, Resume
    <2> QED BY <1>3, <2>1, <2>2 DEF PathStep
  <1>4. CASE WatchdogStep
    BY <1>4 DEF WatchdogStep, WatchdogTick, WatchdogLoad, WatchdogSwap, WatchdogSleeps
  <1>5. CASE Sample \/ WindDown \/ Finalize \/ UNCHANGED vars
    BY <1>5 DEF Sample, WindDown, Finalize, vars
  <1> QED BY <1>1, <1>2, <1>3, <1>4, <1>5 DEF Next, Own

\* A reader is born of its flow, and the flow ends only once its reader has.
LEMMA PairedStep ==
  ASSUME Inv, Typed, [Next]_vars, NEW c \in Conns, Paired(c)
  PROVE  Paired(c)'
  <1> USE Clock DEF Inv, Counted, Typed, Paired, FlowPCs, Reading, Writing, Flow, Reader,
     Fault, conn, report, dog, wire, tasks
  <1>1. ASSUME FlowStep(c) PROVE Paired(c)'
    <2>1. CASE BindFails(c) \/ Connects(c) \/ StampConnect(c)
      BY <2>1 DEF BindFails, Connects, StampConnect
    <2>2. CASE SpawnReader(c)
      BY <2>2 DEF SpawnReader
    <2>3. CASE WriterChecks(c)
      <3>1. Flow(c, "loop", "tick") \/ Flow(c, "loop", "join")
        BY <2>3 DEF WriterChecks
      <3> QED BY <2>3, <3>1 DEF WriterChecks
    <2>4. CASE Send(c)
      BY <2>4 DEF Send
    <2>5. CASE CountSent(c)
      BY <2>5 DEF CountSent
    <2>6. CASE SendFails(c)
      BY <2>6 DEF SendFails
    <2>7. CASE FlowEnds(c)
      BY <2>7 DEF FlowEnds
    <2> QED BY <1>1, <2>1, <2>2, <2>3, <2>4, <2>5, <2>6, <2>7 DEF FlowStep
  <1>2. ASSUME ReaderStep(c) PROVE Paired(c)'
    <2>1. CASE ReceiveStray(c) \/ Stamp(c) \/ FlagFirst(c) \/ ClearStall(c)
      BY <2>1 DEF ReceiveStray, Stamp, FlagFirst, ClearStall
    <2>2. CASE Receive(c)
      BY <2>2 DEF Receive
    <2>3. CASE ReaderDies(c)
      BY <2>3 DEF ReaderDies
    <2>4. CASE ReadTimesOut(c)
      BY <2>4 DEF ReadTimesOut
    <2> QED BY <1>2, <2>1, <2>2, <2>3, <2>4 DEF ReaderStep
  <1>3. ASSUME PathStep(c) PROVE Paired(c)'
    <2>1. CASE Lose(c) \/ Duplicate(c) \/ Reject(c)
      BY <2>1 DEF Lose, Duplicate, Reject
    <2>2. CASE Hold(c) \/ Resume(c)
      BY <2>2 DEF Hold, Resume
    <2>3. CASE Arrive(c)
      BY <2>3 DEF Arrive
    <2> QED BY <1>3, <2>1, <2>2, <2>3 DEF PathStep
  <1>4. CASE Advance
    BY <1>4 DEF Advance
  <1>5. CASE ~Own(c) /\ ~Advance
    <2>1. Untouched(c)
      BY <1>5, OthersLeave
    <2> QED BY <2>1 DEF Untouched
  <1> QED BY <1>1, <1>2, <1>3, <1>4, <1>5 DEF Own

\* Time does not pass a tick at which a flow has something to do.
LEMMA TimelyStep ==
  ASSUME Inv, Typed, [Next]_vars, NEW c \in Conns, Paired(c), Timely(c)
  PROVE  Timely(c)'
  <1> USE Clock, TimesAssumption DEF Inv, Counted, Typed, Paired, Timely, FlowPCs, Reading,
     Writing, Flow, Reader, Fault, conn, report, dog, wire, tasks
  <1>1. ASSUME FlowStep(c) PROVE Timely(c)'
    <2>1. CASE BindFails(c)
      BY <2>1 DEF BindFails
    <2>2. CASE Connects(c)
      BY <2>2 DEF Connects
    <2>3. CASE StampConnect(c)
      BY <2>3 DEF StampConnect
    <2>4. CASE SpawnReader(c)
      BY <2>4 DEF SpawnReader
    <2>5. CASE WriterChecks(c)
      BY <2>5 DEF WriterChecks
    <2>6. CASE Send(c)
      <3>1. now >= due[c] /\ due' = [due EXCEPT ![c] = Min({@ + Interval, Horizon})]
        BY <2>6 DEF Send
      <3>2. /\ due' \in [Conns -> Nat] /\ due'[c] <= due[c] + Interval
            /\ now <= due[c] => now <= due'[c]
        BY <3>1, Rescheduled
      <3> QED BY <2>6, <3>2 DEF Send
    <2>7. CASE CountSent(c)
      BY <2>7 DEF CountSent
    <2>8. CASE SendFails(c)
      <3>1. now >= due[c] /\ due' = [due EXCEPT ![c] = Min({@ + Interval, Horizon})]
        BY <2>8 DEF SendFails
      <3>2. /\ due' \in [Conns -> Nat] /\ due'[c] <= due[c] + Interval
            /\ now <= due[c] => now <= due'[c]
        BY <3>1, Rescheduled
      <3> QED BY <2>8, <3>2 DEF SendFails
    <2>9. CASE FlowEnds(c)
      BY <2>9 DEF FlowEnds
    <2> QED BY <1>1, <2>1, <2>2, <2>3, <2>4, <2>5, <2>6, <2>7, <2>8, <2>9 DEF FlowStep
  <1>2. ASSUME ReaderStep(c) PROVE Timely(c)'
    <2>1. CASE Receive(c) \/ ReceiveStray(c)
      BY <2>1 DEF Receive, ReceiveStray
    <2>2. CASE Stamp(c) \/ FlagFirst(c) \/ ClearStall(c)
      BY <2>2 DEF Stamp, FlagFirst, ClearStall
    <2>3. CASE ReaderDies(c)
      BY <2>3 DEF ReaderDies
    <2>4. CASE ReadTimesOut(c)
      BY <2>4 DEF ReadTimesOut
    <2> QED BY <1>2, <2>1, <2>2, <2>3, <2>4 DEF ReaderStep
  <1>3. ASSUME PathStep(c) PROVE Timely(c)'
    <2>1. CASE Arrive(c) \/ Lose(c) \/ Duplicate(c)
      BY <2>1 DEF Arrive, Lose, Duplicate
    <2>2. CASE Reject(c) \/ Hold(c) \/ Resume(c)
      BY <2>2 DEF Reject, Hold, Resume
    <2> QED BY <1>3, <2>1, <2>2 DEF PathStep
  <1>4. CASE Advance
    <2>1. ~FlowBusy(c)
      BY <1>4 DEF Advance, Quiet
    <2> QED BY <1>4, <2>1 DEF Advance, FlowBusy
  <1>5. CASE ~Own(c) /\ ~Advance
    <2>1. Untouched(c)
      BY <1>5, OthersLeave
    <2> QED BY <2>1 DEF Untouched
  <1> QED BY <1>1, <1>2, <1>3, <1>4, <1>5 DEF Own

\* The reader stamps what has come before the clock can move.
LEMMA StampedStep ==
  ASSUME Inv, Typed, [Next]_vars, NEW c \in Conns, Paired(c), Timely(c), Stamped(c)
  PROVE  Stamped(c)'
  <1> USE DEF Inv, Counted, Typed, Paired, Timely, Stamped, FlowPCs, Reading, Writing,
     Flow, Reader, Fault, conn, report, dog, wire, tasks
  <1>1. ASSUME FlowStep(c) PROVE Stamped(c)'
    <2>1. CASE BindFails(c) \/ Connects(c) \/ StampConnect(c)
      BY <2>1 DEF BindFails, Connects, StampConnect
    <2>2. CASE WriterChecks(c) \/ Send(c) \/ CountSent(c)
      BY <2>2 DEF WriterChecks, Send, CountSent
    <2>3. CASE SendFails(c) \/ FlowEnds(c)
      BY <2>3 DEF SendFails, FlowEnds
    <2>4. CASE SpawnReader(c)
      BY <2>4 DEF SpawnReader
    <2> QED BY <1>1, <2>1, <2>2, <2>3, <2>4 DEF FlowStep
  <1>2. ASSUME ReaderStep(c) PROVE Stamped(c)'
    <2>1. CASE Receive(c)
      BY <2>1 DEF Receive
    <2>2. CASE ReceiveStray(c)
      BY <2>2 DEF ReceiveStray
    <2>3. CASE Stamp(c)
      BY <2>3 DEF Stamp
    <2>4. CASE FlagFirst(c)
      BY <2>4 DEF FlagFirst
    <2>5. CASE ClearStall(c)
      BY <2>5 DEF ClearStall
    <2>6. CASE ReaderDies(c)
      BY <2>6 DEF ReaderDies
    <2>7. CASE ReadTimesOut(c)
      BY <2>7 DEF ReadTimesOut
    <2> QED BY <1>2, <2>1, <2>2, <2>3, <2>4, <2>5, <2>6, <2>7 DEF ReaderStep
  <1>3. ASSUME PathStep(c) PROVE Stamped(c)'
    <2>1. CASE Arrive(c)
      BY <2>1 DEF Arrive
    <2>2. CASE Lose(c) \/ Duplicate(c) \/ Reject(c)
      BY <2>2 DEF Lose, Duplicate, Reject
    <2>3. CASE Hold(c) \/ Resume(c)
      BY <2>3 DEF Hold, Resume
    <2> QED BY <1>3, <2>1, <2>2, <2>3 DEF PathStep
  <1>4. CASE Advance
    <2>1. ~ReaderBusy(c)
      BY <1>4 DEF Advance, Quiet
    <2> QED BY <1>4, <2>1 DEF Advance, ReaderBusy
  <1>5. CASE ~Own(c) /\ ~Advance
    <2>1. Untouched(c)
      BY <1>5, OthersLeave
    <2> QED BY <2>1 DEF Untouched
  <1> QED BY <1>1, <1>2, <1>3, <1>4, <1>5 DEF Own

\* The path is to blame for whatever is lost, doubled, held or refused.
LEMMA PureStep ==
  ASSUME Inv, Typed, [Next]_vars, NEW c \in Conns, Pure(c)
  PROVE  Pure(c)'
  <1> USE DEF Inv, Counted, Typed, Pure, FlowPCs, Reading, Writing, Flow, Reader, Fault,
     conn, report, dog, wire, tasks
  <1>1. ASSUME FlowStep(c) PROVE Pure(c)'
    <2>1. CASE BindFails(c) \/ Connects(c) \/ StampConnect(c) \/ SpawnReader(c) \/ WriterChecks(c)
      BY <2>1 DEF BindFails, Connects, StampConnect, SpawnReader, WriterChecks
    <2>2. CASE Send(c) \/ CountSent(c) \/ SendFails(c) \/ FlowEnds(c)
      BY <2>2 DEF Send, CountSent, SendFails, FlowEnds
    <2> QED BY <1>1, <2>1, <2>2 DEF FlowStep
  <1>2. ASSUME ReaderStep(c) PROVE Pure(c)'
    <2>1. CASE Receive(c) \/ ReceiveStray(c) \/ Stamp(c) \/ FlagFirst(c) \/ ClearStall(c)
      BY <2>1 DEF Receive, ReceiveStray, Stamp, FlagFirst, ClearStall
    <2>2. CASE ReaderDies(c) \/ ReadTimesOut(c)
      BY <2>2 DEF ReaderDies, ReadTimesOut
    <2> QED BY <1>2, <2>1, <2>2 DEF ReaderStep
  <1>3. ASSUME PathStep(c) PROVE Pure(c)'
    <2>1. CASE Arrive(c) \/ Lose(c) \/ Duplicate(c)
      BY <2>1 DEF Arrive, Lose, Duplicate
    <2>2. CASE Reject(c) \/ Hold(c) \/ Resume(c)
      BY <2>2 DEF Reject, Hold, Resume
    <2> QED BY <1>3, <2>1, <2>2 DEF PathStep
  <1>4. CASE Advance
    BY <1>4 DEF Advance
  <1>5. CASE ~Own(c) /\ ~Advance
    <2>1. Untouched(c)
      BY <1>5, OthersLeave
    <2> QED BY <2>1 DEF Untouched
  <1> QED BY <1>1, <1>2, <1>3, <1>4, <1>5 DEF Own

\* A flow nobody tampers with: what it sends comes back within the tick, and while
\* it sends its reader cannot time out.
LEMMA SmoothStep ==
  ASSUME Interval < Second, Inv, Typed, [Next]_vars, NEW c \in Conns,
         Paired(c), Timely(c), Pure(c), Smooth(c)
  PROVE  Smooth(c)'
  <1> USE Clock, TimesAssumption DEF Inv, Counted, Typed, Paired, Timely, Pure, Smooth,
     Fresh, Flushed, FlowPCs, Reading, Writing, Flow, Reader, Fault, conn, report, dog, wire, tasks
  <1>1. ASSUME FlowStep(c) PROVE Smooth(c)'
    <2>1. CASE BindFails(c) \/ Connects(c) \/ StampConnect(c)
      BY <2>1 DEF BindFails, Connects, StampConnect
    <2>2. CASE SpawnReader(c)
      BY <2>2 DEF SpawnReader
    <2>3. CASE WriterChecks(c)
      BY <2>3 DEF WriterChecks
    <2>4. CASE Send(c)
      <3>1. now >= due[c] /\ due' = [due EXCEPT ![c] = Min({@ + Interval, Horizon})]
        BY <2>4 DEF Send
      <3>2. /\ due' \in [Conns -> Nat] /\ due'[c] <= due[c] + Interval
            /\ now <= due[c] => now <= due'[c]
        BY <3>1, Rescheduled
      <3> QED BY <2>4, <3>2 DEF Send
    <2>5. CASE CountSent(c)
      BY <2>5 DEF CountSent
    <2>6. CASE SendFails(c)
      <3>1. now >= due[c] /\ due' = [due EXCEPT ![c] = Min({@ + Interval, Horizon})]
        BY <2>6 DEF SendFails
      <3>2. /\ due' \in [Conns -> Nat] /\ due'[c] <= due[c] + Interval
            /\ now <= due[c] => now <= due'[c]
        BY <3>1, Rescheduled
      <3> QED BY <2>6, <3>2 DEF SendFails
    <2>7. CASE FlowEnds(c)
      BY <2>7 DEF FlowEnds
    <2> QED BY <1>1, <2>1, <2>2, <2>3, <2>4, <2>5, <2>6, <2>7 DEF FlowStep
  <1>2. ASSUME ReaderStep(c) PROVE Smooth(c)'
    <2>1. CASE Receive(c)
      BY <2>1 DEF Receive
    <2>2. CASE ReceiveStray(c)
      BY <2>2 DEF ReceiveStray
    <2>3. CASE Stamp(c)
      BY <2>3 DEF Stamp
    <2>4. CASE FlagFirst(c)
      BY <2>4 DEF FlagFirst
    <2>5. CASE ClearStall(c)
      BY <2>5 DEF ClearStall
    <2>6. CASE ReaderDies(c)
      BY <2>6 DEF ReaderDies
    <2>7. CASE ReadTimesOut(c)
      BY <2>7 DEF ReadTimesOut
    <2> QED BY <1>2, <2>1, <2>2, <2>3, <2>4, <2>5, <2>6, <2>7 DEF ReaderStep
  <1>3. ASSUME PathStep(c) PROVE Smooth(c)'
    <2>1. CASE Lose(c) \/ Duplicate(c)
      BY <2>1 DEF Lose, Duplicate
    <2>2. CASE Reject(c) \/ Hold(c) \/ Resume(c)
      BY <2>2 DEF Reject, Hold, Resume
    <2>3. CASE Arrive(c)
      BY <2>3 DEF Arrive
    <2> QED BY <1>3, <2>1, <2>2, <2>3 DEF PathStep
  <1>4. CASE Advance
    <2>1. ~FlowBusy(c) /\ ~ReaderBusy(c) /\ ~PathBusy(c)
      BY <1>4 DEF Advance, Quiet
    <2> QED BY <1>4, <2>1 DEF Advance, FlowBusy, ReaderBusy, PathBusy
  <1>5. CASE ~Own(c) /\ ~Advance
    <2>1. Untouched(c)
      BY <1>5, OthersLeave
    <2> QED BY <2>1 DEF Untouched
  <1> QED BY <1>1, <1>2, <1>3, <1>4, <1>5 DEF Own

-----------------------------------------------------------------------------
(* The watchdog.                                                           *)

\* What has come to a socket, a reader's death and a fault are never forgotten.
Remembers(c) ==
    /\ \A t \in arrived'[c] : t \in arrived[c] \/ t = now
    /\ died[c] => died'[c]
    /\ faults[c] > 0 => faults'[c] > 0
    /\ now' \in {now, now + 1}

LEMMA HistoryGrows ==
  ASSUME Inv, Typed, [Next]_vars, NEW c \in Conns
  PROVE  Remembers(c)
  <1> USE DEF Remembers, Inv, Counted, Typed, FlowPCs, Reading, Flow, Reader, Fault, conn,
     report, dog, wire, tasks
  <1>1. ASSUME FlowStep(c) PROVE Remembers(c)
    <2>1. CASE BindFails(c) \/ Connects(c) \/ StampConnect(c) \/ SpawnReader(c) \/ WriterChecks(c)
      BY <2>1 DEF BindFails, Connects, StampConnect, SpawnReader, WriterChecks
    <2>2. CASE Send(c) \/ CountSent(c) \/ SendFails(c) \/ FlowEnds(c)
      BY <2>2 DEF Send, CountSent, SendFails, FlowEnds
    <2> QED BY <1>1, <2>1, <2>2 DEF FlowStep
  <1>2. ASSUME ReaderStep(c) PROVE Remembers(c)
    <2>1. CASE Receive(c) \/ ReceiveStray(c) \/ Stamp(c) \/ FlagFirst(c)
      BY <2>1 DEF Receive, ReceiveStray, Stamp, FlagFirst
    <2>2. CASE ClearStall(c) \/ ReaderDies(c) \/ ReadTimesOut(c)
      BY <2>2 DEF ClearStall, ReaderDies, ReadTimesOut
    <2> QED BY <1>2, <2>1, <2>2 DEF ReaderStep
  <1>3. ASSUME PathStep(c) PROVE Remembers(c)
    <2>1. CASE Arrive(c) \/ Lose(c) \/ Duplicate(c)
      BY <2>1 DEF Arrive, Lose, Duplicate
    <2>2. CASE Reject(c) \/ Hold(c) \/ Resume(c)
      BY <2>2 DEF Reject, Hold, Resume
    <2> QED BY <1>3, <2>1, <2>2 DEF PathStep
  <1>4. CASE Advance
    BY <1>4 DEF Advance
  <1>5. CASE ~Own(c) /\ ~Advance
    <2>1. Untouched(c)
      BY <1>5, OthersLeave
    <2> QED BY <2>1 DEF Untouched
  <1> QED BY <1>1, <1>2, <1>3, <1>4, <1>5, Zenon DEF Own

\* What is explained stays explained.
LEMMA ExplainedStays ==
  ASSUME Inv, Typed, [Next]_vars, NEW c \in Conns, NEW at \in Nat, NEW gap \in Nat,
         at <= now, Explained(c, at, gap)
  PROVE  at <= now' /\ Explained(c, at, gap)'
  <1>1. now' \in {now, now + 1} /\ now \in Nat
    BY HistoryGrows DEF Typed, Remembers
  <1> QED BY <1>1, HistoryGrows DEF Explained, Remembers

\* Only the watchdog's own steps report or keep a gap, and only the clock's moves
\* the clock.
LEMMA OthersLeaveDog ==
  ASSUME [Next]_vars, ~WatchdogStep
  PROVE  /\ UNCHANGED <<stalls, wd_now, wd_todo, wd_gap, wd_flow>>
         /\ watchdog' = watchdog \/ watchdog' = "stopped"
         /\ now' # now => Advance
  <1> USE DEF report, dog
  <1>1. ASSUME NEW c \in Conns, FlowStep(c) PROVE UNCHANGED <<now, stalls, dog>>
    BY <1>1 DEF FlowStep, BindFails, Connects, StampConnect, SpawnReader, WriterChecks,
       Send, CountSent, SendFails, FlowEnds
  <1>2. ASSUME NEW c \in Conns, ReaderStep(c) PROVE UNCHANGED <<now, stalls, dog>>
    BY <1>2 DEF ReaderStep, Receive, ReceiveStray, Stamp, FlagFirst, ClearStall, ReaderDies,
       ReadTimesOut
  <1>3. ASSUME NEW c \in Conns, PathStep(c) PROVE UNCHANGED <<now, stalls, dog>>
    BY <1>3 DEF PathStep, Arrive, Lose, Duplicate, Reject, Hold, Resume
  <1>4. CASE Sample \/ WindDown \/ UNCHANGED vars
    BY <1>4 DEF Sample, WindDown, vars
  <1>5. CASE Finalize
    BY <1>5 DEF Finalize
  <1>6. CASE Advance
    BY <1>6 DEF Advance
  <1> QED BY <1>1, <1>2, <1>3, <1>4, <1>5, <1>6 DEF Next

\* What the pass does with the flow it takes next: the gap it keeps is the time since
\* that flow's last stamp.
LEMMA LoadStep ==
  ASSUME Typed, DogTyped, WatchdogLoad
  PROVE  \E c \in Conns :
           /\ wd_todo' = wd_todo \ {c}
           /\ \/ UNCHANGED <<wd_gap, wd_flow>>
              \/ /\ connected[c] /\ first_recv[c] /\ wd_now > last_recv[c]
                 /\ wd_gap' = wd_now - last_recv[c] /\ wd_gap' > StallTicks
                 /\ wd_flow' = c
  <1> DEFINE c == Min(wd_todo)
             gap == Max({0, wd_now - last_recv[c]})
  <1>1. c \in Conns
    <2>1. wd_todo \in SUBSET Nat /\ wd_todo # {} /\ wd_todo \subseteq Conns
      BY ConnsAssumption DEF WatchdogLoad, DogTyped
    <2> QED BY <2>1, MinIn
  <1>2. wd_now \in Nat /\ last_recv[c] \in Nat /\ StallTicks \in Nat
    BY <1>1, TimesAssumption DEF Typed, DogTyped
  <1>3. gap = IF wd_now - last_recv[c] >= 0 THEN wd_now - last_recv[c] ELSE 0
    BY <1>2, MaxWithZero
  <1>4. /\ wd_todo' = wd_todo \ {c}
        /\ IF connected[c] /\ first_recv[c] /\ gap > StallTicks
           THEN wd_gap' = gap /\ wd_flow' = c
           ELSE UNCHANGED <<wd_gap, wd_flow>>
    BY DEF WatchdogLoad
  <1> HIDE DEF c, gap
  <1> QED BY <1>1, <1>2, <1>3, <1>4

LEMMA DogTypedStep == ASSUME Typed, DogTyped, [Next]_vars PROVE DogTyped'
  <1>1. CASE ~WatchdogStep
    BY <1>1, OthersLeaveDog DEF DogTyped
  <1>2. CASE WatchdogTick
    BY <1>2 DEF WatchdogTick, report, Typed, DogTyped
  <1>3. CASE WatchdogLoad
    <2>1. UNCHANGED <<stalls, wd_now>> /\ watchdog' = "pass"
      BY <1>3 DEF WatchdogLoad, report
    <2>2. wd_todo' \subseteq Conns /\ wd_gap' \in Nat /\ (wd_gap' > 0 => wd_flow' \in Conns)
      BY <1>3, LoadStep DEF Typed, DogTyped
    <2> QED BY <2>1, <2>2 DEF DogTyped
  <1>4. CASE WatchdogSwap
    BY <1>4 DEF WatchdogSwap, DogTyped
  <1>5. CASE WatchdogSleeps
    BY <1>5 DEF WatchdogSleeps, report, DogTyped
  <1> QED BY <1>1, <1>2, <1>3, <1>4, <1>5 DEF WatchdogStep

\* A flow the pass looks at while the run still writes has a reader that is at work
\* or has died, and what came to its socket is stamped or has come at this tick.
LEMMA BarksStep ==
  ASSUME Inv, Typed, DogTyped, \A c \in Conns : Paired(c) /\ Timely(c) /\ Stamped(c),
         Barks, [Next]_vars
  PROVE  Barks'
  <1>0. now \in Nat /\ wd_now \in Nat /\ wd_gap \in Nat
    BY DEF Typed, DogTyped
  <1>1. ASSUME NEW e \in stalls PROVE e.at <= now' /\ Explained(e.conn_id, e.at, e.gap)'
    <2>1. e.conn_id \in Conns /\ e.at \in Nat /\ e.gap \in Nat
      BY DEF DogTyped
    <2>2. e.at <= now /\ Explained(e.conn_id, e.at, e.gap)
      BY DEF Barks
    <2> QED BY <2>1, <2>2, ExplainedStays
  <1>2. CASE ~WatchdogStep
    <2>1. watchdog' = "pass" => watchdog = "pass" /\ now' = now
      BY <1>2, OthersLeaveDog DEF Advance, Quiet
    <2>2. /\ UNCHANGED <<stalls, wd_now, wd_gap, wd_flow>>
      BY <1>2, OthersLeaveDog
    <2>3. watchdog' = "pass" /\ wd_gap' > 0 => Explained(wd_flow, wd_now, wd_gap)'
      <3> SUFFICES ASSUME watchdog' = "pass", wd_gap' > 0
                   PROVE  Explained(wd_flow, wd_now, wd_gap)'
        OBVIOUS
      <3>1. wd_flow \in Conns /\ wd_now <= now /\ Explained(wd_flow, wd_now, wd_gap)
        BY <1>0, <2>1, <2>2 DEF Barks, DogTyped
      <3>2. \A f \in Conns, at, gap \in Nat :
              at <= now /\ Explained(f, at, gap) => Explained(f, at, gap)'
        BY ExplainedStays
      <3>3. PICK f \in Conns, at \in Nat, gap \in Nat : f = wd_flow /\ at = wd_now /\ gap = wd_gap
        BY <1>0, <3>1
      <3>4. Explained(f, at, gap)'
        BY <3>1, <3>2, <3>3
      <3> QED BY <2>2, <3>3, <3>4
    <2> QED BY <1>1, <2>1, <2>2, <2>3 DEF Barks
  <1>3. CASE WatchdogTick \/ WatchdogSleeps
    <2>1. UNCHANGED <<now, stalls>>
      BY <1>3 DEF WatchdogTick, WatchdogSleeps, report
    <2>2. watchdog' = "pass" => wd_now' = now /\ now < Deadline /\ ~(wd_gap' > 0)
      <3>1. CASE WatchdogTick
        BY <3>1, Clock DEF WatchdogTick, Typed, DogTyped
      <3>2. CASE WatchdogSleeps
        BY <3>2 DEF WatchdogSleeps
      <3> QED BY <1>3, <3>1, <3>2
    <2> QED BY <1>1, <2>1, <2>2 DEF Barks
  <1>4. CASE WatchdogLoad
    <2>1. /\ UNCHANGED <<now, stalls, watchdog, wd_now, died, arrived>>
          /\ watchdog = "pass" /\ wd_gap = 0
      BY <1>4 DEF WatchdogLoad, report, wire
    <2>2. PICK c \in Conns :
            \/ UNCHANGED <<wd_gap, wd_flow>>
            \/ /\ connected[c] /\ first_recv[c] /\ wd_now > last_recv[c]
               /\ wd_gap' = wd_now - last_recv[c]
               /\ wd_flow' = c
      BY <1>4, LoadStep
    <2>3. CASE UNCHANGED <<wd_gap, wd_flow>>
      BY <1>1, <2>1, <2>3 DEF Barks
    <2>4. CASE /\ connected[c] /\ first_recv[c] /\ wd_now > last_recv[c]
               /\ wd_gap' = wd_now - last_recv[c] /\ wd_flow' = c
      <3>1. wd_now = now /\ now < Deadline
        BY <2>1 DEF Barks
      <3>2. died[c] \/ reader[c] \in Reading
        <4>1. reader[c] \in Reading \cup {"end"}
          BY <2>4 DEF Typed, Paired
        <4>2. Deadline \in Nat
          BY Clock
        <4> QED BY <1>0, <3>1, <4>1, <4>2 DEF Timely
      <3>3. last_recv[c] \in Nat /\ wd_now - wd_gap' = last_recv[c]
        BY <1>0, <2>4 DEF Typed
      <3>4. died[c] \/ \A t \in arrived[c] : t <= last_recv[c] \/ t >= wd_now
        BY <1>0, <3>1, <3>2 DEF Stamped, Typed
      <3>5. Explained(wd_flow, wd_now, wd_gap)'
        BY <2>1, <2>4, <3>3, <3>4 DEF Explained
      <3> QED BY <1>1, <2>1, <3>1, <3>5 DEF Barks
    <2> QED BY <2>2, <2>3, <2>4
  <1>5. CASE WatchdogSwap
    <2>1. /\ UNCHANGED <<now, watchdog, wd_now, died, arrived>>
          /\ watchdog = "pass" /\ wd_gap > 0 /\ wd_gap' = 0
          /\ \A e \in stalls' : \/ e \in stalls
                                \/ e = [conn_id |-> wd_flow, at |-> wd_now, gap |-> wd_gap]
      BY <1>5 DEF WatchdogSwap, wire
    <2>2. Explained(wd_flow, wd_now, wd_gap)
      BY <2>1 DEF Barks
    <2>3. \A e \in stalls' : e.at <= now /\ Explained(e.conn_id, e.at, e.gap)'
      BY <1>0, <1>1, <2>1, <2>2 DEF Barks, Explained
    <2> QED BY <1>0, <2>1, <2>3 DEF Barks
  <1> QED BY <1>2, <1>3, <1>4, <1>5 DEF WatchdogStep

\* An untampered flow is stamped at least every interval, which the watchdog grants.
LEMMA UnblamedStep ==
  ASSUME Interval <= StallTicks, Inv, Typed, DogTyped,
         \A c \in Conns : Paired(c) /\ Timely(c) /\ Pure(c) /\ Smooth(c),
         Barks, Unblamed, [Next]_vars
  PROVE  Unblamed'
  <1>0. now \in Nat /\ wd_now \in Nat /\ wd_gap \in Nat /\ Interval \in Nat /\ StallTicks \in Nat
        /\ Deadline \in Nat
    BY TimesAssumption, Clock DEF Typed, DogTyped
  <1>1. ASSUME NEW e \in stalls PROVE faults'[e.conn_id] > 0
    <2>1. e.conn_id \in Conns /\ faults[e.conn_id] > 0
      BY DEF DogTyped, Unblamed
    <2> QED BY <2>1, HistoryGrows DEF Remembers
  <1>2. CASE ~WatchdogStep
    <2>1. UNCHANGED <<stalls, wd_gap, wd_flow>> /\ (watchdog' = "pass" => watchdog = "pass")
      BY <1>2, OthersLeaveDog
    <2>2. watchdog' = "pass" /\ wd_gap' > 0 => faults'[wd_flow] > 0
      <3> SUFFICES ASSUME watchdog' = "pass", wd_gap' > 0 PROVE faults'[wd_flow] > 0
        OBVIOUS
      <3>1. wd_flow \in Conns /\ faults[wd_flow] > 0
        BY <2>1 DEF Unblamed, DogTyped
      <3> QED BY <3>1, HistoryGrows DEF Remembers
    <2> QED BY <1>1, <2>1, <2>2 DEF Unblamed
  <1>3. CASE WatchdogTick \/ WatchdogSleeps
    <2>1. UNCHANGED <<stalls, faults>>
      BY <1>3 DEF WatchdogTick, WatchdogSleeps, report, wire
    <2>2. watchdog' = "pass" => ~(wd_gap' > 0)
      <3>1. CASE WatchdogTick
        BY <3>1, Clock DEF WatchdogTick, Typed, DogTyped
      <3>2. CASE WatchdogSleeps
        BY <3>2 DEF WatchdogSleeps
      <3> QED BY <1>3, <3>1, <3>2
    <2> QED BY <1>1, <2>1, <2>2 DEF Unblamed
  <1>4. CASE WatchdogLoad
    <2>1. UNCHANGED <<stalls, watchdog, faults>> /\ watchdog = "pass" /\ wd_gap = 0
      BY <1>4 DEF WatchdogLoad, report, wire
    <2>2. PICK c \in Conns :
            \/ UNCHANGED <<wd_gap, wd_flow>>
            \/ /\ connected[c] /\ first_recv[c] /\ wd_now > last_recv[c]
               /\ wd_gap' = wd_now - last_recv[c] /\ wd_gap' > StallTicks
               /\ wd_flow' = c
      BY <1>4, LoadStep
    <2>3. CASE UNCHANGED <<wd_gap, wd_flow>>
      BY <2>1, <2>3 DEF Unblamed
    <2>4. CASE /\ connected[c] /\ first_recv[c] /\ wd_now > last_recv[c]
               /\ wd_gap' = wd_now - last_recv[c] /\ wd_gap' > StallTicks /\ wd_flow' = c
      <3>1. wd_now = now /\ now < Deadline
        BY <2>1 DEF Barks
      <3>2. faults[c] # 0
        <4> SUFFICES ASSUME faults[c] = 0 PROVE FALSE
          OBVIOUS
        <4>1. flow[c] \in Writing
          BY <1>0, <2>4, <3>1 DEF Inv, Counted, FlowPCs, Writing, Paired, Timely
        <4>2. last_recv[c] + Interval >= now /\ last_recv[c] \in Nat
          BY <4>1 DEF Smooth, Fresh, Typed
        <4> QED BY <1>0, <2>4, <3>1, <4>2
      <3>3. faults[c] > 0
        BY <3>2 DEF Typed
      <3> QED BY <2>1, <2>4, <3>3 DEF Unblamed
    <2> QED BY <2>2, <2>3, <2>4
  <1>5. CASE WatchdogSwap
    <2>1. /\ UNCHANGED <<watchdog,
                         faults>> /\ watchdog = "pass" /\ wd_gap > 0 /\ wd_gap' = 0
          /\ \A e \in stalls' : \/ e \in stalls
                                \/ e = [conn_id |-> wd_flow, at |-> wd_now, gap |-> wd_gap]
      BY <1>5 DEF WatchdogSwap, wire
    <2> QED BY <2>1 DEF Unblamed
  <1> QED BY <1>2, <1>3, <1>4, <1>5 DEF WatchdogStep

\* run_udp winds down only when every flow has ended, and a flow that has ended
\* takes no step.
LEMMA JoinedStep == ASSUME Inv, Typed, Joined, [Next]_vars PROVE Joined'
  <1>1. CASE WindDown
    BY <1>1 DEF WindDown, tasks, Joined
  <1>2. CASE Finalize
    BY <1>2 DEF Finalize, tasks, Joined
  <1>3. CASE ~WindDown /\ ~Finalize
    <2>1. main' = main
      BY <1>3 DEF Next, FlowStep, ReaderStep, PathStep, WatchdogStep, BindFails, Connects,
         StampConnect, SpawnReader, WriterChecks, Send, CountSent, SendFails, FlowEnds, Receive,
         ReceiveStray, Stamp, FlagFirst, ClearStall, ReaderDies, ReadTimesOut, Arrive, Lose,
         Duplicate, Reject, Hold, Resume, WatchdogTick, WatchdogLoad, WatchdogSwap,
         WatchdogSleeps, Sample, Advance, vars
    <2>2. ASSUME NEW c \in Conns, flow[c] = "end" PROVE flow'[c] = "end"
      <3>1. CASE Own(c)
        BY <2>2, <3>1 DEF Own, FlowStep, ReaderStep, PathStep, BindFails, Connects,
         StampConnect, SpawnReader, WriterChecks, Send, CountSent, SendFails, FlowEnds, Receive,
         ReceiveStray, Stamp, FlagFirst, ClearStall, ReaderDies, ReadTimesOut, Flow
      <3>2. CASE Advance
        BY <2>2, <3>2 DEF Advance, tasks
      <3>3. CASE ~Own(c) /\ ~Advance
        <4>1. Untouched(c)
          BY <3>3, OthersLeave
        <4> QED BY <2>2, <4>1 DEF Untouched
      <3> QED BY <3>1, <3>2, <3>3
    <2> QED BY <2>1, <2>2 DEF Joined
  <1> QED BY <1>1, <1>2, <1>3

-----------------------------------------------------------------------------
(* The theorems.                                                           *)

Whole ==
    /\ Inv /\ Typed /\ DogTyped
    /\ \A c \in Conns : Paired(c) /\ Timely(c) /\ Stamped(c) /\ Pure(c)
    /\ Barks /\ Joined

Clean ==
    Interval < Second =>
        /\ \A c \in Conns : Smooth(c)
        /\ Interval <= StallTicks => Unblamed

LEMMA WholeInit == Init => Whole /\ Clean
  <1> SUFFICES ASSUME Init PROVE Whole /\ Clean
    OBVIOUS
  <1>1. Inv /\ Typed /\ DogTyped
    BY InvInit, TypedInit
  <1>2. ASSUME NEW c \in Conns
        PROVE  Paired(c) /\ Timely(c) /\ Stamped(c) /\ Pure(c) /\ Smooth(c)
    BY Clock DEF Init, Paired, Timely, Stamped, Pure, Smooth, Writing, Reading
  <1>3. Barks /\ Joined /\ Unblamed
    BY DEF Init, Barks, Joined, Unblamed
  <1> QED BY <1>1, <1>2, <1>3 DEF Whole, Clean

LEMMA WholeNext == Whole /\ [Next]_vars => Whole'
  <1> SUFFICES ASSUME Whole, [Next]_vars PROVE Whole'
    OBVIOUS
  <1>1. Inv' /\ Typed' /\ DogTyped' /\ Joined'
    BY InvNext, TypedStep, DogTypedStep, JoinedStep DEF Whole
  <1>2. ASSUME NEW c \in Conns PROVE Paired(c)' /\ Timely(c)' /\ Stamped(c)' /\ Pure(c)'
    BY PairedStep, TimelyStep, StampedStep, PureStep DEF Whole
  <1>3. Barks'
    BY BarksStep DEF Whole
  <1> QED BY <1>1, <1>2, <1>3 DEF Whole

LEMMA CleanNext == Whole /\ Clean /\ [Next]_vars => Clean'
  <1> SUFFICES ASSUME Whole, Clean, [Next]_vars, Interval < Second
               PROVE  /\ \A c \in Conns : Smooth(c)'
                      /\ Interval <= StallTicks => Unblamed'
    BY DEF Clean
  <1>1. ASSUME NEW c \in Conns PROVE Smooth(c)'
    BY SmoothStep DEF Whole, Clean
  <1>2. ASSUME Interval <= StallTicks PROVE Unblamed'
    BY <1>2, UnblamedStep DEF Whole, Clean
  <1> QED BY <1>1, <1>2

\* A stall is reported of a path that was delivering only of a flow whose reader has
\* died of a receive error (client.rs:359), for any number of flows, any timing and
\* whatever the path does.
THEOREM StallsAlwaysExplained == Spec => []StallsExplained
  <1>1. Whole => StallsExplained
    BY DEF Whole, Barks, Explained, StallsExplained
  <1> QED BY WholeInit, WholeNext, <1>1, PTL DEF Spec

\* A flow that meets no fault stalls nowhere, gets back all it sent and is called one
\* without return traffic only if it started too late to send (client.rs:318, 372),
\* for any number of flows, whatever befalls the others, at every interval below the
\* reader's timeout and the stall threshold.
THEOREM CleanFlowsAlwaysClean == Spec => []CleanFlowsClean
  <1>1. Whole /\ Clean => CleanFlowsClean
    <2> SUFFICES ASSUME Whole, Clean, Interval < Second, Interval <= StallTicks,
                        NEW c \in Conns, faults[c] = 0
                 PROVE  /\ \A e \in stalls : e.conn_id # c
                        /\ main = "done" /\ connected[c] =>
                             /\ udp_recv[c] = udp_sent[c]
                             /\ c \in NoReturn <=> Stagger(c) >= Deadline
      BY DEF CleanFlowsClean
    <2>1. \A e \in stalls : e.conn_id # c
      BY DEF Clean, Unblamed
    <2>2. ASSUME main = "done", connected[c]
          PROVE  /\ udp_recv[c] = udp_sent[c]
                 /\ c \in NoReturn <=> Stagger(c) >= Deadline
      <3>1. flow[c] = "end" /\ reader[c] = "end"
        BY <2>2 DEF Whole, Joined, Paired
      <3>2. transit[c] = 0 /\ inbox[c] = 0 /\ lost[c] = 0 /\ copied[c] = 0
        BY <3>1 DEF Whole, Clean, Pure, Smooth
      <3>3. udp_recv[c] \in Nat /\ udp_sent[c] \in Nat
        BY DEF Whole, Inv, Counted
      <3>4. udp_recv[c] = udp_sent[c]
        BY <3>1, <3>2, <3>3 DEF Whole, Inv, Balanced
      <3>5. udp_sent[c] = 0 => Stagger(c) >= Deadline
        BY <2>2, <3>1 DEF Clean, Smooth
      <3>6. udp_sent[c] > 0 => Stagger(c) < Deadline
        BY DEF Whole, Timely
      <3>7. Stagger(c) \in Nat /\ Deadline \in Nat
        BY Clock
      <3> QED BY <2>2, <3>3, <3>4, <3>5, <3>6, <3>7 DEF NoReturn
    <2> QED BY <2>1, <2>2
  <1> QED BY WholeInit, WholeNext, CleanNext, <1>1, PTL DEF Spec
=============================================================================
