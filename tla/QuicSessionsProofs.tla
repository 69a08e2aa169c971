------------------------- MODULE QuicSessionsProofs -------------------------
(***************************************************************************)
(* The session table, the records and the replies, for every set of        *)
(* connections, however they share addresses, and every threshold.         *)
(***************************************************************************)
EXTENDS QuicSessions, FiniteSetTheorems, TLAPS

\* The part of the types the proofs need.
Shape ==
    /\ remote_addr \in [Conns -> Addrs]
    /\ handler \in [Conns -> HandlerPCs]
    /\ sessions \in [Addrs -> Conns \cup {NoSession}]
    /\ metrics \in [Conns -> {"none", "active", "ended"}]
    /\ age \in [Addrs -> Nat]
    /\ to_remove \subseteq Addrs

TableInv == Shape /\ NoOrphanSession

\* The initial state satisfies the table's invariant.
LEMMA TableInit == Init => TableInv
  BY NoSessionAssumption
  DEF Init, TableInv, Shape, NoOrphanSession, HandlerPCs

\* Every step preserves it: a handler removes what is at its own address, and
\* an entry is at the address of the connection it names.
LEMMA TableStep == TableInv /\ [Next]_vars => TableInv'
<1> SUFFICES ASSUME TableInv, [Next]_vars PROVE TableInv'
  OBVIOUS
<1> USE NoSessionAssumption
    DEF TableInv, Shape, NoOrphanSession, HandlerPCs, Handler, Stream, EndRecord,
        tables, records, sweep
<1>1. ASSUME NEW c \in Conns, InsertSession(c) PROVE TableInv'
  BY <1>1 DEF InsertSession
<1>2. ASSUME NEW c \in Conns, Refused(c) PROVE TableInv'
  BY <1>2 DEF Refused
<1>3. ASSUME NEW c \in Conns, StartRecord(c) PROVE TableInv'
  BY <1>3 DEF StartRecord
<1>4. ASSUME NEW c \in Conns, ConnectionEnds(c) PROVE TableInv'
  BY <1>4 DEF ConnectionEnds
<1>5. ASSUME NEW c \in Conns, RemoveSession(c) PROVE TableInv'
  <2>1. /\ handler' = [handler EXCEPT ![c] = "gone"]
        /\ sessions' = [sessions EXCEPT ![remote_addr[c]] = NoSession]
        /\ UNCHANGED <<remote_addr, age, to_remove>>
    BY <1>5 DEF RemoveSession
  <2>2. metrics' \in [Conns -> {"none", "active", "ended"}]
    <3>1. CASE sessions[remote_addr[c]] = NoSession
      BY <1>5, <3>1 DEF RemoveSession
    <3>2. CASE sessions[remote_addr[c]] # NoSession
      <4>1. EndRecord(sessions[remote_addr[c]])
        BY <1>5, <3>2 DEF RemoveSession
      <4> QED BY <4>1
    <3> QED BY <3>1, <3>2
  <2>3. Shape'
    BY <2>1, <2>2
  <2>4. NoOrphanSession'
    <3> SUFFICES ASSUME NEW a \in Addrs, sessions'[a] # NoSession
                 PROVE  /\ remote_addr[sessions'[a]] = a
                        /\ handler'[sessions'[a]] \in {"inserted", "serving", "closing"}
      BY <2>1
    <3>1. a # remote_addr[c] /\ sessions'[a] = sessions[a]
      BY <2>1
    <3>2. sessions[a] # c
      BY <3>1
    <3> QED BY <2>1, <3>1, <3>2
  <2> QED BY <2>3, <2>4
<1>6. ASSUME NEW c \in Conns, NEW k \in Streams, StreamStep(c, k) PROVE TableInv'
  <2>1. UNCHANGED <<remote_addr, sessions, handler, metrics, to_remove>>
    BY <1>6 DEF StreamStep, AcceptStream, StreamFails, BookRequest, Respond, BookReply
  <2>2. age' \in [Addrs -> Nat]
    BY <1>6 DEF StreamStep, AcceptStream, StreamFails, BookRequest, Respond, BookReply
  <2> QED BY <2>1, <2>2
<1>7. ASSUME Scan PROVE TableInv'
  BY <1>7 DEF Scan
<1>8. ASSUME Sweep PROVE TableInv'
  BY <1>8 DEF Sweep
<1>9. ASSUME Tick PROVE TableInv'
  BY <1>9 DEF Tick
<1>10. ASSUME UNCHANGED vars PROVE TableInv'
  BY <1>10 DEF vars
<1> QED
  BY <1>1, <1>2, <1>3, <1>4, <1>5, <1>6, <1>7, <1>8, <1>9, <1>10
  DEF Next, HandlerStep

\* No session outlives its connection's handler, whichever connections share an
\* address and in whatever order they end (NoOrphanSession, quic_server.rs:129).
THEOREM SessionsNeverOrphaned == Spec => []NoOrphanSession
<1>1. TableInv => NoOrphanSession
  BY DEF TableInv
<1> QED BY TableInit, TableStep, <1>1, PTL DEF Spec

-----------------------------------------------------------------------------
\* Of a connection with an address of its own: between its insert and its record
\* the session is fresh, so cleanup, which can only hold addresses it once found
\* inactive, does not hold its address; and it has no record before that.
Fresh ==
    \A c \in Conns : HasOwnAddr(c) =>
        /\ handler[c] \in {"incoming", "inserted"} =>
             /\ metrics[c] = "none"
             /\ remote_addr[c] \notin to_remove
        /\ handler[c] = "incoming" => sessions[remote_addr[c]] # c
        /\ handler[c] = "inserted" =>
             sessions[remote_addr[c]] = c /\ age[remote_addr[c]] = 0

Agree == TableInv /\ Fresh /\ RecordsMatchSessions

\* The initial state satisfies the stronger invariant.
LEMMA AgreeInit == Init => Agree
<1> SUFFICES ASSUME Init PROVE Agree
  OBVIOUS
<1> QED
  BY TableInit, NoSessionAssumption
  DEF Init, Agree, Fresh, RecordsMatchSessions

\* At an address of a connection's own is its entry or none.
LEMMA OwnEntry ==
  ASSUME TableInv, NEW c \in Conns, HasOwnAddr(c)
  PROVE  sessions[remote_addr[c]] \in {c, NoSession}
  BY DEF HasOwnAddr, TableInv, Shape, NoOrphanSession

\* An entry is at the address of the connection it names.
LEMMA EntryAddress ==
  ASSUME TableInv, NEW a \in Addrs, NEW c \in Conns, sessions[a] = c
  PROVE  remote_addr[c] = a
  BY NoSessionAssumption DEF TableInv, NoOrphanSession

\* Every step preserves Agree.
LEMMA AgreeStep == Agree /\ [Next]_vars => Agree'
<1> SUFFICES ASSUME Agree, [Next]_vars PROVE (Fresh /\ RecordsMatchSessions)'
  BY TableStep DEF Agree
<1>0. \A c \in Conns : HasOwnAddr(c) => sessions[remote_addr[c]] \in {c, NoSession}
  BY OwnEntry DEF Agree
<1> USE <1>0, NoSessionAssumption, ThresholdAssumption
    DEF Agree, TableInv, Shape, Fresh, RecordsMatchSessions, HasOwnAddr, HandlerPCs,
        Handler, Stream, EndRecord, tables, records, sweep
<1>1. ASSUME NEW c \in Conns, InsertSession(c) PROVE (Fresh /\ RecordsMatchSessions)'
  BY <1>1 DEF InsertSession
<1>2. ASSUME NEW c \in Conns, Refused(c) PROVE (Fresh /\ RecordsMatchSessions)'
  BY <1>2 DEF Refused
<1>3. ASSUME NEW c \in Conns, StartRecord(c) PROVE (Fresh /\ RecordsMatchSessions)'
  BY <1>3 DEF StartRecord
<1>4. ASSUME NEW c \in Conns, ConnectionEnds(c) PROVE (Fresh /\ RecordsMatchSessions)'
  BY <1>4 DEF ConnectionEnds
<1>5. ASSUME NEW c \in Conns, RemoveSession(c) PROVE (Fresh /\ RecordsMatchSessions)'
  <2>1. /\ sessions' = [sessions EXCEPT ![remote_addr[c]] = NoSession]
        /\ handler' = [handler EXCEPT ![c] = "gone"] /\ handler[c] = "closing"
        /\ UNCHANGED <<remote_addr, age, to_remove>>
    BY <1>5 DEF RemoveSession
  <2>2. CASE sessions[remote_addr[c]] = NoSession
    <3>1. metrics' = metrics
      BY <1>5, <2>2 DEF RemoveSession
    <3> QED BY <2>1, <2>2, <3>1
  <2>3. ASSUME NEW d \in Conns, sessions[remote_addr[c]] = d
        PROVE  (Fresh /\ RecordsMatchSessions)'
    <3>1. metrics' = [metrics EXCEPT ![d] = IF @ = "active" THEN "ended" ELSE @]
      BY <1>5, <2>3 DEF RemoveSession
    <3>2. remote_addr[d] = remote_addr[c]
      BY <2>3, EntryAddress
    <3>3. ASSUME NEW e \in Conns, HasOwnAddr(e), e # c
          PROVE  e # d /\ remote_addr[e] # remote_addr[c]
      BY <3>2, <3>3
    <3>4. ASSUME NEW e \in Conns, HasOwnAddr(e), e = c
          PROVE  e = d
      BY <3>2, <3>4
    <3>5. Fresh'
      BY <2>1, <2>3, <3>1, <3>3, <3>4
    <3>6. ASSUME NEW e \in Conns, sessions'[remote_addr[e]] = e
          PROVE  metrics'[e] = "active" \/ handler'[e] = "inserted"
      <4>1. remote_addr[e] # remote_addr[c] /\ sessions[remote_addr[e]] = e
        BY <2>1, <3>6
      <4>2. e # c /\ e # d
        BY <3>2, <4>1
      <4> QED BY <2>1, <3>1, <4>1, <4>2
    <3>7. ASSUME NEW e \in Conns, HasOwnAddr(e), metrics'[e] = "active"
          PROVE  sessions'[remote_addr[e]] = e
      BY <2>1, <2>3, <3>1, <3>3, <3>4, <3>7
    <3> QED BY <2>1, <3>5, <3>6, <3>7
  <2>4. sessions[remote_addr[c]] \in Conns \cup {NoSession}
    OBVIOUS
  <2> QED BY <2>2, <2>3, <2>4
<1>6. ASSUME NEW c \in Conns, NEW k \in Streams, StreamStep(c, k)
      PROVE (Fresh /\ RecordsMatchSessions)'
  <2>1. UNCHANGED <<remote_addr, sessions, handler, metrics, to_remove>>
    BY <1>6 DEF StreamStep, AcceptStream, StreamFails, BookRequest, Respond, BookReply
  <2>2. age' = age \/ age' = [age EXCEPT ![remote_addr[c]] = 0]
    BY <1>6 DEF StreamStep, AcceptStream, StreamFails, BookRequest, Respond, BookReply
  <2> QED BY <2>1, <2>2
<1>7. ASSUME Scan PROVE (Fresh /\ RecordsMatchSessions)'
  <2>1. /\ to_remove' = {a \in Addrs : Inactive(a)}
        /\ UNCHANGED <<remote_addr, handler, sessions, metrics, age>>
    BY <1>7 DEF Scan
  <2>2. ASSUME NEW c \in Conns, HasOwnAddr(c), handler[c] \in {"incoming", "inserted"}
        PROVE ~Inactive(remote_addr[c])
    BY <2>2 DEF Inactive
  <2> QED BY <2>1, <2>2
<1>8. ASSUME Sweep PROVE (Fresh /\ RecordsMatchSessions)'
  <2>1. /\ to_remove' = {}
        /\ \A a \in Addrs :
             sessions'[a] = IF a \in to_remove THEN NoSession ELSE sessions[a]
        /\ UNCHANGED <<remote_addr, handler, age>>
    BY <1>8 DEF Sweep
  <2>2. \A c \in Conns : metrics'[c] =
          IF metrics[c] = "active" /\ \E a \in to_remove : sessions[a] = c
          THEN "ended" ELSE metrics[c]
    BY <1>8 DEF Sweep
  <2>3. Fresh'
    BY <2>1, <2>2
  <2>4. ASSUME NEW c \in Conns, HasOwnAddr(c), metrics'[c] = "active"
        PROVE  sessions'[remote_addr[c]] = c
    <3>1. metrics[c] = "active" /\ ~\E a \in to_remove : sessions[a] = c
      BY <2>2, <2>4
    <3>2. sessions[remote_addr[c]] = c
      BY <2>4, <3>1
    <3>3. remote_addr[c] \notin to_remove
      BY <3>1, <3>2
    <3>4. remote_addr[c] \in Addrs
      OBVIOUS
    <3> QED BY <2>1, <3>2, <3>3, <3>4
  <2>5. ASSUME NEW c \in Conns, sessions'[remote_addr[c]] = c
        PROVE  metrics'[c] = "active" \/ handler'[c] = "inserted"
    <3>1. remote_addr[c] \notin to_remove /\ sessions[remote_addr[c]] = c
      BY <2>1, <2>5
    <3>2. ASSUME NEW a \in to_remove, sessions[a] = c PROVE FALSE
      <4>1. remote_addr[c] = a
        BY EntryAddress, <3>2
      <4> QED BY <3>1, <3>2, <4>1
    <3> QED BY <2>1, <2>2, <2>5, <3>1, <3>2
  <2>6. RecordsMatchSessions'
    <3> SUFFICES ASSUME NEW c \in Conns
                 PROVE  /\ sessions'[remote_addr[c]] = c =>
                             metrics'[c] = "active" \/ handler'[c] = "inserted"
                        /\ HasOwnAddr(c) /\ metrics'[c] = "active" =>
                             sessions'[remote_addr[c]] = c
      BY <2>1
    <3> QED BY <2>4, <2>5
  <2> QED BY <2>3, <2>6
<1>9. ASSUME Tick PROVE (Fresh /\ RecordsMatchSessions)'
  BY <1>9 DEF Tick
<1>10. ASSUME UNCHANGED vars PROVE (Fresh /\ RecordsMatchSessions)'
  BY <1>10 DEF vars
<1> QED
  BY <1>1, <1>2, <1>3, <1>4, <1>5, <1>6, <1>7, <1>8, <1>9, <1>10
  DEF Next, HandlerStep

\* Every session in the table has an active record, and the connections with an
\* address of their own have no others, at every moment (RecordsMatchSessions,
\* quic_server.rs:98-99, 129-140, 263-297).
THEOREM RecordsAlwaysMatch == Spec => []RecordsMatchSessions
<1>1. Agree => RecordsMatchSessions
  BY DEF Agree
<1> QED BY AgreeInit, AgreeStep, <1>1, PTL DEF Spec

-----------------------------------------------------------------------------
LEMMA TypeInit == Init => TypeOK
  BY ThresholdAssumption DEF Init, TypeOK, HandlerPCs, StreamPCs

LEMMA TypeStep == TypeOK /\ [Next]_vars => TypeOK'
<1> SUFFICES ASSUME TypeOK, [Next]_vars PROVE TypeOK'
  OBVIOUS
<1> USE NoSessionAssumption, ThresholdAssumption
    DEF TypeOK, HandlerPCs, StreamPCs, Handler, Stream, tables, records, sweep
<1>1. ASSUME NEW c \in Conns, HandlerStep(c) PROVE TypeOK'
  <2>1. CASE InsertSession(c)
    BY <2>1 DEF InsertSession
  <2>2. CASE Refused(c) \/ ConnectionEnds(c)
    BY <2>2 DEF Refused, ConnectionEnds
  <2>3. CASE StartRecord(c)
    BY <2>3 DEF StartRecord
  <2>4. CASE RemoveSession(c)
    <3>1. metrics' = metrics \/ EndRecord(sessions[remote_addr[c]])
      BY <2>4 DEF RemoveSession
    <3>2. metrics' \in [Conns -> {"none", "active", "ended"}]
      BY <3>1 DEF EndRecord
    <3> QED BY <2>4, <3>2 DEF RemoveSession
  <2> QED BY <1>1, <2>1, <2>2, <2>3, <2>4 DEF HandlerStep
<1>2. ASSUME NEW c \in Conns, NEW k \in Streams, StreamStep(c, k) PROVE TypeOK'
  <2>1. stream' \in [Conns -> [Streams -> StreamPCs]]
    <3>1. PICK from, to \in StreamPCs : Stream(c, k, from, to)
      BY <1>2 DEF StreamStep, AcceptStream, StreamFails, BookRequest, Respond, BookReply
    <3>2. stream' = [stream EXCEPT ![c] = [stream[c] EXCEPT ![k] = to]]
      BY <3>1
    <3>3. [stream[c] EXCEPT ![k] = to] \in [Streams -> StreamPCs]
      OBVIOUS
    <3> QED BY <3>2, <3>3
  <2>2. age' = age \/ age' = [age EXCEPT ![remote_addr[c]] = 0]
    BY <1>2 DEF StreamStep, AcceptStream, StreamFails, BookRequest, Respond, BookReply
  <2>3. \/ received' = received
        \/ received' = [received EXCEPT ![sessions[remote_addr[c]]] = @ + 1]
    BY <1>2 DEF StreamStep, AcceptStream, StreamFails, BookRequest, Respond, BookReply
  <2>4. \/ sent' = sent
        \/ sent' = [sent EXCEPT ![sessions[remote_addr[c]]] = @ + 1]
    BY <1>2 DEF StreamStep, AcceptStream, StreamFails, BookRequest, Respond, BookReply
  <2>5. UNCHANGED <<remote_addr, handler, sessions, metrics, sweep>>
    BY <1>2 DEF StreamStep, AcceptStream, StreamFails, BookRequest, Respond, BookReply
  <2>6. received' \in [Conns -> Nat] /\ sent' \in [Conns -> Nat]
    <3>1. ASSUME NEW f \in [Conns -> Nat], NEW d
          PROVE  [f EXCEPT ![d] = @ + 1] \in [Conns -> Nat]
      <4>1. CASE d \in Conns
        BY <4>1
      <4>2. CASE d \notin Conns
        BY <4>2
      <4> QED BY <4>1, <4>2
    <3> QED BY <2>3, <2>4, <3>1
  <2>7. age' \in [Addrs -> 0..Threshold + 1]
    BY <2>2
  <2> QED BY <2>1, <2>5, <2>6, <2>7
<1>3. CASE Scan
  BY <1>3 DEF Scan
<1>4. CASE Sweep
  BY <1>4 DEF Sweep
<1>5. CASE Tick
  BY <1>5 DEF Tick
<1>6. CASE UNCHANGED vars
  BY <1>6 DEF vars
<1> QED BY <1>1, <1>2, <1>3, <1>4, <1>5, <1>6 DEF Next

\* The table only ever names connections, and ages stop where cleanup acts.
THEOREM SessionsTypeCorrect == Spec => []TypeOK
<1> QED BY TypeInit, TypeStep, PTL DEF Spec

-----------------------------------------------------------------------------
\* Streams of c whose request was read and whose reply is not booked yet.
Unbooked(c) == {k \in Streams : stream[c][k] \in {"replying", "replied"}}

\* While c's own session is in the table its record has a request for every
\* reply booked and for every one still to come; before it is served it has no
\* streams, and after that it has a record.
Booked(c) ==
    /\ sent[c] <= received[c]
    /\ (sessions[remote_addr[c]] = c /\ handler[c] # "inserted") =>
            sent[c] + Cardinality(Unbooked(c)) <= received[c]
    /\ handler[c] \in {"incoming", "inserted"} =>
            \A k \in Streams : stream[c][k] = "none"
    /\ handler[c] \in {"serving", "closing"} => metrics[c] # "none"

BookedInv ==
    /\ TypeOK /\ TableInv
    /\ \A c \in Conns : HasOwnAddr(c) => Booked(c)

LEMMA UnbookedFinite ==
    \A S \in SUBSET Streams : IsFiniteSet(S) /\ Cardinality(S) \in Nat
  BY StreamsAssumption, FS_Subset, FS_CardinalityType

LEMMA BookedInit == Init => BookedInv
<1> SUFFICES ASSUME Init PROVE BookedInv
  OBVIOUS
<1>1. ASSUME NEW c \in Conns PROVE Booked(c)
  BY NoSessionAssumption DEF Init, Booked
<1> QED BY <1>1, TypeInit, TableInit DEF BookedInv

\* A step that takes or leaves the session of c, and neither books nor moves a
\* stream of c's.
Kept(c) ==
    /\ remote_addr' = remote_addr
    /\ stream'[c] = stream[c] /\ sent'[c] = sent[c] /\ received'[c] = received[c]
    /\ \/ handler'[c] = handler[c]
       \/ handler[c] \in {"incoming", "closing"} /\ handler'[c] = "gone"
       \/ handler[c] = "incoming" /\ handler'[c] = "inserted"
       \/ handler[c] = "serving" /\ handler'[c] = "closing"
    /\ sessions'[remote_addr[c]] = c =>
            sessions[remote_addr[c]] = c \/ handler'[c] = "inserted"
    /\ metrics[c] # "none" => metrics'[c] # "none"

LEMMA BookedKept ==
  ASSUME BookedInv, NEW c \in Conns, HasOwnAddr(c), Kept(c)
  PROVE  Booked(c)'
<1>1. Booked(c)
  BY DEF BookedInv
<1>2. Unbooked(c)' = Unbooked(c)
  BY DEF Unbooked, Kept
<1>3. (sessions[remote_addr[c]] = c) => handler[c] # "incoming"
  BY NoSessionAssumption DEF BookedInv, TableInv, NoOrphanSession, TypeOK
<1>4. handler'[c] # "inserted" /\ sessions'[remote_addr[c]] = c =>
        sessions[remote_addr[c]] = c /\ handler[c] # "inserted"
  BY <1>3 DEF Kept
<1> QED BY <1>1, <1>2, <1>3, <1>4 DEF Booked, Kept

LEMMA BookedHandler ==
  ASSUME BookedInv, NEW d \in Conns, HandlerStep(d),
         NEW c \in Conns, HasOwnAddr(c)
  PROVE  Booked(c)'
<1> USE NoSessionAssumption
    DEF BookedInv, TypeOK, Handler, tables, records, sweep
<1>1. d # c => remote_addr[d] # remote_addr[c]
  BY DEF HasOwnAddr
<1>2. CASE InsertSession(d)
  <2>1. Kept(c)
    BY <1>1, <1>2 DEF InsertSession, Kept
  <2> QED BY <2>1, BookedKept
<1>3. CASE Refused(d) \/ ConnectionEnds(d)
  <2>1. Kept(c)
    BY <1>3 DEF Refused, ConnectionEnds, Kept
  <2> QED BY <2>1, BookedKept
<1>4. CASE StartRecord(d)
  <2>1. CASE d = c
    <3>1. \A k \in Streams : stream[c][k] = "none"
      BY <1>4, <2>1 DEF StartRecord, Booked
    <3>2. Unbooked(c)' = {}
      BY <1>4, <3>1 DEF StartRecord, Unbooked
    <3>3. sent'[c] = 0 /\ received'[c] = 0 /\ handler'[c] = "serving" /\ metrics'[c] = "active"
      BY <1>4, <2>1 DEF StartRecord
    <3> QED BY <3>2, <3>3, FS_EmptySet DEF Booked
  <2>2. CASE d # c
    <3>1. Kept(c)
      BY <1>4, <2>2 DEF StartRecord, Kept
    <3> QED BY <3>1, BookedKept
  <2> QED BY <2>1, <2>2
<1>5. CASE RemoveSession(d)
  <2>1. metrics[c] # "none" => metrics'[c] # "none"
    <3>1. metrics' = metrics \/ EndRecord(sessions[remote_addr[d]])
      BY <1>5 DEF RemoveSession
    <3> QED BY <3>1 DEF EndRecord
  <2>2. /\ UNCHANGED <<remote_addr, stream, received, sent>>
        /\ sessions' = [sessions EXCEPT ![remote_addr[d]] = NoSession]
        /\ handler[d] = "closing" /\ handler' = [handler EXCEPT ![d] = "gone"]
    BY <1>5 DEF RemoveSession
  <2>3. sessions'[remote_addr[c]] = c => sessions[remote_addr[c]] = c
    BY <2>2
  <2>4. Kept(c)
    BY <2>1, <2>2, <2>3 DEF Kept
  <2> QED BY <2>4, BookedKept
<1> QED BY <1>2, <1>3, <1>4, <1>5 DEF HandlerStep

LEMMA BookedStream ==
  ASSUME BookedInv, NEW d \in Conns, NEW k \in Streams, StreamStep(d, k),
         NEW c \in Conns, HasOwnAddr(c)
  PROVE  Booked(c)'
<1>1. UNCHANGED <<remote_addr, handler, sessions, metrics>>
  BY DEF StreamStep, AcceptStream, StreamFails, BookRequest, Respond, BookReply,
         tables, records
<1>2. CASE d # c
  <2>1. remote_addr[d] # remote_addr[c] /\ remote_addr[d] \in Addrs
    BY <1>2 DEF HasOwnAddr, BookedInv, TypeOK
  <2>2. sessions[remote_addr[d]] # c
    BY <2>1, EntryAddress DEF BookedInv
  <2>3. stream'[c] = stream[c]
    BY <1>2 DEF StreamStep, AcceptStream, StreamFails, BookRequest, Respond,
                BookReply, Stream, BookedInv, TypeOK
  <2>4. received'[c] = received[c] /\ sent'[c] = sent[c]
    BY <2>2 DEF StreamStep, AcceptStream, StreamFails, BookRequest, Respond,
                BookReply, records, BookedInv, TypeOK
  <2>5. Kept(c)
    BY <1>1, <2>3, <2>4 DEF Kept
  <2> QED BY <2>5, BookedKept
<1>3. CASE d = c
  <2>1. Booked(c) /\ sessions[remote_addr[c]] \in {c, NoSession}
    BY OwnEntry DEF BookedInv
  <2>2. /\ sent[c] \in Nat /\ received[c] \in Nat
        /\ Unbooked(c) \in SUBSET Streams /\ Cardinality(Unbooked(c)) \in Nat
    BY UnbookedFinite DEF BookedInv, TypeOK, Unbooked
  <2>3. CASE AcceptStream(c, k)
    <3>1. Unbooked(c)' = Unbooked(c) /\ handler[c] = "serving"
      BY <2>3 DEF AcceptStream, Stream, Unbooked, BookedInv, TypeOK
    <3>2. UNCHANGED <<received, sent>>
      BY <2>3 DEF AcceptStream, records
    <3> QED BY <1>1, <2>1, <3>1, <3>2 DEF Booked
  <2>4. handler[c] \in {"incoming", "inserted"} => AcceptStream(c, k)
    BY <1>3, <2>1
    DEF StreamStep, StreamFails, BookRequest, Respond, BookReply, Stream, Booked
  <2>5. handler[c] \in {"incoming", "inserted"} => ~AcceptStream(c, k)
    BY DEF AcceptStream
  <2>6. CASE StreamFails(c, k)
    <3>1. Unbooked(c)' = Unbooked(c) \/ Unbooked(c)' = Unbooked(c) \ {k}
      BY <2>6 DEF StreamFails, Stream, Unbooked, BookedInv, TypeOK
    <3>2. Cardinality(Unbooked(c)') <= Cardinality(Unbooked(c))
      BY <2>2, <3>1, UnbookedFinite, FS_Subset
    <3>3. UNCHANGED <<received, sent>> /\ Cardinality(Unbooked(c)') \in Nat
      BY <2>6, UnbookedFinite DEF StreamFails, records, Unbooked
    <3> QED BY <1>1, <2>1, <2>2, <2>4, <2>5, <3>2, <3>3 DEF Booked
  <2>7. CASE BookRequest(c, k)
    <3>1. Unbooked(c)' = Unbooked(c) \cup {k} /\ k \notin Unbooked(c)
      BY <2>7 DEF BookRequest, Stream, Unbooked, BookedInv, TypeOK
    <3>2. Cardinality(Unbooked(c)') = Cardinality(Unbooked(c)) + 1
      BY <2>2, <3>1, UnbookedFinite, FS_AddElement
    <3>3. CASE sessions[remote_addr[c]] = NoSession
      <4>1. UNCHANGED <<received, sent>>
        BY <2>7, <3>3 DEF BookRequest
      <4> QED BY <1>1, <2>1, <2>4, <2>5, <3>3, <4>1, NoSessionAssumption DEF Booked
    <3>4. CASE sessions[remote_addr[c]] = c
      <4>1. metrics[c] # "none"
        BY <2>1, <2>4, <2>5, <3>4, NoSessionAssumption
        DEF Booked, BookedInv, TableInv, NoOrphanSession, TypeOK
      <4>2. received'[c] = received[c] + 1 /\ sent'[c] = sent[c]
        BY <2>7, <3>4, <4>1, NoSessionAssumption DEF BookRequest, BookedInv, TypeOK
      <4> QED BY <1>1, <2>1, <2>2, <2>4, <2>5, <3>2, <4>2 DEF Booked
    <3> QED BY <2>1, <3>3, <3>4
  <2>8. CASE Respond(c, k)
    <3>1. Unbooked(c)' = Unbooked(c)
      BY <2>8 DEF Respond, Stream, Unbooked, BookedInv, TypeOK
    <3>2. UNCHANGED <<received, sent>>
      BY <2>8 DEF Respond, records
    <3> QED BY <1>1, <2>1, <2>4, <2>5, <3>1, <3>2 DEF Booked
  <2>9. CASE BookReply(c, k)
    <3>1. Unbooked(c)' = Unbooked(c) \ {k} /\ k \in Unbooked(c)
      BY <2>9 DEF BookReply, Stream, Unbooked, BookedInv, TypeOK
    <3>2. /\ Cardinality(Unbooked(c)') = Cardinality(Unbooked(c)) - 1
          /\ Cardinality(Unbooked(c)') \in Nat
      BY <2>2, <3>1, UnbookedFinite, FS_RemoveElement
    <3>3. CASE sessions[remote_addr[c]] = NoSession
      <4>1. UNCHANGED <<received, sent>>
        BY <2>9, <3>3 DEF BookReply
      <4> QED BY <1>1, <2>1, <2>4, <2>5, <3>3, <4>1, NoSessionAssumption DEF Booked
    <3>4. CASE sessions[remote_addr[c]] = c
      <4>1. received' = received /\ (sent'[c] = sent[c] \/ sent'[c] = sent[c] + 1)
        BY <2>9, <3>4 DEF BookReply, BookedInv, TypeOK
      <4>2. handler[c] # "inserted"
        BY <1>3, <2>4, <2>5
      <4>3. sent[c] + Cardinality(Unbooked(c)) <= received[c]
        BY <2>1, <3>4, <4>2 DEF Booked
      <4>4. sent'[c] + Cardinality(Unbooked(c)') <= received'[c] /\ sent'[c] \in Nat
        BY <2>2, <3>2, <4>1, <4>3
      <4>5. sent'[c] <= received'[c] /\ received'[c] \in Nat
        BY <2>2, <3>2, <4>1, <4>4
      <4> QED BY <1>1, <2>1, <2>4, <2>5, <4>4, <4>5 DEF Booked
    <3> QED BY <2>1, <3>3, <3>4
  <2> QED
    BY <1>3, <2>3, <2>6, <2>7, <2>8, <2>9 DEF StreamStep
<1> QED BY <1>2, <1>3

LEMMA BookedOthers ==
  ASSUME BookedInv, Scan \/ Sweep \/ Tick \/ UNCHANGED vars,
         NEW c \in Conns, HasOwnAddr(c)
  PROVE  Booked(c)'
<1>1. UNCHANGED <<remote_addr, handler, stream, received, sent>>
  BY DEF Scan, Sweep, Tick, vars, tables, records, sweep
<1>2. /\ sessions'[remote_addr[c]] = c => sessions[remote_addr[c]] = c
      /\ metrics[c] # "none" => metrics'[c] # "none"
  BY NoSessionAssumption
  DEF Scan, Sweep, Tick, vars, tables, records, BookedInv, TypeOK
<1>3. Kept(c)
  BY <1>1, <1>2 DEF Kept
<1> QED BY <1>3, BookedKept

LEMMA BookedStep == BookedInv /\ [Next]_vars => BookedInv'
<1> SUFFICES ASSUME BookedInv, [Next]_vars PROVE BookedInv'
  OBVIOUS
<1>1. TypeOK' /\ TableInv'
  BY TypeStep, TableStep DEF BookedInv
<1>2. UNCHANGED remote_addr
  BY DEF Next, HandlerStep, InsertSession, Refused, StartRecord, ConnectionEnds,
         RemoveSession, StreamStep, AcceptStream, StreamFails, BookRequest, Respond,
         BookReply, Scan, Sweep, Tick, vars
<1>3. ASSUME NEW c \in Conns, HasOwnAddr(c) PROVE Booked(c)'
  BY <1>3, BookedHandler, BookedStream, BookedOthers DEF Next
<1> QED BY <1>1, <1>2, <1>3 DEF BookedInv, HasOwnAddr

\* The record of a connection with an address of its own never shows a reply
\* without its request, though the two are booked under two locks and cleanup or
\* the handler may remove the session in between (quic_server.rs:152-218).
THEOREM RepliesAlwaysFollow == Spec => []RepliesFollowRequests
<1>1. BookedInv => RepliesFollowRequests
  BY DEF BookedInv, Booked, RepliesFollowRequests
<1> QED BY BookedInit, BookedStep, <1>1, PTL DEF Spec
=============================================================================
