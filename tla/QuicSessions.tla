---------------------------- MODULE QuicSessions ----------------------------
(***************************************************************************)
(* The QUIC server's session table (server/src/quic_server.rs): a map from *)
(* remote address to session shared by one handler task per connection,    *)
(* the stream tasks each handler spawns, and the cleanup task, together    *)
(* with the metrics records (shared/src/metrics.rs) the sessions point to. *)
(*                                                                         *)
(* Each block under the map's lock is one step.  handle_connection does    *)
(* not await between inserting its session and starting its metrics        *)
(* record, so no time passes there.  A session is named by its connection, *)
(* whose fresh UUID it carries; last_activity is kept as an age in cleanup *)
(* periods.                                                                *)
(***************************************************************************)
EXTENDS Integers, FiniteSets

CONSTANTS
    Conns,      \* the connections accepted, each with its own UUID
    Addrs,      \* remote addresses
    Streams,    \* the streams of one connection
    Threshold,  \* inactive_threshold, in cleanup periods
    NoSession   \* no entry

ASSUME NoSessionAssumption == NoSession \notin Conns
ASSUME ThresholdAssumption == Threshold \in Nat
ASSUME StreamsAssumption == IsFiniteSet(Streams)

VARIABLES
    remote_addr,\* the address each connection comes from
    handler,    \* where each connection's handler stands
    stream,     \* where each stream's task stands
    sessions,   \* active_sessions: the connection whose session is at an address
    age,        \* time since last_activity, of the session at an address
    metrics,    \* the record of each connection: "none", "active", "ended"
    received,   \* packets_received of the record
    sent,       \* packets_sent of the record
    cleanup,    \* "idle", or "scanned" once the read lock is released
    to_remove   \* the addresses found inactive

tables == <<sessions, age>>
records == <<metrics, received, sent>>
sweep == <<cleanup, to_remove>>
vars == <<remote_addr, handler, stream, tables, records, sweep>>

HandlerPCs == {"incoming", "inserted", "serving", "closing", "gone"}
StreamPCs == {"none", "reading", "replying", "replied", "done"}

Init ==
    /\ remote_addr \in [Conns -> Addrs]
    /\ handler = [c \in Conns |-> "incoming"]
    /\ stream = [c \in Conns |-> [k \in Streams |-> "none"]]
    /\ sessions = [a \in Addrs |-> NoSession]
    /\ age = [a \in Addrs |-> 0]
    /\ metrics = [c \in Conns |-> "none"]
    /\ received = [c \in Conns |-> 0]
    /\ sent = [c \in Conns |-> 0]
    /\ cleanup = "idle"
    /\ to_remove = {}

Handler(c, from, to) == handler[c] = from /\ handler' = [handler EXCEPT ![c] = to]

Stream(c, k, from, to) ==
    /\ stream[c][k] = from
    /\ stream' = [stream EXCEPT ![c][k] = to]

\* end_connection: a record that does not exist yet is not ended.
EndRecord(c) ==
    metrics' = [metrics EXCEPT ![c] = IF @ = "active" THEN "ended" ELSE @]

-----------------------------------------------------------------------------
(* handle_connection.                                                      *)

\* The handshake completes; insert replaces whatever is at the address.
InsertSession(c) ==
    /\ Handler(c, "incoming", "inserted")
    /\ sessions' = [sessions EXCEPT ![remote_addr[c]] = c]
    /\ age' = [age EXCEPT ![remote_addr[c]] = 0]
    /\ UNCHANGED <<remote_addr, stream, records, sweep>>

\* The handshake fails.
Refused(c) ==
    /\ Handler(c, "incoming", "gone")
    /\ UNCHANGED <<remote_addr, stream, tables, records, sweep>>

\* start_connection puts a fresh record.
StartRecord(c) ==
    /\ Handler(c, "inserted", "serving")
    /\ metrics' = [metrics EXCEPT ![c] = "active"]
    /\ received' = [received EXCEPT ![c] = 0]
    /\ sent' = [sent EXCEPT ![c] = 0]
    /\ UNCHANGED <<remote_addr, stream, tables, sweep>>

\* accept_bi returns a stream and its task is spawned.
AcceptStream(c, k) ==
    /\ handler[c] = "serving"
    /\ Stream(c, k, "none", "reading")
    /\ UNCHANGED <<remote_addr, handler, tables, records, sweep>>

\* accept_bi fails: the client closed, or the connection was lost.
ConnectionEnds(c) ==
    /\ Handler(c, "serving", "closing")
    /\ UNCHANGED <<remote_addr, stream, tables, records, sweep>>

\* Mutant: the session is dropped, but its record is not ended.
RemoveSessionOnly(c) ==
    LET a == remote_addr[c] IN
    /\ Handler(c, "closing", "gone")
    /\ sessions' = [sessions EXCEPT ![a] = NoSession]
    /\ UNCHANGED <<remote_addr, stream, age, records, sweep>>

\* Mutant: get in place of remove.
RemoveSessionKept(c) ==
    LET a == remote_addr[c] IN
    /\ Handler(c, "closing", "gone")
    /\ IF sessions[a] = NoSession THEN UNCHANGED metrics ELSE EndRecord(sessions[a])
    /\ UNCHANGED <<remote_addr, stream, tables, received, sent, sweep>>

\* The session at the address is removed, whoever's it is, and its record ended
\* before the write lock is released.
RemoveSession(c) ==
    LET a == remote_addr[c] IN
    /\ Handler(c, "closing", "gone")
    /\ sessions' = [sessions EXCEPT ![a] = NoSession]
    /\ IF sessions[a] = NoSession THEN UNCHANGED metrics ELSE EndRecord(sessions[a])
    /\ UNCHANGED <<remote_addr, stream, age, received, sent, sweep>>

-----------------------------------------------------------------------------
(* handle_stream.  Its task is not tied to the connection's handler.       *)

\* Nothing was read, or the response could not be written.
StreamFails(c, k) ==
    /\ \/ Stream(c, k, "reading", "done")
       \/ Stream(c, k, "replying", "done")
    /\ UNCHANGED <<remote_addr, handler, tables, records, sweep>>

\* The request is booked on the session now at the address, if there is one.
BookRequest(c, k) ==
    LET a == remote_addr[c] IN
    /\ Stream(c, k, "reading", "replying")
    /\ IF sessions[a] = NoSession
       THEN UNCHANGED <<age, received>>
       ELSE /\ age' = [age EXCEPT ![a] = 0]
            /\ received' = IF metrics[sessions[a]] = "none" THEN received
                           ELSE [received EXCEPT ![sessions[a]] = @ + 1]
    /\ UNCHANGED <<remote_addr, handler, sessions, metrics, sent, sweep>>

\* The response is written, while the connection lasts.
Respond(c, k) ==
    /\ handler[c] = "serving"
    /\ Stream(c, k, "replying", "replied")
    /\ UNCHANGED <<remote_addr, handler, tables, records, sweep>>

\* Mutant: the reply is booked on the stream's own record in any case.
BookReplyAnyway(c, k) ==
    /\ Stream(c, k, "replied", "done")
    /\ sent' = [sent EXCEPT ![c] = @ + 1]
    /\ UNCHANGED <<remote_addr, handler, tables, metrics, received, sweep>>

\* The second locked block books the reply; last_activity stays.
BookReply(c, k) ==
    LET a == remote_addr[c] IN
    /\ Stream(c, k, "replied", "done")
    /\ sent' = IF sessions[a] = NoSession \/ metrics[sessions[a]] = "none" THEN sent
               ELSE [sent EXCEPT ![sessions[a]] = @ + 1]
    /\ UNCHANGED <<remote_addr, handler, tables, metrics, received, sweep>>

-----------------------------------------------------------------------------
(* cleanup_inactive_sessions, every 30 seconds.                            *)

Inactive(a) == sessions[a] # NoSession /\ age[a] > Threshold

\* Under the read lock.
Scan ==
    /\ cleanup = "idle"
    /\ \E a \in Addrs : Inactive(a)
    /\ cleanup' = "scanned"
    /\ to_remove' = {a \in Addrs : Inactive(a)}
    /\ UNCHANGED <<remote_addr, handler, stream, tables, records>>

\* Mutant: the records are ended, and the map is left to the handlers.
SweepRecordsOnly ==
    /\ cleanup = "scanned"
    /\ cleanup' = "idle" /\ to_remove' = {}
    /\ metrics' = [c \in Conns |->
         IF metrics[c] = "active" /\ \E a \in to_remove : sessions[a] = c
         THEN "ended" ELSE metrics[c]]
    /\ UNCHANGED <<remote_addr, handler, stream, tables, received, sent>>

\* Under the write lock, taken anew: the addresses are not looked at again.
Sweep ==
    /\ cleanup = "scanned"
    /\ cleanup' = "idle" /\ to_remove' = {}
    /\ sessions' = [a \in Addrs |-> IF a \in to_remove THEN NoSession ELSE sessions[a]]
    /\ metrics' = [c \in Conns |->
         IF metrics[c] = "active" /\ \E a \in to_remove : sessions[a] = c
         THEN "ended" ELSE metrics[c]]
    /\ UNCHANGED <<remote_addr, handler, stream, age, received, sent>>

\* A cleanup period passes.
Tick ==
    /\ \A c \in Conns : handler[c] # "inserted"
    /\ \E a \in Addrs : sessions[a] # NoSession /\ age[a] <= Threshold
    /\ age' = [a \in Addrs |-> IF age[a] > Threshold THEN age[a] ELSE age[a] + 1]
    /\ UNCHANGED <<remote_addr, handler, stream, sessions, records, sweep>>

-----------------------------------------------------------------------------
HandlerStep(c) ==
    \/ InsertSession(c) \/ Refused(c) \/ StartRecord(c)
    \/ ConnectionEnds(c) \/ RemoveSession(c)

StreamStep(c, k) ==
    \/ AcceptStream(c, k) \/ StreamFails(c, k) \/ BookRequest(c, k)
    \/ Respond(c, k) \/ BookReply(c, k)

Next ==
    \/ \E c \in Conns : HandlerStep(c) \/ \E k \in Streams : StreamStep(c, k)
    \/ Scan \/ Sweep \/ Tick

Spec == Init /\ [][Next]_vars

\* The cleanup task's interval ticks for ever.
FairSpec == Spec /\ WF_vars(Scan) /\ WF_vars(Sweep)

-----------------------------------------------------------------------------
(* Properties.                                                             *)

TypeOK ==
    /\ remote_addr \in [Conns -> Addrs]
    /\ handler \in [Conns -> HandlerPCs]
    /\ stream \in [Conns -> [Streams -> StreamPCs]]
    /\ sessions \in [Addrs -> Conns \cup {NoSession}]
    /\ age \in [Addrs -> 0..Threshold + 1]
    /\ metrics \in [Conns -> {"none", "active", "ended"}]
    /\ received \in [Conns -> Nat]
    /\ sent \in [Conns -> Nat]
    /\ cleanup \in {"idle", "scanned"}
    /\ to_remove \subseteq Addrs

\* Entries are removed by address and not by id, by two kinds of task; still,
\* no session outlives its connection's handler, whichever connections came
\* from one address and in whatever order they ended: the map cannot grow with
\* the connections the server has served.
NoOrphanSession ==
    \A a \in Addrs : sessions[a] # NoSession =>
        /\ remote_addr[sessions[a]] = a
        /\ handler[sessions[a]] \in {"inserted", "serving", "closing"}

\* No other connection comes from c's address.
HasOwnAddr(c) == \A d \in Conns : remote_addr[d] = remote_addr[c] => d = c

\* At every moment a reader of the metrics can look, and whatever cleanup and the
\* handlers of other connections from its address do, a session in the map has a
\* record without an end_time; and no other connection has one, unless it shared
\* its address, where a later connection's insert drops the session alone.
RecordsMatchSessions ==
    \A c \in Conns :
        /\ sessions[remote_addr[c]] = c => metrics[c] = "active" \/ handler[c] = "inserted"
        /\ (HasOwnAddr(c) /\ metrics[c] = "active") => sessions[remote_addr[c]] = c

\* The two locked blocks of a stream book on one and the same record, though
\* the session may be removed in between: the record of a connection whose
\* address is its own never shows more replies than requests.
RepliesFollowRequests ==
    \A c \in Conns : HasOwnAddr(c) => sent[c] <= received[c]

\* An inactive session becomes active again or is removed.
InactiveLeave == \A a \in Addrs : Inactive(a) ~> ~Inactive(a)
=============================================================================
