------------------------------ MODULE QuicPages ------------------------------
(***************************************************************************)
(* A QUIC browsing session once it is connected (client/src/quic_client.rs)*)
(* page after page, a main request and then the page's resources, at most  *)
(* Concurrent of them at a time.  Every request has a timeout of its own,  *)
(* the resources of a page have one more together, and a timeout drops     *)
(* what it was waiting for.                                                *)
(*                                                                         *)
(* Request 0 of a page is the main one.  A request may fail, be answered,  *)
(* or stay unanswered for ever; the server sends exactly the least that    *)
(* the client accepts (quic_server.rs, generate_response), so that every   *)
(* byte lost fails the request.  Left out: connecting and the pool         *)
(* (ServerPool), the server's books (QuicSessions), and bytes.             *)
(***************************************************************************)
EXTENDS Report

CONSTANTS
    Pages,       \* pages_to_visit
    Resources,   \* the range resources_per_page
    Concurrent,  \* concurrent_requests
    Limit        \* REQUEST_TIMEOUT, in ticks

ASSUME SessionAssumption ==
    /\ Pages \in Nat /\ Concurrent \in Nat \ {0} /\ Limit \in Nat \ {0}
    /\ Resources \subseteq Nat
    /\ \E n \in Resources : \A k \in Resources : k <= n

VARIABLES
    page,        \* page_num
    phase,       \* "next", "main", "resources", "think", "closed"
    resources,   \* num_resources
    begun,       \* resources whose future has been taken from the iterator
    request,     \* per request of the page: "none", "open", "read", "ok", "failed"
    age,         \* ticks since each request was begun
    page_age,    \* ticks since the resources were begun
    successful,  \* successful_responses
    packets_sent, packets_received, latencies, errors,    \* the metrics' record
    wasted,      \* history: requests sent that got no valid answer
    unsent       \* history: requests that failed before they were sent

pageVars == <<page, phase, resources, begun, page_age>>
requests == <<request, age>>
record == <<packets_sent, packets_received, latencies, errors>>
lost == <<wasted, unsent>>
vars == <<pageVars, requests, successful, record, lost>>

Requests == 0..(CHOOSE n \in Resources : \A k \in Resources : k <= n)
All(v) == [r \in Requests |-> v]
In(state) == {r \in Requests : request[r] = state}
InFlight == In("open") \cup In("read")

Init ==
    /\ page = 0 /\ phase = "next" /\ resources = 0 /\ begun = 0 /\ page_age = 0
    /\ request = All("none") /\ age = All(0)
    /\ successful = 0
    /\ packets_sent = 0 /\ packets_received = 0 /\ latencies = <<>> /\ errors = 0
    /\ wasted = 0 /\ unsent = 0

-----------------------------------------------------------------------------
(* The session's loop and browse_page.                                     *)

BeginPage ==
    /\ phase = "next" /\ page < Pages
    /\ phase' = "main"
    /\ resources' \in Resources
    /\ begun' = 0 /\ page_age' = 0
    /\ request' = [All("none") EXCEPT ![0] = "open"]
    /\ age' = All(0)
    /\ UNCHANGED <<page, successful, record, lost>>

\* The page is left with an error, which is recorded; a timeout drops every
\* request still under way.
PageFails ==
    /\ phase' = "think"
    /\ request' = All("none") /\ age' = All(0)
    /\ errors' = errors + 1
    /\ wasted' = wasted + Cardinality(In("read"))
    /\ unsent' = unsent + Cardinality(In("open"))
    /\ UNCHANGED <<page, resources, begun, page_age, successful, packets_sent,
                   packets_received, latencies>>

\* Mutant: the main request has no timeout.
MainTimesOutNever ==
    /\ phase = "main" /\ 0 \in InFlight /\ age[0] > Limit
    /\ PageFails

MainTimesOut ==
    /\ phase = "main" /\ 0 \in InFlight /\ age[0] = Limit
    /\ PageFails

MainFailed ==
    /\ phase = "main" /\ request[0] = "failed"
    /\ PageFails

MainDone ==
    /\ phase = "main" /\ request[0] = "ok"
    /\ phase' = "resources"
    /\ UNCHANGED <<page, resources, begun, page_age, requests, successful, record,
                   lost>>

\* buffer_unordered takes the next future as long as it has room.
BeginResource ==
    /\ phase = "resources"
    /\ begun < resources /\ Cardinality(InFlight) < Concurrent
    /\ begun' = begun + 1
    /\ request' = [request EXCEPT ![begun'] = "open"]
    /\ UNCHANGED <<page, phase, resources, page_age, age, successful,
                   record, lost>>

\* The timeout of one resource: its request is dropped.
ResourceTimesOut(r) ==
    /\ phase = "resources" /\ r \in InFlight /\ age[r] = Limit
    /\ request' = [request EXCEPT ![r] = "failed"]
    /\ IF request[r] = "read"
       THEN wasted' = wasted + 1 /\ UNCHANGED unsent
       ELSE unsent' = unsent + 1 /\ UNCHANGED wasted
    /\ UNCHANGED <<pageVars, age, successful, record>>

AllDone == begun = resources /\ InFlight = {}

\* The timeout over all of them.
PageTimesOut ==
    /\ phase = "resources" /\ page_age = Limit /\ ~AllDone
    /\ PageFails

\* Mutant: a failed resource is counted with the others.
PageDoneAnyway ==
    /\ phase = "resources" /\ AllDone
    /\ phase' = "think"
    /\ successful' = successful + 1 + resources
    /\ UNCHANGED <<page, resources, begun, page_age, requests, record, lost>>

\* The results are collected: the resources count when all are good, and a
\* failed one leaves no error.
PageDone ==
    /\ phase = "resources" /\ AllDone
    /\ phase' = "think"
    /\ successful' = successful + 1 + (IF In("failed") = {} THEN resources ELSE 0)
    /\ UNCHANGED <<page, resources, begun, page_age, requests, record, lost>>

Think ==
    /\ phase = "think"
    /\ phase' = "next"
    /\ page' = page + 1
    /\ UNCHANGED <<resources, begun, page_age, requests, successful, record, lost>>

\* connection.close, mark_connection_end and end_connection.
Close ==
    /\ phase = "next" /\ page = Pages
    /\ phase' = "closed"
    /\ UNCHANGED <<page, resources, begun, page_age, requests, successful, record,
                   lost>>

-----------------------------------------------------------------------------
(* request_resource.                                                       *)

\* The stream is opened, the request written and finished, and counted.
SendRequest(r) ==
    /\ request[r] = "open"
    /\ request' = [request EXCEPT ![r] = "read"]
    /\ packets_sent' = packets_sent + 1
    /\ UNCHANGED <<pageVars, age, successful, packets_received,
                   latencies, errors, lost>>

\* Opening or writing fails, before anything is counted.
SendFails(r) ==
    /\ request[r] = "open"
    /\ request' = [request EXCEPT ![r] = "failed"]
    /\ unsent' = unsent + 1
    /\ UNCHANGED <<pageVars, age, successful, record, wasted>>

\* Mutant: what comes is counted before it is looked at.
ReadFailsCounted(r) ==
    /\ request[r] = "read"
    /\ request' = [request EXCEPT ![r] = "failed"]
    /\ packets_received' = packets_received + 1
    /\ latencies' = Append(latencies, age[r])
    /\ wasted' = wasted + 1
    /\ UNCHANGED <<pageVars, age, successful, packets_sent, errors, unsent>>

\* The answer ends, in order or by an error of read, which is not looked at,
\* and what has come by then is nothing or too little.
ReadFails(r) ==
    /\ request[r] = "read"
    /\ request' = [request EXCEPT ![r] = "failed"]
    /\ wasted' = wasted + 1
    /\ UNCHANGED <<pageVars, age, successful, record, unsent>>

\* It ends and is large enough.
ReadSucceeds(r) ==
    /\ request[r] = "read"
    /\ request' = [request EXCEPT ![r] = "ok"]
    /\ packets_received' = packets_received + 1
    /\ latencies' = Append(latencies, age[r])
    /\ UNCHANGED <<pageVars, age, successful, packets_sent, errors, lost>>

-----------------------------------------------------------------------------
\* The session's task has nothing to do before a request or a timer moves.
Waiting ==
    \/ phase = "main" /\ 0 \in InFlight
    \/ /\ phase = "resources" /\ ~AllDone
       /\ begun = resources \/ Cardinality(InFlight) = Concurrent

\* A tick passes, of every timer that runs and has not yet fired.
Advance ==
    /\ Waiting
    /\ phase = "resources" => page_age < Limit
    /\ \A r \in InFlight : age[r] < Limit
    /\ age' = [r \in Requests |-> IF r \in InFlight THEN age[r] + 1 ELSE age[r]]
    /\ page_age' = IF phase = "resources" THEN page_age + 1 ELSE page_age
    /\ UNCHANGED <<page, phase, resources, begun, request, successful,
                   record, lost>>

RequestStep(r) == SendRequest(r) \/ SendFails(r) \/ ReadFails(r) \/ ReadSucceeds(r)

SessionStep ==
    \/ BeginPage \/ MainTimesOut \/ MainFailed \/ MainDone
    \/ BeginResource \/ PageTimesOut \/ PageDone \/ Think \/ Close
    \/ \E r \in Requests : ResourceTimesOut(r)

Next ==
    \/ SessionStep
    \/ \E r \in Requests : RequestStep(r)
    \/ Advance

Spec == Init /\ [][Next]_vars

\* The session's task is run when a timer or a result wakes it, and time
\* passes; no request need ever move.
FairSpec == Spec /\ WF_vars(SessionStep) /\ WF_vars(Advance)

-----------------------------------------------------------------------------
(* Properties.                                                             *)

\* Every request counted as sent was answered and counted with its latency, or
\* was lost, or is under way; and none is under way beyond its page, its
\* timeout or the page's share of streams, whichever timeout cut the others off
\* (quic_client.rs:281-301).
RequestsAccount ==
    /\ packets_sent = packets_received + wasted + Cardinality(In("read"))
    /\ Len(latencies) = packets_received
    /\ \A i \in DOMAIN latencies : latencies[i] <= Limit
    /\ Cardinality(InFlight) <= Concurrent
    /\ InFlight # {} => phase \in {"main", "resources"}

\* The session's own count of successes (quic_client.rs:202, 302-305) claims no
\* answer that did not come, has one at least for every page that left no
\* error, and is all that was sent when nothing went wrong.
SummaryHonest ==
    /\ successful <= packets_received
    /\ phase \in {"next", "closed"} => successful >= page - errors
    /\ (phase = "closed" /\ errors = 0 /\ wasted = 0 /\ unsent = 0) =>
            successful = packets_sent

\* The percentiles of the session's latencies are what their names say, by the
\* report's interpolation (report.rs:198-203, 604-619) and by the nearest rank
\* that the probe takes of its round trips (ci/src/client.rs:513-529).
PercentilesFaithful ==
    latencies # <<>> => /\ Faithful(LatencyBand(latencies), latencies)
                        /\ Faithful(RttSummary(latencies), latencies)

\* Whatever falls silent, the session closes, and with it the connection's
\* counters are given back (quic_client.rs:221-233).
SessionEnds == <>(phase = "closed")
=============================================================================
