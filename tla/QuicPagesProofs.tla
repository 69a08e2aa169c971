--------------------------- MODULE QuicPagesProofs ---------------------------
(***************************************************************************)
(* The requests of a QUIC session and its own summary of them, for any     *)
(* number of pages, resources and concurrent requests and any timeout; and *)
(* the percentiles of the reports, for any list of values.                 *)
(***************************************************************************)
EXTENDS QuicPages, FiniteSetTheorems, WellFoundedInduction, TLAPS

States == {"none", "open", "read", "ok", "failed"}
Phases == {"next", "main", "resources", "think", "closed"}

Typed ==
    /\ phase \in Phases
    /\ resources \in Requests /\ begun \in 0..resources
    /\ request \in [Requests -> States]
    /\ age \in [Requests -> 0..Limit]
    /\ packets_sent \in Nat /\ packets_received \in Nat /\ wasted \in Nat
    /\ latencies \in Seq(0..Limit)

\* What request_resource has counted.
Account == packets_sent = packets_received + wasted + Cardinality(In("read"))

\* Between pages nothing is under way, and a resource only once begun.
Confined ==
    /\ phase \notin {"main", "resources"} => InFlight = {}
    /\ phase = "main" => begun = 0
    /\ phase \in {"main", "resources"} =>
            \A r \in Requests : r > begun => request[r] = "none"

Bounded == Cardinality(InFlight) <= Concurrent

Inv ==
    /\ Typed
    /\ Account
    /\ Len(latencies) = packets_received
    /\ Confined
    /\ Bounded

\* The greatest number of resources, and with it the names of the requests.
LEMMA RequestsRange ==
    \E n \in Nat : /\ Requests = 0..n
                   /\ Resources \subseteq Requests
  <1> DEFINE n == CHOOSE n \in Resources : \A k \in Resources : k <= n
  <1>1. n \in Resources /\ \A k \in Resources : k <= n
    BY SessionAssumption
  <1>2. n \in Nat
    BY <1>1, SessionAssumption
  <1>3. Requests = 0..n
    BY DEF Requests
  <1>4. Resources \subseteq 0..n
    BY <1>1, <1>2, SessionAssumption
  <1> HIDE DEF n
  <1> QED BY <1>2, <1>3, <1>4

LEMMA Finite ==
    \A S \in SUBSET Requests : IsFiniteSet(S) /\ Cardinality(S) \in Nat
  <1>1. PICK n \in Nat : Requests = 0..n
    BY RequestsRange
  <1>2. IsFiniteSet(Requests)
    BY <1>1, FS_Interval
  <1> QED BY <1>2, FS_Subset, FS_CardinalityType

LEMMA Grows ==
  ASSUME NEW S \in SUBSET Requests, NEW r \in Requests, r \notin S
  PROVE  Cardinality(S \cup {r}) = Cardinality(S) + 1
  BY Finite, FS_AddElement

LEMMA Shrinks ==
  ASSUME NEW S \in SUBSET Requests, NEW r \in S
  PROVE  Cardinality(S \ {r}) = Cardinality(S) - 1
  BY Finite, FS_RemoveElement

LEMMA InvInit == Init => Inv
  <1> SUFFICES ASSUME Init PROVE Inv
    OBVIOUS
  <1>1. 0 \in Requests
    BY RequestsRange
  <1>2. Typed
    BY <1>1, SessionAssumption DEF Init, Typed, All, States, Phases
  <1>3. In("read") = {} /\ InFlight = {}
    BY DEF Init, In, InFlight, All
  <1>4. Account /\ Bounded
    BY <1>3, FS_EmptySet, SessionAssumption DEF Init, Account, Bounded
  <1>5. Confined
    BY <1>3 DEF Init, Confined
  <1> QED BY <1>2, <1>4, <1>5 DEF Init, Inv

-----------------------------------------------------------------------------
(* The session's steps.                                                    *)

LEMMA BeginPageStep == ASSUME Inv, BeginPage PROVE Inv'
  <1>1. 0 \in Requests /\ Resources \subseteq Requests
    BY RequestsRange
  <1>2. Typed'
    BY <1>1, SessionAssumption
    DEF BeginPage, Inv, Typed, All, States, Phases, record, lost
  <1>3. In("read") = {}
    BY DEF BeginPage, Inv, Confined, InFlight
  <1>4. In("read")' = {} /\ InFlight' = {0}
    BY <1>1 DEF BeginPage, In, InFlight, All
  <1>5. Account'
    BY <1>3, <1>4 DEF BeginPage, Inv, Account, record, lost
  <1>6. Bounded'
    <2>1. Cardinality({0}) = 1
      BY FS_Singleton
    <2> QED BY <1>4, <2>1, SessionAssumption DEF Bounded
  <1>7. Confined'
    BY <1>1, RequestsRange DEF BeginPage, Confined, All
  <1> QED BY <1>2, <1>5, <1>6, <1>7 DEF BeginPage, Inv, record

LEMMA PageFailsStep == ASSUME Inv, PageFails PROVE Inv'
  <1>1. In("read")' = {} /\ InFlight' = {}
    BY DEF PageFails, In, InFlight, All
  <1>2. Cardinality(In("read")) \in Nat /\ Cardinality(In("open")) \in Nat
    BY Finite DEF In
  <1>3. Typed'
    BY <1>2, SessionAssumption DEF PageFails, Inv, Typed, All, States, Phases
  <1>4. Account'
    <2>1. wasted' = wasted + Cardinality(In("read")) /\ Cardinality(In("read")') = 0
      BY <1>1, FS_EmptySet DEF PageFails
    <2>2. UNCHANGED <<packets_sent, packets_received>>
      BY DEF PageFails
    <2> QED BY <1>2, <2>1, <2>2 DEF Inv, Typed, Account
  <1>5. Bounded'
    BY <1>1, FS_EmptySet, SessionAssumption DEF Bounded
  <1>6. Confined'
    BY <1>1 DEF PageFails, Confined
  <1> QED BY <1>3, <1>4, <1>5, <1>6 DEF PageFails, Inv

\* A step of the session that leaves the requests.
LEMMA RequestsUntouched ==
  ASSUME Inv, UNCHANGED <<request, resources, begun>>,
         UNCHANGED <<packets_sent, packets_received, latencies, wasted>>,
         age' \in [Requests -> 0..Limit],
         phase' \in Phases,
         \/ phase' = phase
         \/ phase = "main" /\ phase' = "resources"
         \/ InFlight = {} /\ phase' \notin {"main", "resources"}
  PROVE  Inv'
  <1>1. In("read")' = In("read") /\ InFlight' = InFlight
    BY DEF In, InFlight
  <1>2. Typed'
    BY DEF Inv, Typed
  <1>3. Account' /\ Bounded'
    BY <1>1 DEF Inv, Account, Bounded
  <1>4. Confined'
    BY <1>1 DEF Inv, Confined
  <1> QED BY <1>2, <1>3, <1>4 DEF Inv

LEMMA BeginResourceStep == ASSUME Inv, BeginResource PROVE Inv'
  <1>1. begun + 1 \in Requests /\ begun' = begun + 1 /\ begun \in Nat
    BY RequestsRange DEF BeginResource, Inv, Typed
  <1>2. request[begun + 1] = "none"
    BY <1>1 DEF BeginResource, Inv, Confined
  <1>3. request' = [request EXCEPT ![begun + 1] = "open"]
    BY <1>1 DEF BeginResource
  <1>4. /\ In("read")' = In("read")
        /\ InFlight' = InFlight \cup {begun + 1} /\ begun + 1 \notin InFlight
    BY <1>1, <1>2, <1>3 DEF Inv, Typed, In, InFlight
  <1>5. Typed'
    BY <1>1, <1>3, RequestsRange
    DEF BeginResource, Inv, Typed, States, record, lost
  <1>6. Account'
    BY <1>4 DEF BeginResource, Inv, Account, record, lost
  <1>7. Bounded'
    <2>1. InFlight \in SUBSET Requests
      BY DEF InFlight, In
    <2>2. Cardinality(InFlight') = Cardinality(InFlight) + 1
      BY <1>1, <1>4, <2>1, Grows
    <2>3. Cardinality(InFlight) \in Nat
      BY <2>1, Finite
    <2> QED BY <2>2, <2>3, SessionAssumption DEF BeginResource, Bounded
  <1>8. Confined'
    BY <1>1, <1>3, RequestsRange DEF BeginResource, Inv, Typed, Confined
  <1> QED BY <1>5, <1>6, <1>7, <1>8 DEF BeginResource, Inv, record

-----------------------------------------------------------------------------
(* The requests' steps.                                                    *)

\* A request under way leaves the flight; it was counted if it was sent.
LEMMA RequestLands ==
  ASSUME Inv, NEW r \in InFlight, NEW to \in {"ok", "failed"},
         request' = [request EXCEPT ![r] = to],
         UNCHANGED <<phase, resources, begun, age>>
  PROVE  /\ request' \in [Requests -> States]
         /\ Confined' /\ Bounded'
         /\ Cardinality(In("read")') =
              Cardinality(In("read")) - (IF request[r] = "read" THEN 1 ELSE 0)
  <1>1. r \in Requests /\ request[r] \in {"open", "read"}
    BY DEF InFlight, In
  <1>2. request' \in [Requests -> States]
    BY <1>1 DEF Inv, Typed, States
  <1>3. InFlight' = InFlight \ {r} /\ InFlight \in SUBSET Requests
    BY <1>1 DEF Inv, Typed, In, InFlight
  <1>4. Cardinality(InFlight') = Cardinality(InFlight) - 1
    BY <1>3, Shrinks
  <1>5. Bounded'
    BY <1>3, <1>4, Finite, SessionAssumption DEF Inv, Bounded
  <1>6. Confined'
    BY <1>1, <1>3, RequestsRange DEF Inv, Typed, Confined
  <1>7. CASE request[r] = "read"
    <2>1. /\ In("read")' = In("read") \ {r} /\ r \in In("read")
          /\ In("read") \in SUBSET Requests
      BY <1>1, <1>7 DEF Inv, Typed, In
    <2> QED BY <1>2, <1>5, <1>6, <1>7, <2>1, Shrinks
  <1>8. CASE request[r] = "open"
    <2>1. In("read")' = In("read") /\ In("read") \in SUBSET Requests
      BY <1>1, <1>8 DEF Inv, Typed, In
    <2> QED BY <1>2, <1>5, <1>6, <1>8, <2>1, Finite
  <1> QED BY <1>1, <1>7, <1>8

LEMMA SendRequestStep ==
  ASSUME Inv, NEW r \in Requests, SendRequest(r) PROVE Inv'
  <1>1. request[r] = "open" /\ request' = [request EXCEPT ![r] = "read"]
    BY DEF SendRequest
  <1>2. In("read")' = In("read") \cup {r} /\ r \notin In("read")
    BY <1>1 DEF Inv, Typed, In
  <1>3. InFlight' = InFlight
    BY <1>1 DEF Inv, Typed, In, InFlight
  <1>4. Typed'
    <2>1. request' \in [Requests -> States]
      BY <1>1 DEF Inv, Typed, States
    <2>2. /\ packets_sent' = packets_sent + 1
          /\ UNCHANGED <<phase, resources, begun, age>>
          /\ UNCHANGED <<packets_received, wasted, latencies>>
      BY DEF SendRequest, pageVars, lost
    <2> QED BY <2>1, <2>2 DEF Inv, Typed
  <1>5. Account'
    <2>1. In("read") \in SUBSET Requests
      BY DEF In
    <2>2. Cardinality(In("read")') = Cardinality(In("read")) + 1
      BY <1>2, <2>1, Grows
    <2>3. Cardinality(In("read")) \in Nat
      BY <2>1, Finite
    <2> QED BY <2>2, <2>3 DEF SendRequest, Inv, Typed, Account, lost
  <1>6. Bounded' /\ Confined'
    <2>1. phase \in {"main", "resources"} => r <= begun
      BY <1>1, RequestsRange DEF Inv, Typed, Confined
    <2>2. UNCHANGED <<phase, begun>> /\ begun \in Nat
      BY RequestsRange DEF SendRequest, Inv, Typed, pageVars
    <2>3. Bounded'
      BY <1>3 DEF Inv, Bounded
    <2>4. ASSUME phase \in {"main", "resources"}, NEW q \in Requests, q > begun
          PROVE  request'[q] = "none"
      <3>1. q # r
        BY <2>1, <2>2, <2>4, RequestsRange
      <3>2. request[q] = "none"
        BY <2>4 DEF Inv, Confined
      <3> QED BY <1>1, <3>1, <3>2 DEF Inv, Typed
    <2>5. Confined'
      BY <1>3, <2>2, <2>4 DEF Inv, Confined
    <2> QED BY <2>3, <2>5
  <1> QED BY <1>4, <1>5, <1>6 DEF SendRequest, Inv

\* It fails or its timeout drops it.
LEMMA RequestFailsStep ==
  ASSUME Inv, NEW r \in Requests, SendFails(r) \/ ReadFails(r) \/ ResourceTimesOut(r)
  PROVE  Inv'
  <1>1. /\ r \in InFlight /\ request' = [request EXCEPT ![r] = "failed"]
        /\ UNCHANGED <<phase, resources, begun, age>>
        /\ UNCHANGED <<packets_sent, packets_received, latencies>>
    BY DEF SendFails, ReadFails, ResourceTimesOut, InFlight, In, pageVars, record
  <1>2. wasted' = wasted + (IF request[r] = "read" THEN 1 ELSE 0)
    BY DEF SendFails, ReadFails, ResourceTimesOut, Inv, Typed, lost
  <1>3. /\ request' \in [Requests -> States] /\ Confined' /\ Bounded'
        /\ Cardinality(In("read")') =
             Cardinality(In("read")) - (IF request[r] = "read" THEN 1 ELSE 0)
    BY <1>1, RequestLands
  <1>4. Cardinality(In("read")) \in Nat
    BY Finite DEF In
  <1>5. Typed'
    BY <1>1, <1>2, <1>3 DEF Inv, Typed
  <1>6. Account'
    BY <1>1, <1>2, <1>3, <1>4 DEF Inv, Typed, Account
  <1> QED BY <1>1, <1>3, <1>5, <1>6 DEF Inv

LEMMA ReadSucceedsStep ==
  ASSUME Inv, NEW r \in Requests, ReadSucceeds(r) PROVE Inv'
  <1>1. /\ r \in InFlight /\ request[r] = "read"
        /\ request' = [request EXCEPT ![r] = "ok"]
        /\ UNCHANGED <<phase, resources, begun, age>>
        /\ UNCHANGED <<packets_sent, wasted>>
        /\ packets_received' = packets_received + 1
        /\ latencies' = Append(latencies, age[r])
    BY DEF ReadSucceeds, InFlight, In, pageVars, lost
  <1>2. /\ request' \in [Requests -> States] /\ Confined' /\ Bounded'
        /\ Cardinality(In("read")') = Cardinality(In("read")) - 1
    BY <1>1, RequestLands
  <1>3. Cardinality(In("read")) \in Nat
    BY Finite DEF In
  <1>4. latencies' \in Seq(0..Limit) /\ Len(latencies') = Len(latencies) + 1
    BY <1>1 DEF Inv, Typed
  <1>5. Typed'
    BY <1>1, <1>2, <1>4 DEF Inv, Typed
  <1>6. Account'
    BY <1>1, <1>2, <1>3 DEF Inv, Typed, Account
  <1> QED BY <1>1, <1>2, <1>4, <1>5, <1>6 DEF Inv

-----------------------------------------------------------------------------
LEMMA SessionStepKeeps == ASSUME Inv, SessionStep PROVE Inv'
  <1> USE DEF Phases, requests, record, lost
  <1>1. CASE BeginPage
    BY <1>1, BeginPageStep
  <1>2. CASE MainTimesOut \/ MainFailed \/ PageTimesOut
    BY <1>2, PageFailsStep DEF MainTimesOut, MainFailed, PageTimesOut
  <1>3. CASE MainDone
    <2>1. age' \in [Requests -> 0..Limit]
      BY <1>3 DEF MainDone, Inv, Typed
    <2> QED BY <1>3, <2>1, RequestsUntouched DEF MainDone
  <1>4. CASE BeginResource
    BY <1>4, BeginResourceStep
  <1>5. CASE PageDone
    <2>1. age' \in [Requests -> 0..Limit] /\ InFlight = {}
      BY <1>5 DEF PageDone, AllDone, Inv, Typed
    <2> QED BY <1>5, <2>1, RequestsUntouched DEF PageDone
  <1>6. CASE Think \/ Close
    <2>1. age' \in [Requests -> 0..Limit] /\ InFlight = {}
      BY <1>6 DEF Think, Close, Inv, Typed, Confined
    <2> QED BY <1>6, <2>1, RequestsUntouched DEF Think, Close
  <1>7. CASE \E r \in Requests : ResourceTimesOut(r)
    BY <1>7, RequestFailsStep
  <1> QED BY <1>1, <1>2, <1>3, <1>4, <1>5, <1>6, <1>7 DEF SessionStep

LEMMA AdvanceStep == ASSUME Inv, Advance PROVE Inv'
  <1>1. age' \in [Requests -> 0..Limit]
    BY SessionAssumption DEF Advance, Inv, Typed
  <1> QED BY <1>1, RequestsUntouched DEF Advance, Inv, Typed, record, lost

\* The invariant holds after every step.
LEMMA InvNext == Inv /\ [Next]_vars => Inv'
  <1> SUFFICES ASSUME Inv, [Next]_vars PROVE Inv'
    OBVIOUS
  <1>1. CASE UNCHANGED vars
    BY <1>1, RequestsUntouched
    DEF vars, pageVars, requests, record, lost, Inv, Typed
  <1>2. CASE SessionStep
    BY <1>2, SessionStepKeeps
  <1>3. ASSUME NEW r \in Requests, RequestStep(r) PROVE Inv'
    BY <1>3, SendRequestStep, RequestFailsStep, ReadSucceedsStep DEF RequestStep
  <1>4. CASE Advance
    BY <1>4, AdvanceStep
  <1> QED BY <1>1, <1>2, <1>3, <1>4 DEF Next

\* Whatever the timeouts cut off, every request that was counted as sent was
\* answered with its latency, is lost, or is under way within its page, its
\* timeout and the page's share of streams (quic_client.rs:281-301).
THEOREM RequestsAlwaysAccount == Spec => []RequestsAccount
  <1>1. Init => Inv
    BY InvInit
  <1>2. Inv => RequestsAccount
    <2> SUFFICES ASSUME Inv PROVE RequestsAccount
      OBVIOUS
    <2>1. \A i \in DOMAIN latencies : latencies[i] <= Limit
      BY SessionAssumption DEF Inv, Typed
    <2>2. InFlight # {} => phase \in {"main", "resources"}
      BY DEF Inv, Confined
    <2> QED BY <2>1, <2>2 DEF Inv, Account, Bounded, RequestsAccount
  <1> QED BY <1>1, <1>2, InvNext, PTL DEF Spec
-----------------------------------------------------------------------------
(* The session's own count of successes.                                   *)

\* The answers of the page under way, which its end will count or leave.
Uncredited == IF phase \in {"main", "resources"} THEN Cardinality(In("ok")) ELSE 0

\* No answer is counted that has not come; a page that ends without an error counts
\* its main request; and as long as nothing goes wrong every answer is counted or
\* belongs to the page under way.
Credit ==
    /\ page \in Nat /\ successful \in Nat /\ errors \in Nat /\ unsent \in Nat
    /\ phase \in {"main", "resources"} => \A r \in 0..begun : request[r] # "none"
    /\ phase = "resources" => request[0] = "ok"
    /\ successful + Uncredited <= packets_received
    /\ successful + errors >= page + (IF phase = "think" THEN 1 ELSE 0)
    /\ (errors = 0 /\ wasted = 0 /\ unsent = 0) =>
            /\ In("failed") = {}
            /\ packets_received = successful + Uncredited

LEMMA CreditInit == Init => Credit
  <1> SUFFICES ASSUME Init PROVE Credit
    OBVIOUS
  <1>1. In("failed") = {}
    BY DEF Init, In, All
  <1> QED BY <1>1 DEF Init, Credit, Uncredited

LEMMA CountOf == \A s : In(s) \in SUBSET Requests /\ Cardinality(In(s)) \in Nat
  BY Finite DEF In

\* A page begins with nothing to its credit.
LEMMA BeginPageCredit == ASSUME Inv, Credit, BeginPage PROVE Credit'
  <1>1. 0 \in Requests
    BY RequestsRange
  <1>2. /\ request' = [All("none") EXCEPT ![0] = "open"]
        /\ phase = "next" /\ phase' = "main" /\ begun' = 0
        /\ UNCHANGED <<page, successful, packets_received, errors, wasted, unsent>>
    BY DEF BeginPage, record, lost
  <1>3. In("ok")' = {} /\ In("failed")' = {} /\ request'[0] = "open"
    BY <1>1, <1>2 DEF In, All
  <1>4. Uncredited' = 0 /\ Uncredited = 0
    BY <1>2, <1>3, FS_EmptySet DEF Uncredited
  <1> QED BY <1>2, <1>3, <1>4 DEF Credit

\* A page that fails leaves an error for what it does not count.
LEMMA PageFailsCredit ==
  ASSUME Inv, Credit, PageFails, phase \in {"main", "resources"} PROVE Credit'
  <1>1. /\ Cardinality(In("ok")) \in Nat /\ Cardinality(In("open")) \in Nat
        /\ Cardinality(In("read")) \in Nat
    BY CountOf
  <1>2. /\ phase' = "think" /\ errors' = errors + 1
        /\ unsent' = unsent + Cardinality(In("open"))
        /\ UNCHANGED <<page, successful, packets_received>>
    BY DEF PageFails
  <1>3. Uncredited = Cardinality(In("ok")) /\ Uncredited' = 0
    BY <1>2 DEF Uncredited
  <1>4. successful \in Nat /\ errors \in Nat /\ page \in Nat /\ unsent \in Nat
    BY DEF Credit
  <1>5. successful + 0 <= packets_received
    BY <1>1, <1>3, <1>4 DEF Inv, Typed, Credit
  <1> QED BY <1>1, <1>2, <1>3, <1>4, <1>5 DEF Credit

\* The main request's answer leaves the page as it is.
LEMMA MainDoneCredit == ASSUME Inv, Credit, MainDone PROVE Credit'
  <1>1. /\ phase = "main" /\ phase' = "resources" /\ request[0] = "ok"
        /\ UNCHANGED <<page, begun, request, successful, packets_received, errors, wasted, unsent>>
    BY DEF MainDone, requests, record, lost
  <1>2. In("ok")' = In("ok") /\ In("failed")' = In("failed") /\ Uncredited' = Uncredited
    BY <1>1 DEF In, Uncredited
  <1> QED BY <1>1, <1>2 DEF Credit

\* A resource that is begun is no answer yet.
LEMMA BeginResourceCredit == ASSUME Inv, Credit, BeginResource PROVE Credit'
  <1>1. begun + 1 \in Requests /\ begun' = begun + 1 /\ begun \in Nat /\ begun + 1 # 0
    BY RequestsRange DEF BeginResource, Inv, Typed
  <1>2. /\ request' = [request EXCEPT ![begun + 1] = "open"]
        /\ phase = "resources" /\ phase' = phase /\ request[begun + 1] = "none"
        /\ UNCHANGED <<page, successful, packets_received, errors, wasted, unsent>>
    BY <1>1 DEF BeginResource, Inv, Confined, record, lost
  <1>3. In("ok")' = In("ok") /\ In("failed")' = In("failed")
    BY <1>1, <1>2 DEF Inv, Typed, In
  <1>4. Uncredited' = Uncredited
    BY <1>2, <1>3 DEF Uncredited
  <1>5. \A r \in 0..begun' : request'[r] # "none"
    BY <1>1, <1>2, RequestsRange DEF Inv, Typed, Credit
  <1>6. request'[0] = "ok"
    BY <1>1, <1>2, RequestsRange DEF Inv, Typed, Credit
  <1> QED BY <1>2, <1>3, <1>4, <1>5, <1>6 DEF Credit

\* The end of the page counts its main request, and the resources when all of them
\* were answered.
LEMMA PageDoneCredit == ASSUME Inv, Credit, PageDone PROVE Credit'
  <1>1. /\ phase = "resources" /\ phase' = "think" /\ begun = resources /\ InFlight = {}
        /\ successful' = successful + 1 + (IF In("failed") = {} THEN resources ELSE 0)
        /\ UNCHANGED <<page, request, packets_received, errors, wasted, unsent>>
    BY DEF PageDone, AllDone, requests, record, lost
  <1>2. /\ Uncredited = Cardinality(In("ok")) /\ Uncredited' = 0
        /\ In("failed")' = In("failed")
    BY <1>1 DEF Uncredited, In
  <1>3. Cardinality(In("ok")) \in Nat /\ resources \in Nat
    BY CountOf, RequestsRange DEF Inv, Typed
  <1>4. Cardinality(In("ok")) >= 1
    <2>1. In("ok") # {} /\ IsFiniteSet(In("ok"))
      BY <1>1, RequestsRange, Finite DEF Credit, In
    <2> QED BY <1>3, <2>1, FS_EmptySet
  <1>5. ASSUME In("failed") = {} PROVE Cardinality(In("ok")) = resources + 1
    <2>1. In("ok") = 0..resources
      <3>1. ASSUME NEW r \in In("ok") PROVE r \in 0..resources
        BY <1>1, <1>3, <3>1, RequestsRange DEF Inv, Confined, In
      <3>2. ASSUME NEW r \in 0..resources PROVE r \in In("ok")
        <4>1. r \in Requests
          BY <1>3, RequestsRange DEF Inv, Typed
        <4>2. request[r] # "none" /\ request[r] \in States
          BY <1>1, <4>1 DEF Credit, Inv, Typed
        <4>3. request[r] \notin {"open", "read", "failed"}
          BY <1>1, <1>5, <4>1 DEF InFlight, In
        <4> QED BY <4>1, <4>2, <4>3 DEF In, States
      <3> QED BY <3>1, <3>2
    <2> QED BY <1>3, <2>1, FS_Interval
  <1>6. successful \in Nat /\ errors \in Nat /\ page \in Nat /\ packets_received \in Nat
    BY DEF Credit, Inv, Typed
  <1>7. successful' + 0 <= packets_received /\ successful' \in Nat
    BY <1>1, <1>2, <1>3, <1>4, <1>5, <1>6 DEF Credit
  <1>8. successful' + errors >= page + 1
    BY <1>1, <1>3, <1>6 DEF Credit
  <1>9. (errors = 0 /\ wasted = 0 /\ unsent = 0) => packets_received = successful'
    BY <1>1, <1>2, <1>3, <1>5, <1>6 DEF Credit
  <1> QED BY <1>1, <1>2, <1>6, <1>7, <1>8, <1>9 DEF Credit

\* Between pages the counts stay, and the next page comes with what it owes.
LEMMA BetweenCredit == ASSUME Inv, Credit, Think \/ Close PROVE Credit'
  <1>1. /\ phase \in {"think", "next"} /\ phase' \in {"next", "closed"}
        /\ phase = "think" => page' = page + 1
        /\ phase = "next" => page' = page
        /\ UNCHANGED <<request, successful, packets_received, errors, wasted, unsent>>
    BY DEF Think, Close, requests, record, lost
  <1>2. Uncredited = 0 /\ Uncredited' = 0 /\ In("failed")' = In("failed")
    BY <1>1 DEF Uncredited, In
  <1> QED BY <1>1, <1>2 DEF Credit

\* A request that is sent is no answer yet.
LEMMA SendRequestCredit ==
  ASSUME Inv, Credit, NEW r \in Requests, SendRequest(r) PROVE Credit'
  <1>1. /\ request[r] = "open" /\ request' = [request EXCEPT ![r] = "read"]
        /\ UNCHANGED <<page, phase, begun, successful, packets_received, errors, wasted, unsent>>
    BY DEF SendRequest, pageVars, lost
  <1>2. In("ok")' = In("ok") /\ In("failed")' = In("failed")
    BY <1>1 DEF Inv, Typed, In
  <1>3. Uncredited' = Uncredited
    BY <1>1, <1>2 DEF Uncredited
  <1>4. begun \in Nat /\ 0..begun \subseteq Requests
    BY RequestsRange DEF Inv, Typed
  <1>5. phase \in {"main", "resources"} => \A q \in 0..begun : request'[q] # "none"
    BY <1>1, <1>4 DEF Inv, Typed, Credit
  <1>6. phase = "resources" => request'[0] = "ok"
    BY <1>1, <1>4 DEF Inv, Typed, Credit
  <1> QED BY <1>1, <1>2, <1>3, <1>5, <1>6 DEF Credit

\* A request that fails is wasted or unsent.
LEMMA RequestFailsCredit ==
  ASSUME Inv, Credit, NEW r \in Requests, SendFails(r) \/ ReadFails(r) \/ ResourceTimesOut(r)
  PROVE  Credit'
  <1>1. /\ request[r] \in {"open", "read"} /\ request' = [request EXCEPT ![r] = "failed"]
        /\ UNCHANGED <<page, phase, begun, successful, packets_received, errors>>
    BY DEF SendFails, ReadFails, ResourceTimesOut, InFlight, In, pageVars, record
  <1>2. \/ wasted' = wasted + 1 /\ unsent' = unsent
        \/ wasted' = wasted /\ unsent' = unsent + 1
    BY DEF SendFails, ReadFails, ResourceTimesOut
  <1>3. In("ok")' = In("ok")
    BY <1>1 DEF Inv, Typed, In
  <1>4. Uncredited' = Uncredited
    BY <1>1, <1>3 DEF Uncredited
  <1>5. begun \in Nat /\ 0..begun \subseteq Requests
    BY RequestsRange DEF Inv, Typed
  <1>6. phase \in {"main", "resources"} => \A q \in 0..begun : request'[q] # "none"
    BY <1>1, <1>5 DEF Inv, Typed, Credit
  <1>7. phase = "resources" => request'[0] = "ok"
    BY <1>1, <1>5 DEF Inv, Typed, Credit
  <1>8. unsent \in Nat /\ wasted \in Nat
    BY DEF Credit, Inv, Typed
  <1>9. unsent' \in Nat /\ ~(wasted' = 0 /\ unsent' = 0)
    BY <1>2, <1>8
  <1> QED BY <1>1, <1>4, <1>6, <1>7, <1>9 DEF Credit

\* An answer is one more on either side.
LEMMA ReadSucceedsCredit ==
  ASSUME Inv, Credit, NEW r \in Requests, ReadSucceeds(r) PROVE Credit'
  <1>1. /\ request[r] = "read" /\ request' = [request EXCEPT ![r] = "ok"]
        /\ packets_received' = packets_received + 1
        /\ UNCHANGED <<page, phase, begun, successful, errors, wasted, unsent>>
    BY DEF ReadSucceeds, pageVars, lost
  <1>2. phase \in {"main", "resources"}
    BY <1>1 DEF Inv, Confined, InFlight, In
  <1>3. /\ In("ok")' = In("ok") \cup {r} /\ r \notin In("ok")
        /\ In("failed")' = In("failed")
    BY <1>1 DEF Inv, Typed, In
  <1>4. Uncredited' = Uncredited + 1 /\ Uncredited \in Nat
    <2>1. Cardinality(In("ok")') = Cardinality(In("ok")) + 1
      BY <1>3, CountOf, Grows
    <2> QED BY <1>1, <1>2, <2>1, CountOf DEF Uncredited
  <1>5. begun \in Nat /\ 0..begun \subseteq Requests
    BY RequestsRange DEF Inv, Typed
  <1>6. \A q \in 0..begun : request'[q] # "none"
    BY <1>1, <1>2, <1>5 DEF Inv, Typed, Credit
  <1>7. phase = "resources" => request'[0] = "ok"
    BY <1>1, <1>5 DEF Inv, Typed, Credit
  <1>8. successful \in Nat /\ packets_received \in Nat
    BY DEF Credit, Inv, Typed
  <1>9. /\ successful + Uncredited' <= packets_received'
        /\ packets_received = successful + Uncredited
             => packets_received' = successful + Uncredited'
    BY <1>1, <1>4, <1>8 DEF Credit
  <1> QED BY <1>1, <1>3, <1>6, <1>7, <1>9 DEF Credit

LEMMA CreditNext == Inv /\ Credit /\ [Next]_vars => Credit'
  <1> SUFFICES ASSUME Inv, Credit, [Next]_vars PROVE Credit'
    OBVIOUS
  <1>1. CASE BeginPage \/ MainDone \/ BeginResource \/ PageDone \/ Think \/ Close
    BY <1>1, BeginPageCredit, MainDoneCredit, BeginResourceCredit, PageDoneCredit, BetweenCredit
  <1>2. CASE MainTimesOut \/ MainFailed \/ PageTimesOut
    BY <1>2, PageFailsCredit DEF MainTimesOut, MainFailed, PageTimesOut
  <1>3. ASSUME NEW r \in Requests, ResourceTimesOut(r) \/ RequestStep(r) PROVE Credit'
    BY <1>3, SendRequestCredit, RequestFailsCredit, ReadSucceedsCredit DEF RequestStep
  <1>4. CASE Advance \/ UNCHANGED vars
    <2>1. UNCHANGED <<page, phase, begun, request, successful, packets_received, errors,
                      wasted, unsent>>
      BY <1>4 DEF Advance, vars, pageVars, requests, record, lost
    <2>2. Uncredited' = Uncredited /\ In("failed")' = In("failed")
      BY <2>1 DEF Uncredited, In
    <2> QED BY <2>1, <2>2 DEF Credit
  <1> QED BY <1>1, <1>2, <1>3, <1>4 DEF Next, SessionStep

\* The session's summary claims no answer that did not come, one at least for every
\* page that left no error, and all that was sent when nothing went wrong
\* (quic_client.rs:202, 302-305), for any pages, resources, timeouts and failures.
THEOREM SummaryAlwaysHonest == Spec => []SummaryHonest
  <1>1. Inv /\ Credit => SummaryHonest
    <2> SUFFICES ASSUME Inv, Credit PROVE SummaryHonest
      OBVIOUS
    <2>1. Cardinality(In("ok")) \in Nat /\ Cardinality(In("read")) \in Nat
      BY CountOf
    <2>2. /\ successful \in Nat /\ errors \in Nat /\ page \in Nat /\ Uncredited \in Nat
          /\ packets_received \in Nat
      BY <2>1 DEF Inv, Typed, Credit, Uncredited
    <2>3. successful <= packets_received
      BY <2>2 DEF Credit
    <2>4. phase \in {"next", "closed"} => successful >= page - errors
      BY <2>2 DEF Credit
    <2>5. ASSUME phase = "closed", errors = 0, wasted = 0, unsent = 0
          PROVE  successful = packets_sent
      <3>1. Uncredited = 0 /\ In("read") = {}
        BY <2>5 DEF Uncredited, Inv, Confined, InFlight
      <3>2. Cardinality(In("read")) = 0
        BY <3>1, FS_EmptySet
      <3> QED BY <2>2, <2>5, <3>1, <3>2 DEF Credit, Inv, Account
    <2> QED BY <2>3, <2>4, <2>5 DEF SummaryHonest
  <1> QED BY InvInit, InvNext, CreditInit, CreditNext, <1>1, PTL DEF Spec

-----------------------------------------------------------------------------
(* What a percentile says of the values, for any values.                   *)

LEMMA LeastOne ==
  ASSUME NEW N \in SUBSET Nat, N # {}
  PROVE  \E m \in N : \A n \in N : m <= n
  <1> DEFINE R == {ss \in Nat \X Nat : ss[1] < ss[2]}
  <1>1. IsWellFoundedOn(R, Nat)
    BY NatLessThanWellFounded DEF OpToRel
  <1>2. \A x, y \in Nat : y < x => <<y, x>> \in R
    OBVIOUS
  <1> HIDE DEF R
  <1>3. PICK m \in N : \A y \in N : ~(<<y, m>> \in R)
    BY <1>1, WFMin
  <1>4. ASSUME NEW n \in N PROVE m <= n
    <2>1. m \in Nat /\ n \in Nat /\ <<n, m>> \notin R
      BY <1>3
    <2>2. ~(n < m)
      BY <1>2, <2>1
    <2> QED BY <2>1, <2>2
  <1> QED BY <1>3, <1>4

UpTo(s, x) == {i \in DOMAIN s : s[i] <= x}
Below(s, x) == {i \in DOMAIN s : s[i] < x}

\* x is the k-th smallest value.
IsAt(s, k, x) ==
    /\ x \in Range(s)
    /\ Cardinality(UpTo(s, x)) >= k
    /\ Cardinality(Below(s, x)) < k

LEMMA Places ==
  ASSUME NEW m \in Nat, NEW s \in Seq(0..m)
  PROVE  /\ IsFiniteSet(DOMAIN s) /\ Cardinality(DOMAIN s) = Len(s) /\ Len(s) \in Nat
         /\ \A S \in SUBSET DOMAIN s :
               /\ IsFiniteSet(S) /\ Cardinality(S) \in Nat
               /\ \A T \in SUBSET S : Cardinality(T) <= Cardinality(S)
               /\ Cardinality(DOMAIN s \ S) = Len(s) - Cardinality(S)
  <1>1. DOMAIN s = 1..Len(s) /\ Len(s) \in Nat
    OBVIOUS
  <1>2. IsFiniteSet(DOMAIN s) /\ Cardinality(DOMAIN s) = Len(s)
    <2>1. PICK n \in Nat : n = Len(s)
      BY <1>1
    <2>2. 1 \in Int /\ n \in Int
      OBVIOUS
    <2>3. IsFiniteSet(1..n) /\ Cardinality(1..n) = IF 1 > n THEN 0 ELSE n - 1 + 1
      BY <2>2, FS_Interval, Zenon
    <2>4. (IF 1 > n THEN 0 ELSE n - 1 + 1) = n
      OBVIOUS
    <2> QED BY <1>1, <2>1, <2>3, <2>4
  <1>3. ASSUME NEW S \in SUBSET DOMAIN s
        PROVE  /\ IsFiniteSet(S) /\ Cardinality(S) \in Nat
               /\ \A T \in SUBSET S : Cardinality(T) <= Cardinality(S)
               /\ Cardinality(DOMAIN s \ S) = Len(s) - Cardinality(S)
    <2>1. IsFiniteSet(S) /\ Cardinality(S) \in Nat
      BY <1>2, FS_Subset, FS_CardinalityType
    <2>2. \A T \in SUBSET S : Cardinality(T) <= Cardinality(S)
      BY <2>1, FS_Subset
    <2>3. Cardinality(DOMAIN s \ S) = Cardinality(DOMAIN s) - Cardinality(DOMAIN s \cap S)
      BY <1>2, FS_Difference
    <2>4. DOMAIN s \cap S = S
      OBVIOUS
    <2> QED BY <1>2, <2>1, <2>2, <2>3, <2>4
  <1> QED BY <1>1, <1>2, <1>3

\* Every place has its value: the least that enough others do not exceed.
LEMMA PlaceTaken ==
  ASSUME NEW m \in Nat, NEW s \in Seq(0..m), NEW k \in DOMAIN s
  PROVE  \E x : IsAt(s, k, x)
  <1> DEFINE N == {x \in Nat : Cardinality(UpTo(s, x)) >= k}
  <1>1. k \in Nat /\ k >= 1 /\ k <= Len(s) /\ \A i \in DOMAIN s : s[i] \in 0..m
    OBVIOUS
  <1>2. m \in N
    <2>1. UpTo(s, m) = DOMAIN s
      <3>1. \A i \in DOMAIN s : s[i] <= m
        BY <1>1
      <3> QED BY <3>1 DEF UpTo
    <2> QED BY <1>1, <2>1, Places
  <1>3. PICK x \in N : \A y \in N : x <= y
    <2>1. N \in SUBSET Nat /\ N # {}
      BY <1>2
    <2> HIDE DEF N
    <2> QED BY <2>1, LeastOne
  <1>4. Cardinality(Below(s, x)) < k
    <2>1. CASE x = 0
      <3>1. Below(s, x) = {}
        BY <1>1, <2>1 DEF Below
      <3> QED BY <1>1, <3>1, FS_EmptySet
    <2>2. CASE x # 0
      <3>1. x - 1 \in Nat /\ ~(x <= x - 1)
        BY <1>3, <2>2
      <3>2. x - 1 \notin N
        BY <1>3, <3>1
      <3>3. UpTo(s, x - 1) = Below(s, x)
        BY <1>1, <3>1, <1>3 DEF UpTo, Below
      <3>4. Cardinality(Below(s, x)) \in Nat
        BY Places DEF Below
      <3> QED BY <1>1, <3>1, <3>2, <3>3, <3>4
    <2> QED BY <2>1, <2>2
  <1>5. x \in Range(s)
    <2>1. SUFFICES ASSUME \A i \in DOMAIN s : s[i] # x PROVE FALSE
      BY DEF Range
    <2>2. UpTo(s, x) = Below(s, x)
      BY <1>1, <1>3, <2>1 DEF UpTo, Below
    <2>3. Cardinality(Below(s, x)) \in Nat
      BY Places DEF Below
    <2> QED BY <1>1, <1>3, <1>4, <2>2, <2>3
  <1> QED BY <1>3, <1>4, <1>5 DEF IsAt

LEMMA SortedAt ==
  ASSUME NEW m \in Nat, NEW s \in Seq(0..m)
  PROVE  /\ DOMAIN Sorted(s) = DOMAIN s
         /\ \A k \in DOMAIN s : IsAt(s, k, Sorted(s)[k]) /\ Sorted(s)[k] \in 0..m
  <1>1. Sorted(s) = [k \in DOMAIN s |-> CHOOSE x : IsAt(s, k, x)]
    BY DEF Sorted, IsAt, UpTo, Below
  <1>2. ASSUME NEW k \in DOMAIN s
        PROVE  IsAt(s, k, Sorted(s)[k]) /\ Sorted(s)[k] \in 0..m
    <2>1. Sorted(s)[k] = CHOOSE x : IsAt(s, k, x)
      BY <1>1
    <2>2. \E x : IsAt(s, k, x)
      BY PlaceTaken
    <2>3. IsAt(s, k, Sorted(s)[k])
      BY <2>1, <2>2
    <2> QED BY <2>3 DEF IsAt, Range
  <1> QED BY <1>1, <1>2

\* What is sorted ascends.
LEMMA SortedAscends ==
  ASSUME NEW m \in Nat, NEW s \in Seq(0..m), NEW k \in DOMAIN s, NEW l \in DOMAIN s, k <= l
  PROVE  Sorted(s)[k] <= Sorted(s)[l]
  <1> DEFINE x == Sorted(s)[k]
             y == Sorted(s)[l]
  <1>1. x \in 0..m /\ y \in 0..m /\ IsAt(s, k, x) /\ IsAt(s, l, y)
    BY SortedAt
  <1> HIDE DEF x, y
  <1>2. SUFFICES ASSUME y < x PROVE FALSE
    BY <1>1 DEF x, y
  <1>3. UpTo(s, y) \subseteq Below(s, x) /\ Below(s, x) \in SUBSET DOMAIN s
    BY <1>1, <1>2 DEF UpTo, Below
  <1>4. /\ Cardinality(UpTo(s, y)) <= Cardinality(Below(s, x))
        /\ Cardinality(UpTo(s, y)) \in Nat /\ Cardinality(Below(s, x)) \in Nat
    BY <1>3, Places
  <1> QED BY <1>1, <1>4 DEF IsAt

\* How many values lie on either side of a figure that is beyond the value at k.
LEMMA Ranks ==
  ASSUME NEW m \in Nat, NEW s \in Seq(0..m), NEW k \in DOMAIN s, NEW v \in Nat
  PROVE  /\ Cardinality(AtMost(s, v)) \in 0..Len(s)
         /\ Cardinality(AtLeast(s, v)) \in 0..Len(s)
         /\ 100 * Sorted(s)[k] <= v => Cardinality(AtMost(s, v)) >= k
         /\ v <= 100 * Sorted(s)[k] => Cardinality(AtLeast(s, v)) >= Len(s) - k + 1
  <1> DEFINE x == Sorted(s)[k]
  <1>1. x \in 0..m /\ IsAt(s, k, x) /\ \A i \in DOMAIN s : s[i] \in 0..m
    BY SortedAt
  <1> HIDE DEF x
  <1>2. /\ AtMost(s, v) \in SUBSET DOMAIN s /\ AtLeast(s, v) \in SUBSET DOMAIN s
        /\ UpTo(s, x) \in SUBSET DOMAIN s /\ Below(s, x) \in SUBSET DOMAIN s
        /\ DOMAIN s \in SUBSET DOMAIN s
    BY DEF AtMost, AtLeast, UpTo, Below
  <1>3. Cardinality(AtMost(s, v)) \in 0..Len(s) /\ Cardinality(AtLeast(s, v)) \in 0..Len(s)
    <2>1. /\ Cardinality(AtMost(s, v)) \in Nat /\ Cardinality(AtLeast(s, v)) \in Nat
          /\ Cardinality(AtMost(s, v)) <= Cardinality(DOMAIN s)
          /\ Cardinality(AtLeast(s, v)) <= Cardinality(DOMAIN s)
      BY <1>2, Places
    <2> QED BY <2>1, Places
  <1>4. 100 * x <= v => Cardinality(AtMost(s, v)) >= k
    <2>1. 100 * x <= v => UpTo(s, x) \subseteq AtMost(s, v)
      BY <1>1 DEF UpTo, AtMost
    <2>2. 100 * x <= v => Cardinality(UpTo(s, x)) <= Cardinality(AtMost(s, v))
      BY <1>2, <2>1, Places
    <2>3. Cardinality(UpTo(s, x)) \in Nat /\ Cardinality(AtMost(s, v)) \in Nat
      BY <1>2, Places
    <2> QED BY <1>1, <2>2, <2>3 DEF IsAt
  <1>5. v <= 100 * x => Cardinality(AtLeast(s, v)) >= Len(s) - k + 1
    <2>1. v <= 100 * x => DOMAIN s \ Below(s, x) \subseteq AtLeast(s, v)
      BY <1>1 DEF Below, AtLeast
    <2>2. v <= 100 * x => Cardinality(DOMAIN s \ Below(s, x)) <= Cardinality(AtLeast(s, v))
      BY <1>2, <2>1, Places
    <2>3. Cardinality(DOMAIN s \ Below(s, x)) = Len(s) - Cardinality(Below(s, x))
      BY <1>2, Places
    <2>4. /\ Cardinality(Below(s, x)) \in Nat /\ Cardinality(AtLeast(s, v)) \in Nat
          /\ Len(s) \in Nat
      BY <1>2, Places
    <2> QED BY <1>1, <2>2, <2>3, <2>4 DEF IsAt
  <1> QED BY <1>3, <1>4, <1>5 DEF x

-----------------------------------------------------------------------------
\* A percentile's two neighbours among n values, and its weight.
Lower(n, p) == (p * (n - 1)) \div 100
Upper(n, p) == (p * (n - 1) + 99) \div 100
Weight(n, p) == (p * (n - 1)) % 100

LEMMA Neighbours ==
  ASSUME NEW n \in Nat, n # 0, NEW p \in 0..100
  PROVE  /\ Lower(n, p) \in Nat /\ Upper(n, p) \in Nat /\ Weight(n, p) \in 0..99
         /\ p * (n - 1) \in Nat
         /\ p * (n - 1) = 100 * Lower(n, p) + Weight(n, p)
         /\ Upper(n, p) = IF Weight(n, p) = 0 THEN Lower(n, p) ELSE Lower(n, p) + 1
         /\ Lower(n, p) + 1 \in 1..n /\ Upper(n, p) + 1 \in 1..n
  <1>1. PICK i \in Nat : i = p * (n - 1) /\ i <= 100 * (n - 1)
    <2>1. p * (n - 1) \in Nat /\ p * (n - 1) <= 100 * (n - 1)
      OBVIOUS
    <2> QED BY <2>1
  <1>2. /\ i \div 100 \in Nat /\ i % 100 \in 0..99 /\ i = 100 * (i \div 100) + (i % 100)
        /\ (i + 99) \div 100 = IF (i % 100) = 0 THEN i \div 100 ELSE i \div 100 + 1
    OBVIOUS
  <1>3. i \div 100 <= n - 1 /\ (i + 99) \div 100 <= n - 1
    BY <1>1, <1>2
  <1> QED BY <1>1, <1>2, <1>3 DEF Lower, Upper, Weight

\* An interpolated value lies between its neighbours.
LEMMA Between ==
  ASSUME NEW a \in Nat, NEW b \in Nat, a <= b, NEW w \in 0..99
  PROVE  /\ a * (100 - w) + b * w \in Nat
         /\ 100 * a <= a * (100 - w) + b * w
         /\ a * (100 - w) + b * w <= 100 * b
  <1>1. PICK d \in Nat : b = a + d
    <2>1. b - a \in Nat /\ b = a + (b - a)
      OBVIOUS
    <2> QED BY <2>1
  <1>2. PICK g \in Nat : g = d * w /\ g <= 100 * d
    <2>1. PICK g \in Nat, h \in Nat : g = d * w /\ h = d * (100 - w)
      OBVIOUS
    <2>2. g + h = 100 * d
      BY <2>1
    <2>3. g <= 100 * d
      BY <2>2
    <2> QED BY <2>1, <2>3
  <1>3. PICK v \in Int : v = a * (100 - w) + b * w /\ v = 100 * a + g
    <2>1. a * (100 - w) + b * w = 100 * a + d * w
      BY <1>1
    <2> QED BY <1>2, <2>1
  <1>4. v \in Nat /\ 100 * a <= v /\ v <= 100 * b
    BY <1>1, <1>2, <1>3
  <1> QED BY <1>3, <1>4

\* More weight for the greater gives no less.
LEMMA Heavier ==
  ASSUME NEW a \in Nat, NEW b \in Nat, a <= b, NEW w \in 0..99, NEW z \in 0..99, w <= z
  PROVE  a * (100 - w) + b * w <= a * (100 - z) + b * z
  <1>1. PICK d \in Nat : b = a + d
    <2>1. b - a \in Nat /\ b = a + (b - a)
      OBVIOUS
    <2> QED BY <2>1
  <1>2. PICK e \in Nat : z = w + e
    <2>1. z - w \in Nat /\ z = w + (z - w)
      OBVIOUS
    <2> QED BY <2>1
  <1>3. PICK g \in Nat, h \in Nat : g = d * w /\ h = d * z /\ g <= h
    <2>1. PICK g \in Nat, h \in Nat, f \in Nat : g = d * w /\ h = d * z /\ f = d * e
      OBVIOUS
    <2>2. h = g + f
      BY <1>2, <2>1
    <2>3. g <= h
      BY <2>2
    <2> QED BY <2>1, <2>3
  <1>4. PICK u \in Int : u = a * (100 - w) + b * w /\ u = 100 * a + g
    <2>1. a * (100 - w) + b * w = 100 * a + d * w
      BY <1>1
    <2> QED BY <1>3, <2>1
  <1>5. PICK v \in Int : v = a * (100 - z) + b * z /\ v = 100 * a + h
    <2>1. a * (100 - z) + b * z = 100 * a + d * z
      BY <1>1
    <2> QED BY <1>3, <2>1
  <1>6. u <= v
    BY <1>3, <1>4, <1>5
  <1> QED BY <1>4, <1>5, <1>6

\* What Percentile computes.
LEMMA PercentileLies ==
  ASSUME NEW m \in Nat, NEW s \in Seq(0..m), s # <<>>, NEW p \in 0..100
  PROVE  LET n == Len(s)
             low == Sorted(s)[Lower(n, p) + 1]
             high == Sorted(s)[Upper(n, p) + 1]
             w == Weight(n, p)
         IN  /\ Percentile(Sorted(s), p) = low * (100 - w) + high * w
             /\ Percentile(Sorted(s), p) \in Nat
             /\ 100 * low <= Percentile(Sorted(s), p)
             /\ Percentile(Sorted(s), p) <= 100 * high
             /\ low \in Nat /\ high \in Nat /\ low <= high
  <1> DEFINE n == Len(s)
             low == Sorted(s)[Lower(n, p) + 1]
             high == Sorted(s)[Upper(n, p) + 1]
             w == Weight(n, p)
  <1>1. n \in Nat /\ n # 0 /\ DOMAIN s = 1..n
    OBVIOUS
  <1>2. /\ Lower(n, p) + 1 \in DOMAIN s /\ Upper(n, p) + 1 \in DOMAIN s
        /\ Lower(n, p) + 1 <= Upper(n, p) + 1 /\ w \in 0..99
    <2>1. PICK l \in Nat : l = Len(s) /\ l # 0
      BY <1>1
    <2>2. /\ Lower(l, p) + 1 \in 1..l /\ Upper(l, p) + 1 \in 1..l
          /\ Lower(l, p) + 1 <= Upper(l, p) + 1 /\ Weight(l, p) \in 0..99
      <3> HIDE DEF n, low, high, w
      <3>1. /\ Lower(l, p) \in Nat /\ Weight(l, p) \in 0..99
            /\ Lower(l, p) + 1 \in 1..l /\ Upper(l, p) + 1 \in 1..l
            /\ Upper(l, p) = IF Weight(l, p) = 0 THEN Lower(l, p) ELSE Lower(l, p) + 1
        BY <2>1, Neighbours
      <3> QED BY <3>1
    <2> QED BY <1>1, <2>1, <2>2
  <1>3. low \in Nat /\ high \in Nat /\ low <= high
    BY <1>2, SortedAt, SortedAscends
  <1>4. DOMAIN Sorted(s) = 1..n /\ Sorted(s) # <<>> /\ Len(Sorted(s)) = n
    <2>1. DOMAIN Sorted(s) = 1..n /\ 1 \in 1..n
      BY <1>1, SortedAt
    <2> QED BY <1>1, <2>1
  <1>5. Percentile(Sorted(s), p) = low * (100 - w) + high * w
    BY <1>4 DEF Percentile, Lower, Upper, Weight
  <1> HIDE DEF low, high, w
  <1>6. /\ low * (100 - w) + high * w \in Nat
        /\ 100 * low <= low * (100 - w) + high * w
        /\ low * (100 - w) + high * w <= 100 * high
    BY <1>2, <1>3, Between
  <1> QED BY <1>3, <1>5, <1>6 DEF low, high, w

LEMMA PercentilesAscend ==
  ASSUME NEW m \in Nat, NEW s \in Seq(0..m), s # <<>>,
         NEW p \in 0..100, NEW q \in 0..100, p <= q
  PROVE  Percentile(Sorted(s), p) <= Percentile(Sorted(s), q)
  <1>1. PICK n : n = Len(s) /\ n \in Nat /\ n # 0 /\ DOMAIN s = 1..n
    OBVIOUS
  <1>2. p * (n - 1) <= q * (n - 1)
    <2>1. PICK e \in Nat : q = p + e
      <3>1. q - p \in Nat /\ q = p + (q - p)
        OBVIOUS
      <3> QED BY <3>1
    <2>2. PICK k \in Nat : k = n - 1
      BY <1>1
    <2>3. q * k = p * k + e * k /\ e * k \in Nat /\ p * k \in Nat
      BY <2>1
    <2> QED BY <2>2, <2>3
  <1>3. PICK a, b, w, c, d, z :
          /\ a = Lower(n, p) /\ b = Upper(n, p) /\ w = Weight(n, p)
          /\ c = Lower(n, q) /\ d = Upper(n, q) /\ z = Weight(n, q)
    OBVIOUS
  <1>4. /\ a \in Nat /\ b \in Nat /\ w \in 0..99 /\ c \in Nat /\ d \in Nat /\ z \in 0..99
        /\ b = (IF w = 0 THEN a ELSE a + 1) /\ d = (IF z = 0 THEN c ELSE c + 1)
        /\ a + 1 \in 1..n /\ b + 1 \in 1..n /\ c + 1 \in 1..n /\ d + 1 \in 1..n
        /\ 100 * a + w <= 100 * c + z
    BY <1>1, <1>2, <1>3, Neighbours
  <1>5. PICK f : /\ f = Sorted(s)
                 /\ \A k, l \in 1..n : k <= l => f[k] <= f[l]
                 /\ \A k \in 1..n : f[k] \in Nat
    BY <1>1, SortedAt, SortedAscends
  <1>6. /\ Percentile(f, p) = f[a + 1] * (100 - w) + f[b + 1] * w
        /\ Percentile(f, p) \in Nat /\ Percentile(f, p) <= 100 * f[b + 1]
        /\ Percentile(f, q) = f[c + 1] * (100 - z) + f[d + 1] * z
        /\ Percentile(f, q) \in Nat /\ 100 * f[c + 1] <= Percentile(f, q)
    BY <1>1, <1>3, <1>5, PercentileLies
  <1>7. CASE b <= c
    <2>1. f[b + 1] <= f[c + 1] /\ f[b + 1] \in Nat /\ f[c + 1] \in Nat
      BY <1>4, <1>5, <1>7
    <2> QED BY <1>5, <1>6, <2>1
  <1>8. CASE ~(b <= c)
    <2>1. a = c /\ b = a + 1 /\ d = b /\ w <= z
      BY <1>4, <1>8
    <2>2. f[a + 1] \in Nat /\ f[b + 1] \in Nat /\ f[a + 1] <= f[b + 1]
      BY <1>4, <1>5, <2>1
    <2>3. f[a + 1] * (100 - w) + f[b + 1] * w <= f[a + 1] * (100 - z) + f[b + 1] * z
      BY <1>4, <2>1, <2>2, Heavier
    <2> QED BY <1>5, <1>6, <2>1, <2>3
  <1> QED BY <1>7, <1>8

\* The two ranks of a percentile, as bounds on the values at either side of it.
LEMMA PercentileRanks ==
  ASSUME NEW m \in Nat, NEW s \in Seq(0..m), s # <<>>, NEW p \in 0..100
  PROVE  LET v == Percentile(Sorted(s), p)
         IN  /\ v \in Nat
             /\ Cardinality(AtMost(s, v)) \in Lower(Len(s), p) + 1 .. Len(s)
             /\ Cardinality(AtLeast(s, v)) \in Len(s) - Upper(Len(s), p) .. Len(s)
  <1>1. PICK n \in Nat : n = Len(s) /\ n # 0 /\ DOMAIN s = 1..n
    OBVIOUS
  <1>2. PICK a \in Nat, b \in Nat : /\ a = Lower(n, p) /\ b = Upper(n, p)
                                    /\ a + 1 \in DOMAIN s /\ b + 1 \in DOMAIN s
    BY <1>1, Neighbours
  <1>3. PICK v \in Nat : /\ v = Percentile(Sorted(s), p)
                         /\ 100 * Sorted(s)[a + 1] <= v /\ v <= 100 * Sorted(s)[b + 1]
    BY <1>1, <1>2, PercentileLies
  <1>4. /\ Cardinality(AtMost(s, v)) \in 0..n /\ Cardinality(AtLeast(s, v)) \in 0..n
        /\ Cardinality(AtMost(s, v)) >= a + 1
        /\ Cardinality(AtLeast(s, v)) >= n - (b + 1) + 1
    BY <1>1, <1>2, <1>3, Ranks
  <1>5. /\ Cardinality(AtMost(s, v)) \in a + 1 .. n
        /\ Cardinality(AtLeast(s, v)) \in n - b .. n
    BY <1>1, <1>2, <1>4
  <1> QED BY <1>1, <1>2, <1>3, <1>5

LEMMA BandFaithful ==
  ASSUME NEW m \in Nat, NEW s \in Seq(0..m), s # <<>>
  PROVE  Faithful(LatencyBand(s), s)
  <1>1. PICK n \in Nat : n = Len(s) /\ n # 0
    OBVIOUS
  <1>2. PICK x, y, z : /\ x = Percentile(Sorted(s), 50) /\ y = Percentile(Sorted(s), 95)
                       /\ z = Percentile(Sorted(s), 99)
    OBVIOUS
  <1>3. LatencyBand(s) = [p50 |-> x, p95 |-> y, p99 |-> z]
    BY <1>2 DEF LatencyBand
  <1>4. x <= y /\ y <= z
    BY <1>2, PercentilesAscend
  <1>5. PICK a, b, c, d, e :
          /\ a = Lower(n, 50) /\ b = Upper(n, 50)
          /\ c = Lower(n, 95) /\ d = Lower(n, 99) /\ e = Upper(n, 99)
    OBVIOUS
  <1>6. /\ 2 * (a + 1) >= n /\ 2 * (n - b) >= n
        /\ 100 * (n - c - 2) <= 5 * n /\ 100 * (n - d - 2) <= n
        /\ a \in Nat /\ b \in Nat /\ c \in Nat /\ d \in Nat /\ e \in 0..(n - 1)
    BY <1>1, <1>5 DEF Lower, Upper
  <1>7. PICK c50, d50, c95, c99, d99 :
          /\ c50 = Cardinality(AtMost(s, x)) /\ d50 = Cardinality(AtLeast(s, x))
          /\ c95 = Cardinality(AtMost(s, y)) /\ c99 = Cardinality(AtMost(s, z))
          /\ d99 = Cardinality(AtLeast(s, z))
          /\ c50 \in a + 1 .. n /\ d50 \in n - b .. n
          /\ c95 \in c + 1 .. n /\ c99 \in d + 1 .. n /\ d99 \in n - e .. n
    BY <1>1, <1>2, <1>5, PercentileRanks
  <1>8. /\ 2 * c50 >= n /\ 2 * d50 >= n
        /\ 100 * (n - c95 - 1) <= 5 * n /\ 100 * (n - c99 - 1) <= n
        /\ c50 # 0 /\ d99 # 0
    <2>1. /\ c50 \in a + 1 .. n /\ d50 \in n - b .. n
          /\ c95 \in c + 1 .. n /\ c99 \in d + 1 .. n /\ d99 \in n - e .. n
      BY <1>7
    <2>2. 2 * c50 >= n /\ c50 # 0
      BY <1>1, <1>6, <2>1
    <2>3. 2 * d50 >= n
      BY <1>1, <1>6, <2>1
    <2>4. 100 * (n - c95 - 1) <= 5 * n
      BY <1>1, <1>6, <2>1
    <2>5. 100 * (n - c99 - 1) <= n
      BY <1>1, <1>6, <2>1
    <2>6. d99 # 0
      BY <1>1, <1>6, <2>1
    <2> QED BY <2>2, <2>3, <2>4, <2>5, <2>6
  <1>9. AtMost(s, x) # {} /\ AtLeast(s, z) # {}
    BY <1>7, <1>8, FS_EmptySet
  <1>10. PICK r : /\ r = LatencyBand(s)
                  /\ r.p50 = x /\ r.p95 = y /\ r.p99 = z
    BY <1>3
  <1>11. /\ c50 = Cardinality(AtMost(s, x)) /\ d50 = Cardinality(AtLeast(s, x))
         /\ c95 = Cardinality(AtMost(s, y)) /\ c99 = Cardinality(AtMost(s, z))
    BY <1>7
  <1>12. Faithful(r, s)
    BY <1>1, <1>4, <1>8, <1>9, <1>10, <1>11 DEF Faithful
  <1> QED BY <1>10, <1>12

\* The nearest rank of the probe.
Nearest(n, q) == ((n - 1) * q + 50) \div 100 + 1

LEMMA RttFaithful ==
  ASSUME NEW m \in Nat, NEW s \in Seq(0..m), s # <<>>
  PROVE  Faithful(RttSummary(s), s)
  <1>1. PICK n \in Nat : n = Len(s) /\ n # 0 /\ DOMAIN s = 1..n
    OBVIOUS
  <1>2. PICK i, j, k : i = Nearest(n, 50) /\ j = Nearest(n, 95) /\ k = Nearest(n, 99)
    OBVIOUS
  <1>3. /\ i \in 1..n /\ j \in 1..n /\ k \in 1..n /\ i <= j /\ j <= k
        /\ 2 * i >= n /\ 2 * (n - i + 1) >= n
        /\ 100 * (n - j - 1) <= 5 * n /\ 100 * (n - k - 1) <= n
    BY <1>1, <1>2 DEF Nearest
  <1>4. PICK f : /\ f = Sorted(s)
                 /\ \A k1, k2 \in 1..n : k1 <= k2 => f[k1] <= f[k2]
                 /\ \A k1 \in 1..n : f[k1] \in Nat
    BY <1>1, SortedAt, SortedAscends
  <1>5. PICK x, y, z : x = 100 * f[i] /\ y = 100 * f[j] /\ z = 100 * f[k]
    OBVIOUS
  <1>6. RttSummary(s) = [p50 |-> x, p95 |-> y, p99 |-> z]
    BY <1>1, <1>2, <1>4, <1>5 DEF RttSummary, Nearest
  <1>7. x \in Nat /\ y \in Nat /\ z \in Nat /\ x <= y /\ y <= z
    <2>1. f[i] \in Nat /\ f[j] \in Nat /\ f[k] \in Nat /\ f[i] <= f[j] /\ f[j] <= f[k]
      BY <1>3, <1>4
    <2>2. PICK g \in Nat, h \in Nat, l \in Nat : g = f[i] /\ h = f[j] /\ l = f[k]
      BY <2>1
    <2>3. g <= h /\ h <= l /\ x = 100 * g /\ y = 100 * h /\ z = 100 * l
      BY <1>5, <2>1, <2>2
    <2> QED BY <2>3
  <1>8. PICK c50, d50, c95, c99, d99 :
          /\ c50 = Cardinality(AtMost(s, x)) /\ d50 = Cardinality(AtLeast(s, x))
          /\ c95 = Cardinality(AtMost(s, y)) /\ c99 = Cardinality(AtMost(s, z))
          /\ d99 = Cardinality(AtLeast(s, z))
    OBVIOUS
  <1>9. /\ c50 \in 0..n /\ d50 \in 0..n /\ c95 \in 0..n /\ c99 \in 0..n /\ d99 \in 0..n
        /\ c50 >= i /\ d50 >= n - i + 1 /\ c95 >= j /\ c99 >= k /\ d99 >= n - k + 1
    <2>1. ASSUME NEW r \in 1..n
          PROVE  /\ Cardinality(AtMost(s, 100 * f[r])) \in 0..n
                 /\ Cardinality(AtLeast(s, 100 * f[r])) \in 0..n
                 /\ Cardinality(AtMost(s, 100 * f[r])) >= r
                 /\ Cardinality(AtLeast(s, 100 * f[r])) >= n - r + 1
      <3>1. PICK v \in Nat : v = 100 * f[r]
        BY <1>4
      <3>2. r \in DOMAIN s /\ 100 * Sorted(s)[r] <= v /\ v <= 100 * Sorted(s)[r]
        BY <1>1, <1>4, <3>1
      <3> QED BY <1>1, <3>1, <3>2, Ranks
    <2> QED BY <1>3, <1>5, <1>8, <2>1
  <1>10. /\ 2 * c50 >= n /\ 2 * d50 >= n
         /\ 100 * (n - c95 - 1) <= 5 * n /\ 100 * (n - c99 - 1) <= n
         /\ c50 # 0 /\ d99 # 0
    BY <1>3, <1>9
  <1>11. AtMost(s, x) # {} /\ AtLeast(s, z) # {}
    BY <1>8, <1>10, FS_EmptySet
  <1> QED BY <1>1, <1>6, <1>7, <1>8, <1>10, <1>11 DEF Faithful

\* The percentiles of the reports mean what they are named for, for every list
\* of latencies that a session can have: a median, and bounds that no more than
\* five and one in a hundred exceed, but for the last (report.rs:198-203,
\* 604-619, ci/src/client.rs:513-529).
THEOREM PercentilesAlwaysFaithful == Spec => []PercentilesFaithful
  <1>1. Inv => PercentilesFaithful
    <2> SUFFICES ASSUME Inv, latencies # <<>>
                 PROVE  /\ Faithful(LatencyBand(latencies), latencies)
                        /\ Faithful(RttSummary(latencies), latencies)
      BY DEF PercentilesFaithful
    <2>1. Limit \in Nat /\ latencies \in Seq(0..Limit)
      BY SessionAssumption DEF Inv, Typed
    <2> QED BY <2>1, BandFaithful, RttFaithful
  <1> QED BY <1>1, InvInit, InvNext, PTL DEF Spec
=============================================================================
