----------------------------- MODULE TcpExchange -----------------------------
(***************************************************************************)
(* What happens on one TCP connection: the client's activity               *)
(* (client/src/tcp_client.rs: a page, a download or an upload), the        *)
(* server's handler (server/src/tcp_server.rs, handle_connection), and the *)
(* proxied path between them, which may fall silent, resume or reset.      *)
(*                                                                         *)
(* A message is its type and, for a chunk, its size in units; the length   *)
(* prefix and the body are one message, since either read ends the same    *)
(* way.  Reads time out; writes do not.  A read only times out on a path   *)
(* that is silent: on one that is not, an answer takes far less than the   *)
(* 30 seconds.  An end that drops its socket with data unread resets the   *)
(* connection, and what is queued for the other end may be lost.           *)
(***************************************************************************)
EXTENDS Integers, Sequences

CONSTANTS
    Activities, \* of {"page", "download", "upload"}
    FileSize,   \* file_size, in units
    MaxChunk,   \* the largest chunk, in units
    Requests,   \* bound: requests of one page
    Window,     \* messages the buffers and the path hold, each way
    Faults      \* what the path may do, of {"silence", "reset"}

ASSUME ActivitiesAssumption == Activities \subseteq {"page", "download", "upload"}
ASSUME SizesAssumption ==
    FileSize \in Nat \ {0} /\ MaxChunk \in Nat \ {0} /\ Requests \in Nat
\* A message at least fits the buffers: a chunk is at most 64 KiB.
ASSUME WindowAssumption == Window \in Nat \ {0}

VARIABLES
    activity,  \* what the client does
    stoped,    \* the user's time is over
    client,    \* where the client stands
    left,      \* client: requests of the page to go
    moved,     \* client: units of the file received, or acknowledged
    chunk,     \* client: units of the chunk that waits for its acknowledgement
    result,    \* client: "running", "ok", "err"
    c_sent, c_received,  \* the client's packets_sent, packets_received
    server,    \* where the handler stands
    due,       \* server: units of the file still to send or to collect
    errors,    \* server: errors of the metrics record
    s_sent, s_received,  \* the server's packets_sent, packets_received
    up, down,  \* messages under way to the server, to the client
    c_socket, s_socket,  \* "open", "fin" or "rst" once an end has let go
    relaying,  \* environment: the path moves data
    faulted    \* history: the path fell silent or reset

local == <<activity, left, moved, chunk, result, c_sent, c_received>>
handler == <<due, errors, s_sent, s_received>>
path == <<relaying, faulted>>
vars == <<local, stoped, client, handler, server, up, down, c_socket, s_socket, path>>

Msg(t) == [type |-> t, size |-> 0]
Chunk(t, n) == [type |-> t, size |-> n]

Least(a, b) == IF a < b THEN a ELSE b

Init ==
    /\ activity \in Activities
    /\ left \in IF activity = "page" THEN 0..Requests ELSE {0}
    /\ stoped = FALSE /\ client = "greet" /\ moved = 0 /\ chunk = 0 /\ result = "running"
    /\ c_sent = 0 /\ c_received = 0
    /\ server = "receive" /\ due = 0 /\ errors = 0
    /\ s_sent = 0 /\ s_received = 0
    /\ up = <<>> /\ down = <<>>
    /\ c_socket = "open" /\ s_socket = "open"
    /\ relaying = TRUE /\ faulted = FALSE

Client(from, to) == client = from /\ client' = to
Server(from, to) == server = from /\ server' = to

-----------------------------------------------------------------------------
(* The client.                                                             *)

\* send_message: the message goes while there is room.  At an end that has let
\* go it is lost, and answered with a reset.
ClientSends(m) ==
    \/ /\ c_socket = "open" /\ (s_socket = "open" \/ ~relaying) /\ Len(up) < Window
       /\ up' = Append(up, m)
       /\ UNCHANGED <<s_socket, down>>
    \/ /\ relaying /\ s_socket = "fin"
       /\ s_socket' = "rst" /\ down' \in {down, <<>>}
       /\ UNCHANGED up

\* receive_response returns message m.
ClientReceives(m) ==
    /\ relaying /\ down # <<>> /\ m = Head(down)
    /\ down' = Tail(down)
    /\ c_received' = c_received + 1

First == CASE activity = "page" -> Msg("TlsHandshake")
           [] activity = "download" -> Msg("FileDownloadRequest")
           [] activity = "upload" -> Msg("FileUploadRequest")

Greet ==
    /\ Client("greet", IF activity = "download" THEN "chunk" ELSE "greeted")
    /\ ClientSends(First)
    /\ c_sent' = c_sent + 1
    /\ UNCHANGED <<activity, left, moved, chunk, result, c_received, stoped, handler,
                   server, c_socket, path>>

\* The answer to the handshake or to the upload request.
Greeted ==
    /\ Client("greeted", IF activity = "upload" THEN "push"
                         ELSE IF left = 0 THEN "close" ELSE "request")
    /\ ClientReceives(Msg("HttpResponse"))
    /\ UNCHANGED <<activity, left, moved, chunk, result, c_sent, stoped, handler,
                   server, up, c_socket, s_socket, path>>

Request ==
    /\ Client("request", "requested")
    /\ ClientSends(Msg("HttpRequest"))
    /\ c_sent' = c_sent + 1
    /\ UNCHANGED <<activity, left, moved, chunk, result, c_received, stoped, handler,
                   server, c_socket, path>>

\* A response ends one turn of the page's loop.
Requested ==
    /\ Client("requested", IF stoped \/ left = 1 THEN "close" ELSE "request")
    /\ ClientReceives(Msg("HttpResponse"))
    /\ left' = left - 1
    /\ UNCHANGED <<activity, moved, chunk, result, c_sent, stoped, handler, server, up,
                   c_socket, s_socket, path>>

\* One turn of the download's loop.
ReceiveChunk ==
    \E n \in 1..MaxChunk :
        /\ Client("chunk", IF stoped \/ moved + n >= FileSize THEN "close" ELSE "chunk")
        /\ ClientReceives(Chunk("FileDownloadChunk", n))
        /\ moved' = moved + n
        /\ UNCHANGED <<activity, left, chunk, result, c_sent, stoped, handler, server,
                       up, c_socket, s_socket, path>>

\* The upload sends a chunk, cut to what is left.
Push ==
    /\ Client("push", "pushed")
    /\ \E n \in 1..Least(MaxChunk, FileSize - moved) :
         /\ ClientSends(Chunk("FileUploadChunk", n))
         /\ chunk' = n
    /\ c_sent' = c_sent + 1
    /\ UNCHANGED <<activity, left, moved, result, c_received, stoped, handler,
                   server, c_socket, path>>

\* ... and waits for its acknowledgement.
Pushed ==
    /\ Client("pushed", IF stoped \/ moved + chunk >= FileSize THEN "close" ELSE "push")
    /\ ClientReceives(Msg("HttpResponse"))
    /\ moved' = moved + chunk /\ chunk' = 0
    /\ UNCHANGED <<activity, left, result, c_sent, stoped, handler,
                   server, up, c_socket, s_socket, path>>

\* The ConnectionClose message, which is not counted.
SayClose ==
    /\ Client("close", "leave")
    /\ ClientSends(Msg("ConnectionClose"))
    /\ UNCHANGED <<local, stoped, handler, server, c_socket, path>>

\* The stream is dropped, r being the activity's result.
ClientLeaves(r) ==
    /\ client' = "done"
    /\ result' = r
    /\ IF c_socket = "rst" THEN UNCHANGED <<c_socket, up>>
       ELSE /\ c_socket' = IF down = <<>> THEN "fin" ELSE "rst"
            /\ up' \in IF down = <<>> THEN {up} ELSE {up, <<>>}
    /\ down' = <<>>
    /\ UNCHANGED <<activity, left, moved, chunk, c_sent, c_received, stoped, handler,
                   server, s_socket, path>>

Leave == client = "leave" /\ ClientLeaves("ok")

\* A write fails on a connection that is reset, or once it is known that the
\* server has let go.
ClientSendFails ==
    /\ client \in {"greet", "request", "push", "close"}
    /\ c_socket # "open" \/ (relaying /\ s_socket # "open")
    /\ ClientLeaves("err")

\* A read meets a reset or the end of the stream, or times out.
ClientReceiveFails ==
    /\ client \in {"greeted", "requested", "chunk", "pushed"}
    /\ \/ ~relaying
       \/ c_socket = "rst" \/ s_socket = "rst"
       \/ s_socket = "fin" /\ down = <<>>
    /\ ClientLeaves("err")

\* The user's time is over (simulate_user_behavior's set_stop).
Stop ==
    /\ ~stoped /\ client # "done"
    /\ stoped' = TRUE
    /\ UNCHANGED <<local, client, handler, server, up, down, c_socket, s_socket, path>>

-----------------------------------------------------------------------------
(* The server.                                                             *)

\* send_message, and the packet is counted once it has succeeded.
ServerSends(m) ==
    /\ \/ /\ s_socket = "open" /\ (c_socket = "open" \/ ~relaying) /\ Len(down) < Window
          /\ down' = Append(down, m)
          /\ UNCHANGED <<c_socket, up>>
       \/ /\ relaying /\ c_socket = "fin"
          /\ c_socket' = "rst" /\ up' \in {up, <<>>}
          /\ UNCHANGED down
    /\ s_sent' = s_sent + 1

\* receive_message returns the head of up.
ServerReceives == relaying /\ up # <<>> /\ up' = Tail(up)

\* Where a message of that type takes the handler.
Dispatch(type) ==
    CASE type \in {"TlsHandshake", "HttpRequest", "FileUploadChunk"} -> "reply"
      [] type = "FileDownloadRequest" -> "stream"
      [] type = "FileUploadRequest" -> "accept"
      [] type = "ConnectionClose" -> "end"

\* handle_connection's loop: the message is counted and dispatched.
Receive ==
    /\ ServerReceives
    /\ LET type == Head(up).type IN
         /\ Server("receive", Dispatch(type))
         /\ due' = IF type \in {"FileDownloadRequest", "FileUploadRequest"}
                   THEN FileSize ELSE due
    /\ s_received' = s_received + 1
    /\ UNCHANGED <<local, stoped, client, errors, s_sent, down, c_socket,
                   s_socket, path>>

\* The one response to a handshake or a request.
Reply ==
    /\ Server("reply", "receive")
    /\ ServerSends(Msg("HttpResponse"))
    /\ UNCHANGED <<local, stoped, client, due, errors, s_received, s_socket, path>>

\* Mutant: the last chunk is not cut to what is due.
StreamUncut ==
    \E n \in 1..MaxChunk :
        /\ Server("stream", IF due <= n THEN "receive" ELSE "stream")
        /\ ServerSends(Chunk("FileDownloadChunk", n))
        /\ due' = due - n
        /\ UNCHANGED <<local, stoped, client, errors, s_received, s_socket, path>>

\* handle_file_download: the next chunk, cut to what is due.
Stream ==
    \E n \in 1..Least(MaxChunk, due) :
        /\ Server("stream", IF due = n THEN "receive" ELSE "stream")
        /\ ServerSends(Chunk("FileDownloadChunk", n))
        /\ due' = due - n
        /\ UNCHANGED <<local, stoped, client, errors, s_received, s_socket, path>>

\* The ACK of an upload request.
Accept ==
    /\ Server("accept", "collect")
    /\ ServerSends(Msg("HttpResponse"))
    /\ UNCHANGED <<local, stoped, client, due, errors, s_received, s_socket, path>>

\* Mutant: the message that ends an upload early is an error.
CollectStrict ==
    LET m == Head(up) IN
        /\ ServerReceives
        /\ IF m.type = "FileUploadChunk"
           THEN Server("collect", "confirm") /\ due' = due - m.size
                /\ s_received' = s_received + 1 /\ UNCHANGED errors
           ELSE Server("collect", "end") /\ errors' = errors + 1
                /\ UNCHANGED <<due, s_received>>
        /\ UNCHANGED <<local, stoped, client, s_sent, down, c_socket, s_socket, path>>

\* handle_file_upload: a chunk is counted; any other message is dropped and ends
\* the upload, not the connection.
Collect ==
    LET m == Head(up) IN
        /\ ServerReceives
        /\ IF m.type = "FileUploadChunk"
           THEN Server("collect", "confirm") /\ due' = due - m.size
                /\ s_received' = s_received + 1
           ELSE Server("collect", "receive") /\ UNCHANGED <<due, s_received>>
        /\ UNCHANGED <<local, stoped, client, errors, s_sent, down, c_socket,
                       s_socket, path>>

\* The CHUNK_ACK.
Confirm ==
    /\ Server("confirm", IF due <= 0 THEN "receive" ELSE "collect")
    /\ ServerSends(Msg("HttpResponse"))
    /\ UNCHANGED <<local, stoped, client, due, errors, s_received, s_socket, path>>

\* A write fails: the handler ends with an error on its record.
ServerSendFails ==
    /\ server \in {"reply", "stream", "accept", "confirm"}
    /\ s_socket # "open" \/ (relaying /\ c_socket # "open")
    /\ server' = "end"
    /\ errors' = errors + 1
    /\ UNCHANGED <<local, stoped, client, due, s_sent, s_received, up, down,
                   c_socket, s_socket, path>>

\* Mutant: a read has no timeout.
ServerReceiveFailsNever ==
    /\ server \in {"receive", "collect"}
    /\ relaying /\ (c_socket # "open" \/ s_socket = "rst") /\ up = <<>>
    /\ errors' = IF server = "receive" /\ c_socket = "fin" THEN errors ELSE errors + 1
    /\ server' = "end"
    /\ UNCHANGED <<local, stoped, client, due, s_sent, s_received, up, down,
                   c_socket, s_socket, path>>

\* Mutant: a packet is counted before the read has succeeded.
ServerReceiveFailsCounted ==
    /\ server \in {"receive", "collect"}
    /\ \/ /\ ~relaying \/ c_socket = "rst" \/ s_socket = "rst"
          /\ errors' = errors + 1
       \/ /\ relaying /\ c_socket = "fin" /\ up = <<>>
          /\ errors' = IF server = "receive" THEN errors ELSE errors + 1
    /\ server' = "end"
    /\ s_received' = s_received + 1
    /\ UNCHANGED <<local, stoped, client, due, s_sent, up, down, c_socket, s_socket,
                   path>>

\* A read meets a reset or the end of the stream, or times out.  The end of the
\* stream is an error only in an upload's loop.
ServerReceiveFails ==
    /\ server \in {"receive", "collect"}
    /\ \/ /\ ~relaying \/ c_socket = "rst" \/ s_socket = "rst"
          /\ errors' = errors + 1
       \/ /\ relaying /\ c_socket = "fin" /\ up = <<>>
          /\ errors' = IF server = "receive" THEN errors ELSE errors + 1
    /\ server' = "end"
    /\ UNCHANGED <<local, stoped, client, due, s_sent, s_received, up, down,
                   c_socket, s_socket, path>>

\* shutdown, drop and end_connection.
End ==
    /\ Server("end", "done")
    /\ IF s_socket = "rst" THEN UNCHANGED <<s_socket, down>>
       ELSE /\ s_socket' = IF up = <<>> THEN "fin" ELSE "rst"
            /\ down' \in IF up = <<>> THEN {down} ELSE {down, <<>>}
    /\ up' = <<>>
    /\ UNCHANGED <<local, stoped, client, handler, c_socket, path>>

-----------------------------------------------------------------------------
(* The path.                                                               *)

Silence ==
    /\ "silence" \in Faults /\ relaying
    /\ relaying' = FALSE /\ faulted' = TRUE
    /\ UNCHANGED <<local, stoped, client, handler, server, up, down, c_socket, s_socket>>

Resume ==
    /\ ~relaying /\ relaying' = TRUE
    /\ UNCHANGED <<local, stoped, client, handler, server, up, down, c_socket,
                   s_socket, faulted>>

\* Both ends are reset; what was under way is lost.
Break ==
    /\ "reset" \in Faults /\ relaying /\ c_socket = "open" /\ s_socket = "open"
    /\ c_socket' = "rst" /\ s_socket' = "rst" /\ up' = <<>> /\ down' = <<>>
    /\ faulted' = TRUE
    /\ UNCHANGED <<local, stoped, client, handler, server, relaying>>

-----------------------------------------------------------------------------
ClientStep ==
    \/ Greet \/ Greeted \/ Request \/ Requested \/ ReceiveChunk \/ Push \/ Pushed
    \/ SayClose \/ Leave \/ ClientSendFails \/ ClientReceiveFails

ServerStep ==
    \/ Receive \/ Reply \/ Stream \/ Accept \/ Collect \/ Confirm
    \/ ServerSendFails \/ ServerReceiveFails \/ End

Next == ClientStep \/ Stop \/ ServerStep \/ Silence \/ Resume \/ Break

Spec == Init /\ [][Next]_vars

\* The runtime runs each task, a read ends by its timeout, and TCP repeats a
\* write that a client that has gone answers with a reset for as long as the path
\* lets it through again and again.  Nothing makes a silent path resume: the
\* forwarder's own socket acknowledges what it never reads.
FairSpec ==
    Spec /\ WF_vars(ClientStep) /\ WF_vars(ServerStep) /\ SF_vars(ServerSendFails)

-----------------------------------------------------------------------------
(* Properties.                                                             *)

\* An activity that succeeded without being stopped has moved the whole file and
\* not a unit more, and the server has sent, or counted, as much.
WholeFile ==
    (result = "ok" /\ ~stoped /\ activity # "page") => moved = FileSize /\ due = 0

\* On a path without faults no activity fails, and the server books an error
\* only for a client that, stopped, left in the middle of a download: the
\* ConnectionClose that an upload's loop swallows is none.
CleanExchange ==
    ~faulted => /\ result # "err"
                /\ errors > 0 => activity = "download" /\ stoped

\* When both ends are done, whatever stopped or broke the exchange, neither has
\* counted a packet that the other has not: a time out, a reset and a stop lose
\* packets and invent none.  Only the server counts the ConnectionClose, which a
\* client sends unless it failed.
NoneInvented ==
    /\ c_received <= s_sent
    /\ s_received <= c_sent + (IF result = "ok" THEN 1 ELSE 0)

\* Over a path without faults the counts are the same, the ConnectionClose
\* counted, or swallowed by an upload's loop; only of a download that was stopped
\* may packets be left behind.
NoneLost ==
    (~faulted /\ ~(activity = "download" /\ stoped)) =>
        /\ c_received = s_sent
        /\ s_received = c_sent + 1 \/ (activity = "upload" /\ stoped /\ s_received = c_sent)

\* The two ends count packets each for itself (tcp_client.rs and tcp_server.rs,
\* record_packet_sent and record_packet_received); when both have ended they agree.
PacketsAgree ==
    (client = "done" /\ server = "done") => NoneInvented /\ NoneLost

\* Whatever the path does, the client's activity ends, so that its user goes on.
ClientEnds == <>(client = "done")

\* Unless the path falls silent for ever, the server's handler ends and with it
\* the session's record: the two ends never wait on each other for good.
ServerEnds == ([]<>relaying) => <>(server = "done")

\* Neither end waits for ever (tcp_client.rs:546, tcp_server.rs:416).
BothEnd == ClientEnds /\ ServerEnds
==============================================================================
