-------------------------- MODULE TcpExchangeProofs --------------------------
(***************************************************************************)
(* Files are moved whole, for any size of the file and of its chunks, any  *)
(* window and any course of silences and resets; and without these no      *)
(* activity fails and the two ends count alike.                            *)
(***************************************************************************)
EXTENDS TcpExchange, SequenceTheorems, TLAPS

Response == Msg("HttpResponse")
Goodbye == Msg("ConnectionClose")
Chunks == [type : {"FileDownloadChunk"}, size : Nat]

\* Nothing comes any more: the server has let go, or was reset.
Mute == down = <<>> /\ s_socket # "open"

Opening ==
    /\ up = <<>> /\ down = <<>>
    /\ moved = 0 /\ chunk = 0 /\ due = 0
    /\ server \in {"receive", "end", "done"}

\* The request for the file is under way.
Asking ==
    /\ up = <<First>> /\ down = <<>>
    /\ moved = 0 /\ chunk = 0 /\ due = 0
    /\ server \in {"receive", "end", "done"}

\* What the client has, then the chunks under way one by one, and at last what
\* is due, add up to the file: p[i] is what the client will have after i chunks.
Sums(d, m, u) ==
    \E p \in [0..Len(d) -> Nat] :
        /\ p[0] = m /\ p[Len(d)] + u = FileSize
        /\ \A i \in 1..Len(d) : p[i] = p[i - 1] + d[i].size
        /\ \A i \in 0..Len(d) : p[i] + u <= FileSize

Ledger == moved \in Nat /\ due \in Nat /\ down \in Seq(Chunks) /\ Sums(down, moved, due)

Serving ==
    /\ up = <<>> /\ server \in {"receive", "stream", "end", "done"}
    /\ Ledger

\* The upload's request is being answered.
Accepting ==
    /\ up = <<>> /\ moved = 0 /\ chunk = 0 /\ due = FileSize
    /\ \/ down = <<>> /\ server \in {"accept", "end"}
       \/ down = <<Response>> /\ server \in {"collect", "end", "done"}

\* The client is about to send a chunk ...
Pushing ==
    /\ up = <<>> /\ down = <<>>
    /\ moved \in 0..(FileSize - 1) /\ due = FileSize - moved
    /\ server \in {"collect", "end", "done"}

\* ... which is under way, counted, or acknowledged.
Pending ==
    /\ moved \in Nat /\ chunk \in 1..(FileSize - moved)
    /\ \/ /\ up = <<Chunk("FileUploadChunk", chunk)>> /\ down = <<>>
          /\ due = FileSize - moved /\ server \in {"collect", "end", "done"}
       \/ /\ up = <<>> /\ due = FileSize - moved - chunk
          /\ \/ down = <<>> /\ server \in {"confirm", "end"}
             \/ /\ down = <<Response>>
                /\ \/ server \in {"end", "done"}
                   \/ server = "receive" /\ due = 0
                   \/ server = "collect" /\ due # 0

\* The client's part went well.
Over ==
    /\ activity # "page"
    /\ client \in {"close", "leave"} \/ (client = "done" /\ result = "ok")

\* Nothing that is under way to the server makes anything due.
Whole == moved = FileSize /\ due = 0 /\ up \in Seq({Goodbye})

\* How far the file is, for an activity that is not stopped, wherever the
\* client stands.
Phase ==
    ~stoped =>
    /\ (client = "greet" /\ activity # "page") => Opening
    /\ client = "chunk" => Asking \/ Serving \/ Mute
    /\ (client = "greeted" /\ activity = "upload") => Asking \/ Accepting \/ Mute
    /\ client = "push" => Pushing
    /\ client = "pushed" => Pending \/ Mute
    /\ Over => Whole

Places ==
    /\ activity \in {"page", "download", "upload"}
    /\ client \in {"greet", "greeted", "request", "requested", "chunk", "push", "pushed",
                   "close", "leave", "done"}
    /\ client = "chunk" => activity = "download"
    /\ client \in {"push", "pushed"} => activity = "upload"
    /\ client \in {"request", "requested"} => activity = "page"
    /\ client = "greeted" => activity # "download"
    /\ result = "ok" => client = "done"
    /\ client # "done" => c_socket # "fin"

Inv == Places /\ Phase

-----------------------------------------------------------------------------
LEMMA InvInit == Init => Inv
  <1> SUFFICES ASSUME Init PROVE Inv
    OBVIOUS
  <1>1. Places
    BY ActivitiesAssumption DEF Init, Places
  <1>2. Phase
    BY DEF Init, Phase, Opening, Over
  <1> QED BY <1>1, <1>2 DEF Inv

LEMMA FirstIs ==
  /\ activity = "page" => First = Msg("TlsHandshake")
  /\ activity = "download" => First = Msg("FileDownloadRequest")
  /\ activity = "upload" => First = Msg("FileUploadRequest")
  BY Zenon DEF First

-----------------------------------------------------------------------------
\* The server and the path, at which the client stands still.
Far == ServerStep \/ Silence \/ Resume \/ Break

LEMMA FarLeavesClient ==
  Far => UNCHANGED <<activity, client, moved, chunk, result, stoped>>
  BY DEF Far, local, ServerStep, Receive, Reply, Stream, Accept, Collect, Confirm,
     ServerSendFails, ServerReceiveFails, End, Silence, Resume, Break

LEMMA FarPlaces == ASSUME Places, Far PROVE Places'
  <1>1. c_socket' \in {c_socket, "rst"}
    BY DEF Far, ServerStep, Receive, Reply, Stream, Accept, Collect, Confirm,
       ServerSends, ServerSendFails, ServerReceiveFails, End, Silence, Resume, Break
  <1> QED
    BY <1>1, FarLeavesClient DEF Places

LEMMA FarMute == ASSUME Mute, Far PROVE Mute'
  BY DEF Mute, Far, ServerStep, Receive, Reply, Stream, Accept, Collect, Confirm,
     ServerSends, ServerReceives, ServerSendFails, ServerReceiveFails, End, Silence,
     Resume, Break

\* With nothing under way to it, a server that waits for a message ends at most.
LEMMA FarIdle ==
  ASSUME up = <<>>, server \in {"receive", "collect", "end", "done"}, Far
  PROVE  /\ UNCHANGED due /\ up' = <<>>
         /\ server' \in {server, "end", "done"}
         /\ UNCHANGED down \/ Mute'
  BY DEF Mute, Far, ServerStep, Receive, Reply, Stream, Accept, Collect, Confirm,
     Server, ServerReceives, ServerSendFails, ServerReceiveFails, End, Silence,
     Resume, Break, handler

LEMMA FarOpening == ASSUME Opening, Far PROVE Opening'
  BY FarLeavesClient, FarIdle DEF Opening, Mute

LEMMA FarPushing == ASSUME Pushing, Far PROVE Pushing'
  BY FarLeavesClient, FarIdle DEF Pushing, Mute

LEMMA DispatchIs ==
  /\ Dispatch("FileDownloadRequest") = "stream"
  /\ Dispatch("FileUploadRequest") = "accept"
  /\ Dispatch("ConnectionClose") = "end"
  BY Zenon DEF Dispatch

\* The message that a server takes.
LEMMA OneTaken ==
  ASSUME NEW m, up = <<m>>, ServerReceives
  PROVE  Head(up) = m /\ up' = <<>>
  BY DEF ServerReceives

LEMMA SumsOpen == Sums(<<>>, 0, FileSize)
  <1> DEFINE p == [i \in {0} |-> 0]
  <1>1. Len(<<>>) = 0 /\ 0..0 = {0} /\ 1..0 = {}
    OBVIOUS
  <1>2. p \in [0..Len(<<>>) -> Nat]
    BY <1>1
  <1>3. p[0] + FileSize = FileSize
    BY SizesAssumption
  <1> SUFFICES
        \E q \in [0..Len(<<>>) -> Nat] :
          /\ q[0] = 0 /\ q[Len(<<>>)] + FileSize = FileSize
          /\ \A i \in 1..Len(<<>>) : q[i] = q[i - 1] + <<>>[i].size
          /\ \A i \in 0..Len(<<>>) : q[i] + FileSize <= FileSize
    BY Zenon DEF Sums
  <1> WITNESS p \in [0..Len(<<>>) -> Nat]
  <1> QED
    BY <1>1, <1>3, SizesAssumption

\* A request under way is taken, or lost.
LEMMA FarAsking ==
  ASSUME Asking, Far, activity \in {"download", "upload"}
  PROVE  \/ Asking' \/ Mute'
         \/ activity = "download" /\ Serving'
         \/ activity = "upload" /\ Accepting'
  <1>1. UNCHANGED <<activity, moved, chunk>> /\ First' = First
    BY FarLeavesClient DEF First
  <1>2. CASE Receive
    <2>1. /\ Head(up) = First /\ up' = <<>> /\ down' = <<>>
          /\ server' = Dispatch(First.type)
          /\ due' = IF First.type \in {"FileDownloadRequest", "FileUploadRequest"}
                    THEN FileSize ELSE due
      BY <1>2, OneTaken DEF Asking, Receive, Server
    <2>2. CASE activity = "download"
      <3>1. server' = "stream" /\ due' = FileSize
        BY <2>1, <2>2, FirstIs, DispatchIs DEF Msg
      <3>2. moved' = 0 /\ due' = FileSize /\ down' = <<>>
        BY <1>1, <2>1, <3>1 DEF Asking
      <3>3. Ledger'
        BY <3>2, SumsOpen, SizesAssumption DEF Ledger
      <3> QED
        BY <2>1, <2>2, <3>1, <3>3 DEF Serving
    <2>3. CASE activity = "upload"
      <3>1. server' = "accept" /\ due' = FileSize
        BY <2>1, <2>3, FirstIs, DispatchIs DEF Msg
      <3> QED
        BY <1>1, <2>1, <2>3, <3>1 DEF Accepting, Asking
    <2> QED BY <2>2, <2>3
  <1>3. CASE ~Receive
    BY <1>1, <1>3
    DEF Asking, Mute, Far, ServerStep, Reply, Stream, Accept, Collect, Confirm,
        Server, ServerSendFails, ServerReceiveFails, End, Silence, Resume, Break,
        handler
  <1> QED BY <1>2, <1>3

\* A chunk that is sent goes to the end of the sum.
LEMMA SumsExtend ==
  ASSUME NEW d \in Seq(Chunks), NEW m \in Nat, NEW u \in Nat, NEW n \in 1..u,
         NEW c \in Chunks, c.size = n, Sums(d, m, u)
  PROVE  Sums(Append(d, c), m, u - n)
  <1> DEFINE e == Append(d, c)
  <1>1. /\ Len(d) \in Nat /\ Len(e) = Len(d) + 1
        /\ \A i \in 1..Len(d) : e[i] = d[i]
        /\ e[Len(d) + 1] = c
    OBVIOUS
  <1>2. PICK p \in [0..Len(d) -> Nat] :
          /\ p[0] = m /\ p[Len(d)] + u = FileSize
          /\ \A i \in 1..Len(d) : p[i] = p[i - 1] + d[i].size
          /\ \A i \in 0..Len(d) : p[i] + u <= FileSize
    BY DEF Sums
  <1> DEFINE q == [i \in 0..Len(e) |-> IF i <= Len(d) THEN p[i] ELSE p[Len(d)] + n]
  <1>3. /\ p[Len(d)] \in Nat
        /\ \A i \in 0..Len(d) : q[i] = p[i] /\ p[i] \in Nat
        /\ q[Len(e)] = p[Len(d)] + n
    <2>1. 0..Len(e) = 0..Len(d) \cup {Len(e)} /\ ~(Len(e) <= Len(d))
      BY <1>1
    <2>2. Len(d) \in 0..Len(d) /\ \A i \in 0..Len(d) : i <= Len(d)
      BY <1>1
    <2> HIDE DEF e
    <2> QED
      BY <2>1, <2>2
  <1>4. q \in [0..Len(e) -> Nat]
    BY <1>1, <1>3
  <1> HIDE DEF q, e
  <1>5. q[0] = m /\ q[Len(e)] + (u - n) = FileSize
    BY <1>1, <1>2, <1>3, SizesAssumption
  <1>6. ASSUME NEW i \in 1..Len(e) PROVE q[i] = q[i - 1] + e[i].size
    <2>1. CASE i <= Len(d)
      <3>1. i \in 1..Len(d) /\ i - 1 \in 0..Len(d) /\ i \in 0..Len(d)
        BY <1>1, <2>1
      <3> QED
        BY <1>1, <1>2, <1>3, <3>1
    <2>2. CASE i = Len(e)
      BY <1>1, <1>3, <2>2
    <2> QED BY <1>1, <2>1, <2>2
  <1>7. ASSUME NEW i \in 0..Len(e) PROVE q[i] + (u - n) <= FileSize
    <2>1. CASE i <= Len(d)
      BY <1>1, <1>2, <1>3, <2>1, SizesAssumption
    <2>2. CASE i = Len(e)
      BY <1>5, <2>2, SizesAssumption
    <2> QED BY <1>1, <2>1, <2>2
  <1> QED
    BY <1>4, <1>5, <1>6, <1>7, Zenon DEF Sums, e

\* A chunk that is taken comes from its head.
LEMMA SumsShift ==
  ASSUME NEW d \in Seq(Chunks), NEW m \in Nat, NEW u \in Nat, d # <<>>, Sums(d, m, u)
  PROVE  /\ Sums(Tail(d), m + Head(d).size, u)
         /\ m + Head(d).size + u <= FileSize
  <1> DEFINE t == Tail(d)
  <1>1. /\ Len(d) \in Nat \ {0} /\ Len(t) = Len(d) - 1 /\ Head(d) = d[1]
        /\ \A i \in 1..Len(t) : t[i] = d[i + 1]
    OBVIOUS
  <1>2. PICK p \in [0..Len(d) -> Nat] :
          /\ p[0] = m /\ p[Len(d)] + u = FileSize
          /\ \A i \in 1..Len(d) : p[i] = p[i - 1] + d[i].size
          /\ \A i \in 0..Len(d) : p[i] + u <= FileSize
    BY DEF Sums
  <1> DEFINE q == [i \in 0..Len(t) |-> p[i + 1]]
  <1>3. \A i \in 0..Len(t) : q[i] = p[i + 1] /\ i + 1 \in 0..Len(d)
    BY <1>1
  <1>4. q \in [0..Len(t) -> Nat]
    BY <1>1, <1>3
  <1>5. p[1] = m + Head(d).size
    BY <1>1, <1>2
  <1> HIDE DEF q, t
  <1>6. q[0] = m + Head(d).size /\ q[Len(t)] + u = FileSize
    BY <1>1, <1>2, <1>3, <1>5
  <1>7. \A i \in 1..Len(t) : q[i] = q[i - 1] + t[i].size
    BY <1>1, <1>2, <1>3
  <1>8. \A i \in 0..Len(t) : q[i] + u <= FileSize
    BY <1>2, <1>3
  <1>9. m + Head(d).size + u <= FileSize
    BY <1>1, <1>2, <1>5
  <1> QED
    BY <1>4, <1>6, <1>7, <1>8, <1>9, Zenon DEF Sums, t

LEMMA FarServing ==
  ASSUME Serving, c_socket # "fin", Far PROVE Serving' \/ Mute'
  <1>1. UNCHANGED moved
    BY FarLeavesClient
  <1>2. CASE server # "stream"
    <2>1. /\ UNCHANGED due /\ up' = <<>>
          /\ server' \in {server, "end", "done"}
          /\ UNCHANGED down \/ Mute'
      BY <1>2, FarIdle DEF Serving
    <2> QED
      BY <1>1, <1>2, <2>1 DEF Serving, Ledger
  <1>3. CASE server = "stream" /\ Stream
    <2>1. PICK n \in 1..Least(MaxChunk, due) :
            /\ server' = IF due = n THEN "receive" ELSE "stream"
            /\ ServerSends(Chunk("FileDownloadChunk", n))
            /\ due' = due - n
      BY <1>3, Zenon DEF Stream, Server
    <2> DEFINE c == Chunk("FileDownloadChunk", n)
    <2>2. down' = Append(down, c) /\ up' = up
      BY <2>1 DEF ServerSends
    <2>3. n \in 1..due
      BY SizesAssumption DEF Least, Serving, Ledger
    <2>4. c \in Chunks /\ c.size = n
      BY <2>3 DEF Chunk, Chunks, Serving, Ledger
    <2> HIDE DEF c
    <2>5. Sums(Append(down, c), moved, due - n)
      BY <2>3, <2>4, SumsExtend DEF Serving, Ledger
    <2>6. Ledger'
      <3>1. Sums(down', moved', due')
        BY <1>1, <2>1, <2>2, <2>5
      <3>2. down' \in Seq(Chunks) /\ due' \in Nat /\ moved' \in Nat
        BY <1>1, <2>1, <2>2, <2>3, <2>4 DEF Serving, Ledger
      <3> QED BY <3>1, <3>2 DEF Ledger
    <2> QED
      BY <2>1, <2>2, <2>6 DEF Serving
  <1>4. CASE server = "stream" /\ ~Stream
    <2>1. /\ UNCHANGED <<due, up>>
          /\ server' \in {server, "end"}
          /\ UNCHANGED down \/ Mute'
      BY <1>4
      DEF Serving, Mute, Far, ServerStep, Receive, Reply, Accept, Collect, Confirm,
          Server, ServerSendFails, ServerReceiveFails, End, Silence, Resume, Break,
          handler
    <2> QED
      BY <1>1, <1>4, <2>1 DEF Serving, Ledger
  <1> QED BY <1>2, <1>3, <1>4

LEMMA FarAccepting ==
  ASSUME Accepting, c_socket # "fin", Far PROVE Accepting' \/ Mute'
  <1>1. UNCHANGED <<moved, chunk>>
    BY FarLeavesClient
  <1>2. CASE server # "accept"
    <2>1. /\ UNCHANGED due /\ up' = <<>>
          /\ server' \in {server, "end", "done"}
          /\ UNCHANGED down \/ Mute'
      BY <1>2, FarIdle DEF Accepting
    <2>2. (server = "end" /\ down = <<>>) => server' = "end" \/ Mute'
      BY DEF Accepting, Mute, Far, ServerStep, Receive, Reply, Stream, Accept, Collect,
          Confirm, Server, ServerReceives, ServerSendFails, ServerReceiveFails, End,
          Silence, Resume, Break
    <2> QED
      BY <1>1, <1>2, <2>1, <2>2 DEF Accepting
  <1>3. CASE server = "accept"
    BY <1>1, <1>3
    DEF Accepting, Mute, Response, Far, ServerStep, Receive, Reply, Stream, Accept,
        Collect, Confirm, Server, ServerSends, ServerSendFails, ServerReceiveFails, End,
        Silence, Resume, Break, handler
  <1> QED BY <1>2, <1>3

LEMMA FarPending ==
  ASSUME Pending, c_socket # "fin", Far PROVE Pending' \/ Mute'
  <1> DEFINE c == Chunk("FileUploadChunk", chunk)
  <1>1. UNCHANGED <<moved, chunk>> /\ c' = c
    BY FarLeavesClient
  <1>2. CASE up = <<c>> /\ Collect
    <2>1. Head(up) = c /\ c.type = "FileUploadChunk" /\ c.size = chunk
      BY <1>2 DEF Chunk
    <2>2. /\ up' = <<>> /\ UNCHANGED down
          /\ server' = "confirm" /\ due' = due - chunk
      BY <1>2, <2>1, OneTaken DEF Collect, Server
    <2>3. c # Response
      BY DEF Chunk, Response, Msg
    <2> QED
      BY <1>1, <1>2, <2>2 DEF Pending
  <1>3. CASE up = <<c>> /\ ~Collect
    <2>1. /\ UNCHANGED due
          /\ \/ UNCHANGED <<up, down>> /\ server' \in {server, "end"}
             \/ Mute'
      BY <1>3
      DEF Pending, Mute, Far, ServerStep, Receive, Reply, Stream, Accept, Confirm,
          Server, ServerSendFails, ServerReceiveFails, End, Silence, Resume, Break,
          handler
    <2> QED
      BY <1>1, <1>3, <2>1 DEF Pending
  <1>4. CASE up = <<>> /\ server = "confirm"
    <2>1. down = <<>> /\ due \in Nat /\ due = FileSize - moved - chunk
      BY <1>4, SizesAssumption DEF Pending
    <2>2. /\ UNCHANGED due /\ up' = <<>>
          /\ \/ UNCHANGED down /\ server' \in {server, "end"}
             \/ down' = <<Response>> /\ server' = IF due <= 0 THEN "receive" ELSE "collect"
             \/ Mute'
      BY <1>4, <2>1
      DEF Mute, Response, Far, ServerStep, Receive, Reply, Stream, Accept, Collect,
          Confirm, Server, ServerSends, ServerSendFails, ServerReceiveFails, End,
          Silence, Resume, Break, handler
    <2>3. due <= 0 <=> due = 0
      BY <2>1
    <2> QED
      BY <1>1, <1>4, <2>1, <2>2, <2>3 DEF Pending
  <1>5. CASE up = <<>> /\ server # "confirm"
    <2>1. /\ UNCHANGED due /\ up' = <<>>
          /\ server' \in {server, "end", "done"}
          /\ UNCHANGED down \/ Mute'
      BY <1>5, FarIdle DEF Pending
    <2>2. (server = "end" /\ down = <<>>) => server' = "end" \/ Mute'
      BY DEF Mute, Far, ServerStep, Receive, Reply, Stream, Accept, Collect,
          Confirm, Server, ServerReceives, ServerSendFails, ServerReceiveFails, End,
          Silence, Resume, Break
    <2> QED
      BY <1>1, <1>5, <2>1, <2>2 DEF Pending
  <1> QED BY <1>2, <1>3, <1>4, <1>5 DEF Pending

\* What is under way to the server, and made nothing due, does not do so either
\* when some of it has been taken.
LEMMA GoodbyesOnly ==
  ASSUME NEW s \in Seq({Goodbye})
  PROVE  /\ <<>> \in Seq({Goodbye})
         /\ Append(s, Goodbye) \in Seq({Goodbye})
         /\ s # <<>> => Head(s) = Goodbye /\ Tail(s) \in Seq({Goodbye})
  OBVIOUS

LEMMA FarWhole == ASSUME Whole, Far PROVE Whole'
  <1>1. UNCHANGED moved
    BY FarLeavesClient
  <1>2. up' \in Seq({Goodbye})
    <2>1. up' \in {up, <<>>} \/ (up # <<>> /\ up' = Tail(up))
      BY DEF Far, ServerStep, Receive, Reply, Stream, Accept, Collect, Confirm,
         ServerSends, ServerReceives, ServerSendFails, ServerReceiveFails, End, Silence,
         Resume, Break
    <2> QED
      BY <2>1, GoodbyesOnly DEF Whole
  <1>3. due' = due
    <2>1. ~Stream
      BY SizesAssumption DEF Whole, Stream, Least
    <2>2. CASE Receive \/ Collect
      <3>1. Head(up) = Goodbye
        BY <2>2, GoodbyesOnly DEF Whole, Receive, Collect, ServerReceives
      <3>2. Head(up).type = "ConnectionClose"
        BY <3>1 DEF Goodbye, Msg
      <3> QED
        BY <2>2, <3>2 DEF Receive, Collect
    <2>3. CASE ~Receive /\ ~Collect
      BY <2>1, <2>3
      DEF Far, ServerStep, Reply, Accept, Confirm, ServerSendFails, ServerReceiveFails,
          End, Silence, Resume, Break, handler
    <2> QED BY <2>2, <2>3
  <1> QED
    BY <1>1, <1>2, <1>3 DEF Whole

LEMMA FarPhase == ASSUME Inv, Far PROVE Phase'
  <1> SUFFICES ASSUME ~stoped PROVE Phase'
    BY FarLeavesClient DEF Phase
  <1>1. UNCHANGED <<activity, client, result>> /\ (Over' <=> Over)
    BY FarLeavesClient DEF Over
  <1>2. (client = "greet" /\ activity # "page") => Opening'
    BY FarOpening DEF Inv, Phase
  <1>3. client = "chunk" => (Asking \/ Serving \/ Mute)'
    BY FarAsking, FarServing, FarMute DEF Inv, Phase, Places
  <1>4. (client = "greeted" /\ activity = "upload") => (Asking \/ Accepting \/ Mute)'
    BY FarAsking, FarAccepting, FarMute DEF Inv, Phase, Places
  <1>5. client = "push" => Pushing'
    BY FarPushing DEF Inv, Phase
  <1>6. client = "pushed" => (Pending \/ Mute)'
    BY FarPending, FarMute DEF Inv, Phase, Places
  <1>7. Over => Whole'
    BY FarWhole DEF Inv, Phase
  <1> QED
    BY <1>1, <1>2, <1>3, <1>4, <1>5, <1>6, <1>7 DEF Phase

-----------------------------------------------------------------------------
\* The client.
LEMMA NearLeavesServer == ClientStep => UNCHANGED <<activity, stoped, due, server>>
  BY DEF local, handler, ClientStep, Greet, Greeted, Request, Requested, ReceiveChunk,
     Push, Pushed, SayClose, Leave, ClientSendFails, ClientReceiveFails, ClientLeaves

LEMMA NearPlaces == ASSUME Places, ClientStep PROVE Places'
  <1>1. CASE Leave \/ ClientSendFails \/ ClientReceiveFails
    BY <1>1 DEF Places, Leave, ClientSendFails, ClientReceiveFails, ClientLeaves
  <1>2. CASE Greet \/ Greeted \/ Request \/ Requested
    BY <1>2 DEF Places, Client, Greet, Greeted, Request, Requested
  <1>3. CASE ReceiveChunk \/ Push \/ Pushed \/ SayClose
    BY <1>3 DEF Places, Client, ReceiveChunk, Push, Pushed, SayClose, local
  <1> QED BY <1>1, <1>2, <1>3 DEF ClientStep

\* A message is under way, or is answered with a reset.
LEMMA Sent ==
  ASSUME NEW m, ClientSends(m), down = <<>>
  PROVE  /\ down' = <<>>
         /\ up' = Append(up, m) \/ (up' = up /\ s_socket' = "rst")
  BY DEF ClientSends

LEMMA NearPhase == ASSUME Inv, ClientStep PROVE Phase'
  <1> SUFFICES ASSUME ~stoped PROVE Phase'
    BY NearLeavesServer DEF Phase
  <1> USE DEF Inv
  <1>0. UNCHANGED <<activity, stoped, due, server>> /\ First' = First
    BY NearLeavesServer DEF First
  <1>1. CASE Greet
    <2>1. /\ client = "greet" /\ UNCHANGED <<moved, chunk>>
          /\ client' = IF activity = "download" THEN "chunk" ELSE "greeted"
          /\ ClientSends(First)
      BY <1>1 DEF Greet, Client
    <2>2. activity # "page" => Asking' \/ Mute'
      <3> SUFFICES ASSUME activity # "page" PROVE Asking' \/ Mute'
        OBVIOUS
      <3>1. Opening
        BY <2>1 DEF Phase
      <3>2. down' = <<>> /\ (up' = Append(up, First) \/ s_socket' = "rst")
        BY <2>1, <3>1, Sent DEF Opening
      <3>3. Append(<<>>, First) = <<First>>
        OBVIOUS
      <3> QED
        BY <1>0, <2>1, <3>1, <3>2, <3>3 DEF Opening, Asking, Mute
    <2> QED
      BY <1>0, <2>1, <2>2 DEF Phase, Over
  <1>2. CASE Greeted
    <2>1. /\ client = "greeted" /\ UNCHANGED <<moved, chunk, up>>
          /\ client' = IF activity = "upload" THEN "push"
                       ELSE IF left = 0 THEN "close" ELSE "request"
          /\ down # <<>> /\ down' = Tail(down)
      BY <1>2 DEF Greeted, Client, ClientReceives
    <2>2. CASE activity = "upload"
      <3>1. Accepting /\ down = <<Response>>
        BY <2>1, <2>2 DEF Phase, Asking, Accepting, Mute
      <3>2. down' = <<>>
        BY <2>1, <3>1
      <3>3. server \in {"collect", "end", "done"}
        BY <2>1, <3>1 DEF Accepting
      <3>4. Pushing'
        BY <1>0, <2>1, <3>1, <3>2, <3>3, SizesAssumption DEF Accepting, Pushing
      <3> QED
        BY <1>0, <2>1, <2>2, <3>4 DEF Phase, Over
    <2>3. CASE activity # "upload"
      BY <1>0, <2>1, <2>3 DEF Phase, Places, Over
    <2> QED BY <2>2, <2>3
  <1>3. CASE Request \/ Requested
    BY <1>0, <1>3 DEF Request, Requested, Client, Phase, Places, Over
  <1>4. CASE ReceiveChunk
    <2>1. PICK n \in 1..MaxChunk :
            /\ client = "chunk"
            /\ client' = IF moved + n >= FileSize THEN "close" ELSE "chunk"
            /\ down # <<>> /\ Head(down) = Chunk("FileDownloadChunk", n)
            /\ down' = Tail(down) /\ moved' = moved + n /\ UNCHANGED <<up, result>>
      BY <1>4 DEF ReceiveChunk, Client, ClientReceives
    <2>2. Serving
      BY <2>1 DEF Phase, Asking, Mute
    <2>3. Head(down).size = n /\ n \in Nat
      BY <2>1, SizesAssumption DEF Chunk
    <2>4. /\ Sums(Tail(down), moved + n, due)
          /\ moved + n + due <= FileSize
      BY <2>1, <2>2, <2>3, SumsShift DEF Serving, Ledger
    <2>5. Serving'
      BY <1>0, <2>1, <2>2, <2>3, <2>4 DEF Serving, Ledger
    <2>6. moved + n >= FileSize => Whole'
      <3>1. moved \in Nat /\ due \in Nat /\ up = <<>>
        BY <2>2 DEF Serving, Ledger
      <3>2. moved + n >= FileSize => moved + n = FileSize /\ due = 0
        BY <2>3, <2>4, <3>1, SizesAssumption
      <3> QED
        BY <1>0, <2>1, <3>1, <3>2 DEF Whole
    <2> QED
      BY <1>0, <2>1, <2>5, <2>6 DEF Phase, Over
  <1>5. CASE Push
    <2>1. PICK n \in 1..Least(MaxChunk, FileSize - moved) :
            ClientSends(Chunk("FileUploadChunk", n)) /\ chunk' = n
      BY <1>5 DEF Push
    <2>2. client = "push" /\ client' = "pushed" /\ UNCHANGED moved
      BY <1>5 DEF Push, Client
    <2>3. Pushing
      BY <2>2 DEF Phase
    <2>4. n \in 1..(FileSize - moved) /\ moved \in Nat
      BY <2>3, SizesAssumption DEF Pushing, Least
    <2>5. down' = <<>> /\ (up' = Append(up, Chunk("FileUploadChunk", n)) \/ s_socket' = "rst")
      BY <2>1, <2>3, Sent DEF Pushing
    <2>6. Append(<<>>, Chunk("FileUploadChunk", n)) = <<Chunk("FileUploadChunk", n)>>
      OBVIOUS
    <2>7. Pending' \/ Mute'
      BY <1>0, <2>1, <2>2, <2>3, <2>4, <2>5, <2>6 DEF Pushing, Pending, Mute, Chunk
    <2> QED
      BY <1>0, <2>2, <2>7 DEF Phase, Over
  <1>6. CASE Pushed
    <2>1. /\ client = "pushed" /\ down # <<>> /\ down' = Tail(down)
          /\ client' = IF moved + chunk >= FileSize THEN "close" ELSE "push"
          /\ moved' = moved + chunk /\ chunk' = 0 /\ UNCHANGED up
      BY <1>6 DEF Pushed, Client, ClientReceives
    <2>2. Pending /\ down = <<Response>>
      BY <2>1 DEF Phase, Pending, Mute
    <2>3. /\ moved \in Nat /\ chunk \in 1..(FileSize - moved)
          /\ up = <<>> /\ due = FileSize - moved - chunk
          /\ \/ server \in {"end", "done"}
             \/ server = "receive" /\ due = 0
             \/ server = "collect" /\ due # 0
      BY <2>1, <2>2 DEF Pending
    <2>4. down' = <<>>
      BY <2>1, <2>2
    <2>5. CASE moved + chunk >= FileSize
      <3>1. moved' = FileSize /\ due = 0
        BY <2>1, <2>3, <2>5, SizesAssumption
      <3> QED
        BY <1>0, <2>1, <2>3, <2>5, <3>1 DEF Phase, Over, Whole
    <2>6. CASE ~(moved + chunk >= FileSize)
      <3>1. moved' \in 0..(FileSize - 1) /\ due = FileSize - moved' /\ due # 0
        BY <2>1, <2>3, <2>6, SizesAssumption
      <3> QED
        BY <1>0, <2>1, <2>3, <2>4, <2>6, <3>1 DEF Phase, Over, Pushing
    <2> QED BY <2>5, <2>6
  <1>7. CASE SayClose
    <2>1. /\ client = "close" /\ client' = "leave" /\ UNCHANGED moved
          /\ up' \in {up, Append(up, Goodbye)}
      BY <1>7 DEF SayClose, Client, ClientSends, Goodbye, local
    <2> QED
      BY <1>0, <2>1, GoodbyesOnly DEF Phase, Over, Whole
  <1>8. CASE Leave
    <2>1. client = "leave" /\ client' = "done" /\ UNCHANGED moved /\ up' \in {up, <<>>}
      BY <1>8 DEF Leave, ClientLeaves
    <2> QED
      BY <1>0, <2>1, GoodbyesOnly DEF Phase, Over, Whole
  <1>9. CASE ClientSendFails \/ ClientReceiveFails
    BY <1>0, <1>9 DEF ClientSendFails, ClientReceiveFails, ClientLeaves, Phase, Over
  <1> QED
    BY <1>1, <1>2, <1>3, <1>4, <1>5, <1>6, <1>7, <1>8, <1>9 DEF ClientStep

-----------------------------------------------------------------------------
LEMMA InvStep == ASSUME Inv, [Next]_vars PROVE Inv'
  <1>1. CASE ClientStep
    BY <1>1, NearPlaces, NearPhase DEF Inv
  <1>2. CASE Far
    BY <1>2, FarPlaces, FarPhase DEF Inv
  <1>3. CASE Stop
    BY <1>3 DEF Stop, local, Inv, Places, Phase
  <1>4. CASE UNCHANGED vars
    BY <1>4
    DEF vars, local, handler, path, Inv, Places, Phase, Opening, Asking, First, Serving,
        Ledger, Sums, Mute, Accepting, Pushing, Pending, Over, Whole
  <1> QED BY <1>1, <1>2, <1>3, <1>4 DEF Next, Far

\* An activity that ends well, and that nobody stopped, has moved its file whole
\* (tcp_client.rs, perform_file_download and perform_file_upload), and the server's
\* handler has neither a unit left to send nor one left to collect.
THEOREM FilesAlwaysWhole == Spec => []WholeFile
  <1>1. Inv => WholeFile
    BY DEF Inv, Phase, Places, Over, Whole, WholeFile
  <1> QED
    BY <1>1, InvInit, InvStep, PTL DEF Spec

-----------------------------------------------------------------------------
(* A path without faults.                                                  *)

\* A chunk holds at least a unit.
Pieces == [type : {"FileDownloadChunk"}, size : Nat \ {0}]

\* Nothing is under way, and the server stands at p.
Idle(p) == up = <<>> /\ down = <<>> /\ server = p

\* Message m is under way to a server that waits at p[1], is being answered at
\* p[2], or is answered and the server has gone on to one of the places q.
Answering(m, p, q) ==
    \/ up = <<m>> /\ down = <<>> /\ server = p[1]
    \/ Idle(p[2])
    \/ up = <<>> /\ down = <<Response>> /\ server \in q

\* A download, while the client reads.
Streaming ==
    /\ down \in Seq(Pieces)
    /\ \/ up = <<First>> /\ down = <<>> /\ server = "receive"
       \/ up = <<>> /\ server = "stream" /\ due \in Nat \ {0}
       \/ up = <<>> /\ server = "receive"

\* The close the client has sent: under way, dropped by an upload's loop that it
\* cuts short, or taken.
Closing ==
    /\ down = <<>> /\ errors = 0
    /\ \/ /\ up = <<Goodbye>>
          /\ server = "receive" \/ (server = "collect" /\ activity = "upload" /\ stoped)
       \/ up = <<>> /\ server = "receive" /\ activity = "upload" /\ stoped
       \/ up = <<>> /\ server \in {"end", "done"}

\* A download whose client leaves in its middle.
CutShort == activity = "download" /\ stoped
\* The client has said that it closes, or has gone.
Gone == client \in {"leave", "done"}

\* Neither end lets go before it is done.
Sockets ==
    /\ relaying /\ result # "err"
    /\ client # "done" => c_socket = "open"
    /\ server # "done" => s_socket = "open"
    /\ (client = "done" /\ ~CutShort) => c_socket = "fin"

\* Where the server stands, and what is under way, wherever the client stands.
Course ==
    /\ ~Gone => errors = 0
    /\ client = "greet" => Idle("receive")
    /\ (client = "greeted" /\ activity = "page") =>
         Answering(First, <<"receive", "reply">>, {"receive"})
    /\ (client = "greeted" /\ activity = "upload") =>
         Answering(First, <<"receive", "accept">>, {"collect"})
    /\ client = "request" => Idle("receive")
    /\ client = "requested" =>
         Answering(Msg("HttpRequest"), <<"receive", "reply">>, {"receive"})
    /\ client = "push" => Idle("collect")
    /\ client = "pushed" =>
         Answering(Chunk("FileUploadChunk", chunk), <<"collect", "confirm">>,
                   {"receive", "collect"})
    /\ client = "chunk" => Streaming
    /\ client = "close" =>
         \/ Idle("receive")
         \/ Idle("collect") /\ activity = "upload" /\ stoped
         \/ CutShort /\ Streaming /\ up = <<>>
    /\ (Gone /\ ~CutShort) => Closing

\* What one end has counted as sent, the other has received or is to receive,
\* save the close that an upload cut short drops.
Counted ==
    /\ c_sent \in Nat /\ c_received \in Nat /\ s_sent \in Nat /\ s_received \in Nat
    /\ ~(CutShort /\ Gone) =>
         /\ c_received + Len(down) = s_sent
         /\ \/ c_sent + (IF Gone THEN 1 ELSE 0) = s_received + Len(up)
            \/ /\ Gone /\ activity = "upload" /\ stoped
               /\ up = <<>> /\ c_sent = s_received

\* On a path that never had a fault.
Clear == ~faulted => Sockets /\ Course /\ Counted

-----------------------------------------------------------------------------
\* Of a single message.
LEMMA Singles ==
  ASSUME NEW m
  PROVE  /\ Append(<<>>, m) = <<m>> /\ Head(<<m>>) = m /\ Tail(<<m>>) = <<>>
         /\ Len(<<m>>) = 1 /\ Len(<<>>) = 0 /\ <<m>> # <<>>
  OBVIOUS

\* What the handler answers at once.
LEMMA DispatchReply ==
  /\ Dispatch("TlsHandshake") = "reply" /\ Dispatch("HttpRequest") = "reply"
  /\ Dispatch("FileUploadChunk") = "reply"
  BY Zenon DEF Dispatch

\* At the start nothing is under way.
LEMMA ClearInit == Init => Clear
  <1> SUFFICES ASSUME Init PROVE Clear
    OBVIOUS
  <1>1. Sockets
    BY DEF Init, Sockets
  <1>2. Course
    BY DEF Init, Course, Idle, Gone
  <1>3. Counted
    BY Singles DEF Init, Counted, Gone
  <1> QED BY <1>1, <1>2, <1>3 DEF Clear

\* The connection is up.
Open == relaying /\ c_socket = "open" /\ s_socket = "open"

\* The server moves nothing of the client's, nor the path.
LEMMA ServerLeaves ==
  ASSUME ServerStep
  PROVE  /\ UNCHANGED <<local, stoped, client, path>>
         /\ First' = First /\ (CutShort' <=> CutShort) /\ (Gone' <=> Gone)
  <1>1. UNCHANGED <<local, stoped, client, path>>
    BY DEF ServerStep, Receive, Reply, Stream, Accept, Collect, Confirm, ServerSendFails,
       ServerReceiveFails, End
  <1> QED
    BY <1>1 DEF local, First, CutShort, Gone

\* A server that waits for a message, with none under way, stands still ...
LEMMA Rests ==
  ASSUME Open, up = <<>>, server \in {"receive", "collect"} PROVE ~ServerStep
  BY DEF Open, ServerStep, Receive, Reply, Stream, Accept, Collect, Confirm, Server,
     ServerReceives, ServerSendFails, ServerReceiveFails, End

\* ... one that owes an answer gives it ...
LEMMA Works ==
  ASSUME Open, server \in {"reply", "accept", "confirm"}, up = <<>>, down = <<>>, ServerStep
  PROVE  /\ up' = <<>> /\ down' = <<Response>>
         /\ s_sent' = s_sent + 1
         /\ UNCHANGED <<errors, s_received, c_socket, s_socket>>
         /\ server = "reply" => server' = "receive"
         /\ server = "accept" => server' = "collect"
         /\ server = "confirm" => server' \in {"receive", "collect"}
  BY DEF Response, Open, ServerStep, Receive, Reply, Stream, Accept, Collect, Confirm,
     Server, ServerSends, ServerSendFails, ServerReceiveFails, End

\* ... and one that has a message takes it, in the handler's loop ...
LEMMA Takes ==
  ASSUME relaying, s_socket = "open", c_socket # "rst", server = "receive", NEW m,
         up = <<m>>, ServerStep
  PROVE  /\ up' = <<>> /\ server' = Dispatch(m.type)
         /\ s_received' = s_received + 1
         /\ UNCHANGED <<errors, s_sent, down, c_socket, s_socket>>
         /\ due' = IF m.type \in {"FileDownloadRequest", "FileUploadRequest"}
                   THEN FileSize ELSE due
  <1>1. Receive
    BY Singles DEF ServerStep, Reply, Stream, Accept, Collect, Confirm, Server,
       ServerSendFails,
       ServerReceiveFails, End
  <1> QED BY <1>1, OneTaken DEF Receive, Server

\* ... or in an upload's.
LEMMA Collects ==
  ASSUME relaying, s_socket = "open", c_socket # "rst", server = "collect", NEW m,
         up = <<m>>, ServerStep
  PROVE  /\ up' = <<>>
         /\ UNCHANGED <<errors, s_sent, down, c_socket, s_socket>>
         /\ IF m.type = "FileUploadChunk"
            THEN server' = "confirm" /\ s_received' = s_received + 1
            ELSE server' = "receive" /\ UNCHANGED s_received
  <1>1. Collect
    BY Singles DEF ServerStep, Reply, Stream, Accept, Receive, Confirm, Server,
       ServerSendFails,
       ServerReceiveFails, End
  <1>2. Head(up) = m /\ up' = <<>>
    BY <1>1, OneTaken DEF Collect
  <1> QED BY <1>1, <1>2 DEF Collect, Server

\* A download's chunks are cut to what is due.
LEMMA Streams ==
  ASSUME Open, Streaming, activity = "download", ServerStep,
         c_received + Len(down) = s_sent,
         s_received \in Nat, c_received \in Nat, s_sent \in Nat
  PROVE  /\ Streaming' /\ c_received + Len(down') = s_sent'
         /\ s_received' + Len(up') = s_received + Len(up)
         /\ up = <<>> => up' = <<>>
         /\ s_received' \in Nat /\ s_sent' \in Nat
         /\ UNCHANGED <<errors, c_socket, s_socket>>
         /\ server' \in {"receive", "stream"}
  <1>0. First' = First /\ First = Msg("FileDownloadRequest")
    BY ServerLeaves, FirstIs
  <1>1. CASE up = <<First>> /\ down = <<>> /\ server = "receive"
    <2>1. /\ up' = <<>> /\ server' = Dispatch("FileDownloadRequest")
          /\ s_received' = s_received + 1 /\ due' = FileSize
          /\ UNCHANGED <<errors, s_sent, down, c_socket, s_socket>>
      BY <1>0, <1>1, Takes DEF Open, Msg
    <2> QED
      BY <1>1, <2>1, DispatchIs, Singles, SizesAssumption DEF Streaming
  <1>2. CASE up = <<>> /\ server = "stream" /\ due \in Nat \ {0}
    <2>1. Stream
      BY <1>2 DEF Open, ServerStep, Receive, Reply, Accept, Collect, Confirm, Server,
         ServerSendFails, ServerReceiveFails, End
    <2>2. PICK n \in 1..Least(MaxChunk, due) :
            /\ server' = IF due = n THEN "receive" ELSE "stream"
            /\ ServerSends(Chunk("FileDownloadChunk", n))
            /\ due' = due - n
            /\ UNCHANGED <<errors, s_received, s_socket>>
      BY <2>1, Zenon DEF Stream, Server
    <2>3. n \in 1..due
      BY <1>2, <2>2, SizesAssumption DEF Least
    <2> DEFINE c == Chunk("FileDownloadChunk", n)
    <2>4. down' = Append(down, c) /\ UNCHANGED <<up, c_socket>> /\ s_sent' = s_sent + 1
      BY <2>2 DEF ServerSends, Open
    <2>5. c \in Pieces
      BY <1>2, <2>3 DEF Chunk, Pieces
    <2> HIDE DEF c
    <2>6. down' \in Seq(Pieces) /\ Len(down') = Len(down) + 1 /\ Len(down) \in Nat
      BY <2>4, <2>5 DEF Streaming
    <2>7. server' = "receive" \/ (server' = "stream" /\ due' \in Nat \ {0})
      BY <1>2, <2>2, <2>3
    <2> QED
      BY <1>2, <2>2, <2>4, <2>6, <2>7 DEF Streaming
  <1>3. CASE up = <<>> /\ server = "receive"
    BY <1>3, Rests
  <1> QED BY <1>1, <1>2, <1>3 DEF Streaming

\* The server's steps while the client is there.
LEMMA ServerKeeps ==
  ASSUME Places, Sockets, Course, Counted, ~Gone, ServerStep
  PROVE  Sockets' /\ Course' /\ Counted'
  <1> DEFINE known ==
        /\ c_sent \in Nat /\ c_received \in Nat /\ s_sent \in Nat /\ s_received \in Nat
        /\ c_received + Len(down) = s_sent
        /\ c_sent = s_received + Len(up)
  <1>1. /\ UNCHANGED <<activity, left, moved, chunk, result, c_sent, c_received, stoped,
                       client,
                       relaying, faulted>>
        /\ First' = First /\ (CutShort' <=> CutShort) /\ ~Gone'
    BY ServerLeaves DEF local, path
  <1>2. known /\ errors = 0
    BY DEF Counted, Course
  <1>3. server \in {"receive", "collect", "reply", "accept", "confirm", "stream"}
    BY DEF Course, Gone, Idle, Answering, Streaming, Places
  <1>4. Open
    BY <1>3 DEF Open, Sockets, Gone
  <1>5. SUFFICES /\ UNCHANGED <<c_socket, s_socket, errors>> /\ server' # "done" /\ Course'
                 /\ s_sent' \in Nat /\ s_received' \in Nat
                 /\ c_received + Len(down') = s_sent'
                 /\ c_sent = s_received' + Len(up')
    <2>1. Sockets'
      BY <1>1, <1>4, <1>5 DEF Open, Sockets, Gone
    <2>2. Counted'
      BY <1>1, <1>2, <1>5 DEF Counted
    <2> QED BY <1>5, <2>1, <2>2
  <1>6. ~(up = <<>> /\ server \in {"receive", "collect"})
    BY <1>4, Rests
  <1>7. CASE client \in {"greet", "request", "push"}
    BY <1>6, <1>7 DEF Course, Idle
  <1>8. ASSUME NEW m, NEW p, NEW q \in SUBSET {"receive", "collect"}, Answering(m, p, q),
               \/ /\ p[1] = "receive" /\ p[2] \in {"reply", "accept"} /\ Dispatch(m.type) = p[2]
                  /\ p[2] = "reply" => q = {"receive"}
                  /\ p[2] = "accept" => q = {"collect"}
               \/ /\ p = <<"collect", "confirm">> /\ m.type = "FileUploadChunk"
                  /\ q = {"receive", "collect"}
        PROVE  /\ UNCHANGED <<c_socket, s_socket, errors>> /\ server' # "done"
               /\ s_sent' \in Nat /\ s_received' \in Nat
               /\ c_received + Len(down') = s_sent'
               /\ c_sent = s_received' + Len(up')
               /\ \/ up' = <<>> /\ down' = <<>> /\ server' = p[2]
                  \/ up' = <<>> /\ down' = <<Response>> /\ server' \in q
    <2>1. CASE up = <<m>> /\ down = <<>> /\ server = p[1]
      <3>1. /\ up' = <<>> /\ down' = <<>> /\ server' = p[2] /\ s_received' = s_received + 1
            /\ UNCHANGED <<errors, s_sent, c_socket, s_socket>>
        BY <1>4, <1>8, <2>1, Takes, Collects DEF Open
      <3> QED
        BY <1>2, <1>8, <2>1, <3>1, Singles
    <2>2. CASE Idle(p[2])
      <3>1. /\ up' = <<>> /\ down' = <<Response>> /\ s_sent' = s_sent + 1 /\ server' \in q
            /\ UNCHANGED <<errors, s_received, c_socket, s_socket>>
        BY <1>4, <1>8, <2>2, Works DEF Idle
      <3> QED
        BY <1>2, <1>8, <2>2, <3>1, Singles DEF Idle
    <2>3. CASE up = <<>> /\ down = <<Response>> /\ server \in q
      BY <1>6, <2>3
    <2> QED BY <1>8, <2>1, <2>2, <2>3 DEF Answering
  <1>9. CASE client = "greeted" /\ activity = "page"
    <2>1. Answering(First, <<"receive", "reply">>, {"receive"})
      BY <1>9 DEF Course
    <2>2. First.type = "TlsHandshake"
      BY <1>9, FirstIs DEF Msg
    <2>3. /\ UNCHANGED <<c_socket, s_socket, errors>> /\ server' # "done"
          /\ s_sent' \in Nat /\ s_received' \in Nat
          /\ c_received + Len(down') = s_sent'
          /\ c_sent = s_received' + Len(up')
          /\ \/ up' = <<>> /\ down' = <<>> /\ server' = "reply"
             \/ up' = <<>> /\ down' = <<Response>> /\ server' \in {"receive"}
      BY <1>8, <2>1, <2>2, DispatchReply
    <2>4. Course'
      BY <1>1, <1>2, <1>9, <2>3 DEF Course, Answering, Idle
    <2> QED BY <2>3, <2>4
  <1>10. CASE client = "greeted" /\ activity = "upload"
    <2>1. Answering(First, <<"receive", "accept">>, {"collect"})
      BY <1>10 DEF Course
    <2>2. First.type = "FileUploadRequest"
      BY <1>10, FirstIs DEF Msg
    <2>3. /\ UNCHANGED <<c_socket, s_socket, errors>> /\ server' # "done"
          /\ s_sent' \in Nat /\ s_received' \in Nat
          /\ c_received + Len(down') = s_sent'
          /\ c_sent = s_received' + Len(up')
          /\ \/ up' = <<>> /\ down' = <<>> /\ server' = "accept"
             \/ up' = <<>> /\ down' = <<Response>> /\ server' \in {"collect"}
      BY <1>8, <2>1, <2>2, DispatchIs
    <2>4. Course'
      BY <1>1, <1>2, <1>10, <2>3 DEF Course, Answering, Idle
    <2> QED BY <2>3, <2>4
  <1>11. CASE client = "requested"
    <2>1. Answering(Msg("HttpRequest"), <<"receive", "reply">>, {"receive"})
      BY <1>11 DEF Course
    <2>2. Msg("HttpRequest").type = "HttpRequest"
      BY DEF Msg
    <2>3. /\ UNCHANGED <<c_socket, s_socket, errors>> /\ server' # "done"
          /\ s_sent' \in Nat /\ s_received' \in Nat
          /\ c_received + Len(down') = s_sent'
          /\ c_sent = s_received' + Len(up')
          /\ \/ up' = <<>> /\ down' = <<>> /\ server' = "reply"
             \/ up' = <<>> /\ down' = <<Response>> /\ server' \in {"receive"}
      BY <1>8, <2>1, <2>2, DispatchReply
    <2>4. Course'
      BY <1>1, <1>2, <1>11, <2>3 DEF Course, Answering, Idle
    <2> QED BY <2>3, <2>4
  <1>12. CASE client = "pushed"
    <2>1. Answering(Chunk("FileUploadChunk", chunk), <<"collect", "confirm">>,
                    {"receive", "collect"})
      BY <1>12 DEF Course
    <2>2. Chunk("FileUploadChunk", chunk).type = "FileUploadChunk"
      BY DEF Chunk
    <2>3. /\ UNCHANGED <<c_socket, s_socket, errors>> /\ server' # "done"
          /\ s_sent' \in Nat /\ s_received' \in Nat
          /\ c_received + Len(down') = s_sent'
          /\ c_sent = s_received' + Len(up')
          /\ \/ up' = <<>> /\ down' = <<>> /\ server' = "confirm"
             \/ up' = <<>> /\ down' = <<Response>> /\ server' \in {"receive", "collect"}
      BY <1>8, <2>1, <2>2
    <2>4. Course'
      BY <1>1, <1>2, <1>12, <2>3 DEF Course, Answering, Idle
    <2> QED BY <2>3, <2>4
  <1>13. CASE client \in {"chunk", "close"} /\ ~(up = <<>> /\ server \in {"receive", "collect"})
    <2>1. Streaming /\ activity = "download" /\ (client = "close" => CutShort /\ up = <<>>)
      BY <1>13 DEF Course, Places, Idle, CutShort
    <2>2. /\ Streaming' /\ c_received + Len(down') = s_sent'
          /\ s_received' + Len(up') = s_received + Len(up)
          /\ up = <<>> => up' = <<>>
          /\ s_received' \in Nat /\ s_sent' \in Nat
          /\ UNCHANGED <<errors, c_socket, s_socket>>
          /\ server' \in {"receive", "stream"}
      BY <1>2, <1>4, <2>1, Streams
    <2>3. Course'
      BY <1>1, <1>2, <1>13, <2>1, <2>2 DEF Course
    <2> QED BY <1>2, <2>2, <2>3
  <1> QED
    BY <1>6, <1>7, <1>9, <1>10, <1>11, <1>12, <1>13 DEF Places, Gone

\* The server's steps once the client has said that it closes.
LEMMA ServerCloses ==
  ASSUME Places, Sockets, Course, Counted, Gone, ServerStep
  PROVE  Sockets' /\ Course' /\ Counted'
  <1>1. /\ UNCHANGED <<activity, left, moved, chunk, result, c_sent, c_received, stoped,
                       client,
                       relaying, faulted>>
        /\ (CutShort' <=> CutShort) /\ Gone'
    BY ServerLeaves DEF local, path
  <1>2. CASE CutShort
    <2>1. c_socket' = c_socket \/ client = "done"
      BY <1>2 DEF Sockets, Gone, ServerStep, Receive, Reply, Stream, Accept, Collect,
         Confirm,
         ServerSends, ServerSendFails, ServerReceiveFails, End
    <2>2. s_socket' = s_socket \/ server' = "done"
      BY DEF ServerStep, Receive, Reply, Stream, Accept, Collect, Confirm,
         ServerSends, ServerSendFails, ServerReceiveFails, End, Server
    <2>3. s_sent' \in {s_sent, s_sent + 1} /\ s_received' \in {s_received, s_received + 1}
      BY DEF ServerStep, Receive, Reply, Stream, Accept, Collect, Confirm,
         ServerSends, ServerSendFails, ServerReceiveFails, End, handler
    <2>4. server = "done" => FALSE
      BY DEF ServerStep, Receive, Reply, Stream, Accept, Collect, Confirm,
         ServerSends, ServerSendFails, ServerReceiveFails, End, Server
    <2>5. Sockets'
      BY <1>1, <1>2, <2>1, <2>2, <2>4 DEF Sockets
    <2>6. Counted'
      BY <1>1, <1>2, <2>3 DEF Counted
    <2>7. Course'
      BY <1>1, <1>2 DEF Course, Gone
    <2> QED BY <2>5, <2>6, <2>7
  <1>3. CASE ~CutShort
    <2>1. Closing /\ c_socket \in {"open", "fin"} /\ (server # "done" => s_socket = "open")
      BY <1>3 DEF Course, Sockets, Gone
    <2>2. SUFFICES /\ Closing' /\ UNCHANGED <<c_socket, s_sent>>
                   /\ (server' # "done" => s_socket' = "open")
                   /\ s_received' \in Nat
                   /\ \/ c_sent + 1 = s_received' + Len(up')
                      \/ activity = "upload" /\ stoped /\ up' = <<>> /\ c_sent = s_received'
      <3>1. Sockets'
        BY <1>1, <1>3, <2>1, <2>2 DEF Sockets
      <3>2. Counted'
        BY <1>1, <1>3, <2>1, <2>2 DEF Counted, Closing
      <3>3. Course'
        BY <1>1, <1>3, <2>2 DEF Course, Gone
      <3> QED BY <3>1, <3>2, <3>3
    <2>3. CASE up = <<Goodbye>>
      <3>1. c_sent + 1 = s_received + 1 /\ c_sent \in Nat /\ s_received \in Nat
        BY <1>3, <2>3, Singles DEF Counted
      <3>2. Goodbye.type = "ConnectionClose"
        BY DEF Goodbye, Msg
      <3>3. CASE server = "receive"
        <4>1. /\ up' = <<>> /\ server' = "end" /\ s_received' = s_received + 1
              /\ UNCHANGED <<errors, s_sent, down, c_socket, s_socket>>
          BY <2>1, <2>3, <3>2, <3>3, Takes, DispatchIs DEF Sockets
        <4> QED
          BY <1>1, <2>1, <3>1, <3>3, <4>1, Singles DEF Closing
      <3>4. CASE server = "collect" /\ activity = "upload" /\ stoped
        <4>1. /\ up' = <<>> /\ server' = "receive" /\ s_received' = s_received
              /\ UNCHANGED <<errors, s_sent, down, c_socket, s_socket>>
          BY <2>1, <2>3, <3>2, <3>4, Collects DEF Sockets
        <4> QED
          BY <1>1, <2>1, <3>1, <3>4, <4>1, Singles DEF Closing
      <3> QED BY <2>1, <2>3, <3>3, <3>4, Singles DEF Closing
    <2>4. CASE up = <<>>
      <3>0. server \in {"receive", "end", "done"}
        BY <2>1, <2>4, Singles DEF Closing
      <3>1. server \in {"receive", "end"}
        BY <3>0 DEF ServerStep, Receive, Reply, Stream, Accept, Collect, Confirm,
           ServerSends, ServerSendFails, ServerReceiveFails, End, Server
      <3>2. /\ up' = <<>> /\ server' \in {"end", "done"}
            /\ UNCHANGED <<errors, s_sent, s_received, c_socket, down>>
            /\ server' # "done" => s_socket' = s_socket
        BY <2>1, <2>4, <3>1 DEF Sockets, Closing, ServerStep, Receive, Reply, Stream,
           Accept, Collect, Confirm,
           ServerReceives, ServerSendFails, ServerReceiveFails, End, Server, handler
      <3>3. s_received \in Nat /\ c_sent \in Nat
        BY DEF Counted
      <3> QED
        BY <1>3, <2>1, <2>4, <3>1, <3>2, <3>3, Singles DEF Closing, Counted
    <2> QED BY <2>1, <2>3, <2>4 DEF Closing
  <1> QED BY <1>2, <1>3

\* On a connection that is up a message goes its way.
LEMMA Talks ==
  ASSUME Open, NEW m, ClientSends(m)
  PROVE  up' = Append(up, m) /\ UNCHANGED <<s_socket, down>>
  BY DEF Open, ClientSends

\* The client's steps while it is there; where an activity ends well, that its
\* file is whole tells where the server stands.
LEMMA ClientKeeps ==
  ASSUME Inv, Inv', Sockets, Course, Counted, ClientStep
  PROVE  Sockets' /\ Course' /\ Counted'
  <1>1. /\ UNCHANGED <<activity, stoped, due, server, errors, s_sent, s_received, relaying>>
        /\ First' = First /\ (CutShort' <=> CutShort)
    <2>1. UNCHANGED <<activity, stoped, due, server, errors, s_sent, s_received, relaying>>
      BY DEF local, handler, path, ClientStep, Greet, Greeted, Request, Requested,
         ReceiveChunk, Push, Pushed, SayClose, Leave, ClientSendFails, ClientReceiveFails,
         ClientLeaves
    <2> QED
      BY <2>1 DEF First, CutShort
  <1>2. client # "done" /\ c_socket = "open"
    BY DEF Sockets, ClientStep, Client, Greet, Greeted, Request, Requested, ReceiveChunk,
       Push, Pushed,
       SayClose, Leave, ClientSendFails, ClientReceiveFails
  <1>3. ~Gone => Open
    <2>1. ~Gone => server # "done"
      BY <1>2 DEF Course, Gone, Idle, Answering, Streaming, Inv, Places
    <2> QED BY <1>2, <2>1 DEF Open, Sockets
  <1>4. ~Gone => /\ c_received + Len(down) = s_sent /\ c_sent = s_received + Len(up) /\ errors = 0
    BY DEF Counted, Course
  <1>5. c_sent \in Nat /\ c_received \in Nat /\ s_sent \in Nat /\ s_received \in Nat
    BY DEF Counted
  <1>6. ~ClientSendFails /\ ~ClientReceiveFails
    <2>1. ~ClientSendFails
      BY <1>3 DEF ClientSendFails, Open, Gone
    <2>2. ~ClientReceiveFails
      BY <1>3 DEF ClientReceiveFails, Open, Gone
    <2> QED BY <2>1, <2>2
  <1>7. CASE Greet
    <2>1. /\ client = "greet" /\ up' = Append(up, First)
          /\ UNCHANGED <<s_socket, c_socket, down, c_received, result>>
          /\ client' = IF activity = "download" THEN "chunk" ELSE "greeted"
          /\ c_sent' = c_sent + 1
      BY <1>3, <1>7, Talks DEF Greet, Client, Gone
    <2>2. Idle("receive") /\ up' = <<First>>
      BY <2>1, Singles DEF Course, Idle
    <2>3. Sockets'
      BY <1>1, <1>2, <2>1 DEF Sockets, Gone
    <2>4. Counted'
      BY <1>1, <1>4, <1>5, <2>1, <2>2, Singles DEF Counted, Gone, Idle
    <2>5. <<>> \in Seq(Pieces)
      OBVIOUS
    <2>6. Course'
      BY <1>1, <1>4, <2>1, <2>2, <2>5 DEF Course, Gone, Idle, Answering, Streaming, Inv,
         Places
    <2> QED BY <2>3, <2>4, <2>6
  <1>8. CASE Greeted
    <2>1. /\ client = "greeted" /\ down # <<>> /\ down' = Tail(down)
          /\ c_received' = c_received + 1
          /\ UNCHANGED <<up, s_socket, c_socket, c_sent, result>>
          /\ client' = IF activity = "upload" THEN "push"
                       ELSE IF left = 0 THEN "close" ELSE "request"
      BY <1>8 DEF Greeted, Client, ClientReceives
    <2>2. /\ up = <<>> /\ down = <<Response>>
          /\ server = IF activity = "upload" THEN "collect" ELSE "receive"
      BY <2>1 DEF Course, Idle, Answering, Inv, Places
    <2>3. down' = <<>>
      BY <2>1, <2>2, Singles
    <2>4. Sockets'
      BY <1>1, <1>2, <2>1 DEF Sockets, Gone
    <2>5. Counted'
      BY <1>1, <1>4, <1>5, <2>1, <2>2, <2>3, Singles DEF Counted, Gone
    <2>6. Course'
      BY <1>1, <1>4, <2>1, <2>2, <2>3 DEF Course, Gone, Idle, Inv, Places
    <2> QED BY <2>4, <2>5, <2>6
  <1>9. CASE Request
    <2>1. /\ client = "request" /\ client' = "requested"
          /\ up' = Append(up, Msg("HttpRequest"))
          /\ UNCHANGED <<s_socket, c_socket, down, c_received, result>>
          /\ c_sent' = c_sent + 1
      BY <1>3, <1>9, Talks DEF Request, Client, Gone
    <2>2. Idle("receive") /\ up' = <<Msg("HttpRequest")>>
      BY <2>1, Singles DEF Course, Idle
    <2>3. Sockets'
      BY <1>1, <1>2, <2>1 DEF Sockets, Gone
    <2>4. Counted'
      BY <1>1, <1>4, <1>5, <2>1, <2>2, Singles DEF Counted, Gone, Idle
    <2>6. Course'
      BY <1>1, <1>4, <2>1, <2>2 DEF Course, Gone, Idle, Answering, Inv, Places
    <2> QED BY <2>3, <2>4, <2>6
  <1>10. CASE Requested
    <2>1. /\ client = "requested" /\ down # <<>> /\ down' = Tail(down)
          /\ c_received' = c_received + 1
          /\ UNCHANGED <<up, s_socket, c_socket, c_sent, result>>
          /\ client' = IF stoped \/ left = 1 THEN "close" ELSE "request"
      BY <1>10 DEF Requested, Client, ClientReceives
    <2>2. up = <<>> /\ down = <<Response>> /\ server = "receive"
      BY <2>1 DEF Course, Idle, Answering
    <2>3. down' = <<>>
      BY <2>1, <2>2, Singles
    <2>4. Sockets'
      BY <1>1, <1>2, <2>1 DEF Sockets, Gone
    <2>5. Counted'
      BY <1>1, <1>4, <1>5, <2>1, <2>2, <2>3, Singles DEF Counted, Gone
    <2>6. Course'
      BY <1>1, <1>4, <2>1, <2>2, <2>3 DEF Course, Gone, Idle, Inv, Places
    <2> QED BY <2>4, <2>5, <2>6
  <1>11. CASE ReceiveChunk
    <2>1. PICK n \in 1..MaxChunk :
            /\ client = "chunk"
            /\ client' = IF stoped \/ moved + n >= FileSize THEN "close" ELSE "chunk"
            /\ down # <<>> /\ Head(down) = Chunk("FileDownloadChunk", n)
            /\ down' = Tail(down) /\ moved' = moved + n
            /\ c_received' = c_received + 1
            /\ UNCHANGED <<up, s_socket, c_socket, c_sent, result>>
      BY <1>11 DEF ReceiveChunk, Client, ClientReceives
    <2>2. Streaming /\ activity = "download"
      BY <2>1 DEF Course, Inv, Places
    <2>3. down' \in Seq(Pieces) /\ Len(down) = Len(down') + 1 /\ Len(down') \in Nat
      BY <2>1, <2>2 DEF Streaming
    <2>4. Streaming' /\ up' = <<>>
      BY <1>1, <2>1, <2>2, <2>3 DEF Streaming
    <2>5. Sockets'
      BY <1>1, <1>2, <2>1 DEF Sockets, Gone
    <2>6. Counted'
      BY <1>1, <1>4, <1>5, <2>1, <2>3 DEF Counted, Gone
    <2>7. CASE client' = "chunk" \/ stoped
      <3>1. errors' = 0 /\ (stoped => CutShort')
        BY <1>1, <1>4, <2>1, <2>2 DEF Gone, CutShort
      <3>2. client' = "chunk" \/ (client' = "close" /\ stoped)
        BY <2>1, <2>7
      <3> QED
        BY <2>4, <2>5, <2>6, <3>1, <3>2 DEF Course, Gone
    <2>8. CASE client' = "close" /\ ~stoped
      <3>1. moved' = FileSize /\ due = 0
        BY <1>1, <2>2, <2>8 DEF Inv, Phase, Over, Whole
      <3>2. Serving
        BY <2>1, <2>8, <1>1 DEF Inv, Phase, Asking, Mute
      <3>3. Sums(down', FileSize, 0)
        <4>1. Head(down).size = n /\ n \in Nat
          BY <2>1, SizesAssumption DEF Chunk
        <4> QED
          BY <2>1, <3>1, <3>2, <4>1, SumsShift DEF Serving, Ledger
      <3>4. down' = <<>>
        <4> SUFFICES ASSUME down' # <<>> PROVE FALSE
          OBVIOUS
        <4>0. Head(down') \in Pieces
          BY <2>3
        <4>1. down' \in Seq(Chunks) /\ Head(down').size \in Nat \ {0}
          <5>1. down' \in Seq(Chunks)
            BY <1>1, <2>1, <3>2 DEF Serving, Ledger
          <5> QED BY <4>0, <5>1 DEF Pieces
        <4>2. FileSize + Head(down').size + 0 <= FileSize
          BY <3>3, <4>1, SizesAssumption, SumsShift
        <4> QED
          BY <4>1, <4>2, SizesAssumption
      <3>5. server = "receive"
        BY <2>2, <3>1, <2>1 DEF Streaming
      <3>6. Idle("receive")' /\ errors' = 0
        BY <1>1, <1>4, <2>1, <2>4, <3>4, <3>5 DEF Idle, Gone
      <3> QED
        BY <2>5, <2>6, <2>8, <3>6 DEF Course, Gone, Idle
    <2> QED BY <2>1, <2>5, <2>6, <2>7, <2>8
  <1>12. CASE Push
    <2>1. PICK n \in 1..Least(MaxChunk, FileSize - moved) :
            ClientSends(Chunk("FileUploadChunk", n)) /\ chunk' = n
      BY <1>12 DEF Push
    <2>2. /\ client = "push" /\ client' = "pushed"
          /\ up' = Append(up, Chunk("FileUploadChunk", n))
          /\ UNCHANGED <<s_socket, c_socket, down, c_received, result>>
          /\ c_sent' = c_sent + 1
      BY <1>3, <1>12, <2>1, Talks DEF Push, Client, Gone
    <2>3. Idle("collect") /\ up' = <<Chunk("FileUploadChunk", n)>>
      BY <2>2, Singles DEF Course, Idle
    <2>4. Sockets'
      BY <1>1, <1>2, <2>2 DEF Sockets, Gone
    <2>5. Counted'
      BY <1>1, <1>4, <1>5, <2>2, <2>3, Singles DEF Counted, Gone, Idle
    <2>6. up' = <<Chunk("FileUploadChunk", chunk')>>
      BY <2>1, <2>3
    <2>7. Course'
      BY <1>1, <1>4, <2>2, <2>3, <2>6 DEF Course, Gone, Idle, Answering, Chunk
    <2> QED BY <2>4, <2>5, <2>7
  <1>13. CASE Pushed
    <2>1. /\ client = "pushed" /\ down # <<>> /\ down' = Tail(down)
          /\ c_received' = c_received + 1
          /\ UNCHANGED <<up, s_socket, c_socket, c_sent, result>>
          /\ client' = IF stoped \/ moved + chunk >= FileSize THEN "close" ELSE "push"
          /\ moved' = moved + chunk /\ chunk' = 0
      BY <1>13 DEF Pushed, Client, ClientReceives
    <2>2. /\ up = <<>> /\ down = <<Response>> /\ server \in {"receive", "collect"}
          /\ activity = "upload"
      BY <2>1 DEF Course, Idle, Answering, Inv, Places
    <2>3. down' = <<>>
      BY <2>1, <2>2, Singles
    <2>4. Sockets'
      BY <1>1, <1>2, <2>1 DEF Sockets, Gone
    <2>5. Counted'
      BY <1>1, <1>4, <1>5, <2>1, <2>2, <2>3, Singles DEF Counted, Gone
    <2>6. ~stoped => Pending
      BY <2>1, <2>2 DEF Inv, Phase, Mute
    <2>7. ~stoped => server = IF moved + chunk >= FileSize THEN "receive" ELSE "collect"
      <3> SUFFICES ASSUME ~stoped
                   PROVE  server = IF moved + chunk >= FileSize THEN "receive" ELSE "collect"
        OBVIOUS
      <3>0. <<Response>> # <<>>
        BY Singles
      <3>1. /\ moved \in Nat /\ chunk \in 1..(FileSize - moved)
            /\ due = FileSize - moved - chunk
            /\ (server = "receive" /\ due = 0) \/ (server = "collect" /\ due # 0)
        BY <2>2, <2>6, <3>0 DEF Pending
      <3> QED BY <3>1, SizesAssumption
    <2>8. Course'
      BY <1>1, <1>4, <2>1, <2>2, <2>3, <2>7 DEF Course, Gone, Idle
    <2> QED BY <2>4, <2>5, <2>8
  <1>14. CASE SayClose
    <2>1. /\ client = "close" /\ client' = "leave" /\ up' = Append(up, Goodbye)
          /\ UNCHANGED <<s_socket, c_socket, down, c_received, c_sent, result>>
      BY <1>3, <1>14, Talks DEF SayClose, Client, Gone, Goodbye, local
    <2>2. up = <<>> /\ up' = <<Goodbye>>
      BY <2>1, Singles DEF Course, Idle, Streaming
    <2>3. ~CutShort => /\ down = <<>>
                       /\ server = "receive" \/ (server = "collect" /\ activity = "upload" /\ stoped)
      BY <2>1 DEF Course, Idle
    <2>4. Sockets'
      BY <1>1, <1>2, <2>1 DEF Sockets, Gone
    <2>5. Counted'
      BY <1>1, <1>4, <1>5, <2>1, <2>2, Singles DEF Counted, Gone
    <2>6. Course'
      BY <1>1, <1>4, <2>1, <2>2, <2>3 DEF Course, Gone, Closing
    <2> QED BY <2>4, <2>5, <2>6
  <1>15. CASE Leave
    <2>1. /\ client = "leave" /\ client' = "done" /\ result' = "ok" /\ down' = <<>>
          /\ UNCHANGED <<s_socket, c_received, c_sent>>
          /\ down = <<>> => c_socket' = "fin" /\ up' = up
      BY <1>2, <1>15 DEF Leave, ClientLeaves
    <2>2. ~CutShort => Closing /\ down = <<>>
      BY <2>1 DEF Course, Gone, Closing
    <2>3. Sockets'
      BY <1>1, <2>1, <2>2 DEF Sockets
    <2>4. Counted'
      BY <1>1, <1>5, <2>1, <2>2 DEF Counted, Gone
    <2>5. Course'
      BY <1>1, <2>1, <2>2 DEF Course, Gone, Closing
    <2> QED BY <2>3, <2>4, <2>5
  <1> QED
    BY <1>6, <1>7, <1>8, <1>9, <1>10, <1>11, <1>12, <1>13, <1>14, <1>15 DEF ClientStep

\* A path that has once had a fault has had one for good.
LEMMA FaultsStay ==
  ASSUME [Next]_vars, ~faulted' PROVE ~faulted
  BY DEF Next, ClientStep, Greet, Greeted, Request, Requested, ReceiveChunk, Push, Pushed,
     SayClose, Leave, ClientSendFails, ClientReceiveFails, ClientLeaves, Stop, ServerStep,
     Receive, Reply, Stream, Accept, Collect, Confirm, ServerSendFails, ServerReceiveFails,
     End, Silence, Resume, Break, path, vars

\* No step of a path without faults leads off the course.
LEMMA ClearStep == ASSUME Inv, Clear, [Next]_vars PROVE Clear'
  <1> SUFFICES ASSUME ~faulted' PROVE Sockets' /\ Course' /\ Counted'
    BY DEF Clear
  <1>1. Sockets /\ Course /\ Counted
    BY FaultsStay DEF Clear
  <1>2. CASE ClientStep
    BY <1>1, <1>2, InvStep, ClientKeeps
  <1>3. CASE ServerStep
    BY <1>1, <1>3, ServerKeeps, ServerCloses DEF Inv
  <1>4. CASE Stop
    <2>1. /\ UNCHANGED <<activity, chunk, client, server, result, errors, due, up, down,
                         c_socket, s_socket,
                         relaying, c_sent, c_received, s_sent, s_received>>
          /\ stoped' /\ ~stoped /\ First' = First /\ (Gone' <=> Gone) /\ client # "done"
      BY <1>4 DEF Stop, local, handler, path, First, Gone
    <2>2. Sockets'
      BY <1>1, <2>1 DEF Sockets
    <2>3. Counted'
      BY <1>1, <2>1 DEF Counted, CutShort
    <2>4. Closing => Closing'
      BY <2>1 DEF Closing
    <2>5. Streaming => Streaming'
      BY <2>1 DEF Streaming
    <2>6. Course'
      BY <1>1, <2>1, <2>4, <2>5 DEF Course, Idle, Answering, CutShort, Chunk
    <2> QED BY <2>2, <2>3, <2>6
  <1>5. CASE Silence \/ Resume \/ Break
    BY <1>1, <1>5 DEF Silence, Resume, Break, Sockets
  <1>6. CASE UNCHANGED vars
    <2>1. /\ UNCHANGED <<activity, chunk, client, server, result, errors, due, up, down,
                         c_socket, s_socket,
                         relaying, c_sent, c_received, s_sent, s_received, stoped>>
          /\ First' = First /\ (Gone' <=> Gone)
      BY <1>6 DEF vars, local, handler, path, First, Gone
    <2>2. Sockets'
      BY <1>1, <2>1 DEF Sockets, CutShort
    <2>3. Counted'
      BY <1>1, <2>1 DEF Counted, CutShort
    <2>4. (Closing' <=> Closing) /\ (Streaming' <=> Streaming)
      BY <2>1 DEF Closing, Streaming
    <2>6. Course'
      BY <1>1, <2>1, <2>4 DEF Course, Idle, Answering, CutShort, Chunk
    <2> QED BY <2>2, <2>3, <2>6
  <1> QED
    BY <1>2, <1>3, <1>4, <1>5, <1>6 DEF Next

\* Without a fault of the path no activity fails, and the server books an error
\* only for a stopped download: the two protocol loops never disagree about whose
\* turn it is.
THEOREM ExchangesAlwaysClean == Spec => []CleanExchange
  <1>1. Clear => CleanExchange
    <2> SUFFICES ASSUME Clear, ~faulted
                 PROVE  result # "err" /\ (errors > 0 => CutShort)
      BY DEF CleanExchange, CutShort
    <2>1. result # "err"
      BY DEF Clear, Sockets
    <2>2. errors = 0 \/ CutShort
      BY DEF Clear, Course, Closing
    <2> QED BY <2>1, <2>2
  <1> QED
    BY <1>1, InvInit, InvStep, ClearInit, ClearStep, PTL DEF Spec

-----------------------------------------------------------------------------
(* Packets over any path.                                                  *)

Msgs == [type : {"TlsHandshake", "HttpRequest", "HttpResponse", "FileDownloadRequest",
                 "FileDownloadChunk", "FileUploadRequest", "FileUploadChunk",
                 "ConnectionClose"},
         size : Nat]

\* The client has sent its ConnectionClose.
Farewell == client = "leave" \/ result = "ok"

\* What an end has received or may still receive, the other has sent.
Booked ==
    /\ up \in Seq(Msgs) /\ down \in Seq(Msgs)
    /\ c_sent \in Nat /\ c_received \in Nat /\ s_sent \in Nat /\ s_received \in Nat
    /\ c_received + Len(down) <= s_sent
    /\ s_received + Len(up) <= c_sent + (IF Farewell THEN 1 ELSE 0)

\* Taking a message shortens a queue, and adding one lengthens it.
LEMMA Queues ==
  ASSUME NEW S, NEW q \in Seq(S)
  PROVE  /\ Len(q) \in Nat
         /\ \A m \in S : Append(q, m) \in Seq(S) /\ Len(Append(q, m)) = Len(q) + 1
         /\ q # <<>> => Tail(q) \in Seq(S) /\ Len(Tail(q)) = Len(q) - 1
         /\ <<>> \in Seq(S) /\ Len(<<>>) = 0
  OBVIOUS

\* A queue that is as it was, or lost, is no longer than before.
LEMMA Shorter ==
  ASSUME NEW S, NEW q \in Seq(S), NEW r, r \in {q, <<>>}
  PROVE  r \in Seq(S) /\ Len(r) \in Nat /\ Len(r) <= Len(q)
  <1>1. CASE r = q
    BY <1>1
  <1>2. CASE r = <<>>
    BY <1>2
  <1> QED BY <1>1, <1>2

LEMMA BookedClient == ASSUME Places, Booked, ClientStep PROVE Booked'
  <1>1. ASSUME NEW m \in Msgs, ClientSends(m)
        PROVE  /\ up' \in Seq(Msgs) /\ Len(up') <= Len(up) + 1
               /\ down' \in Seq(Msgs) /\ Len(down') <= Len(down)
    <2>1. up \in Seq(Msgs) /\ down \in Seq(Msgs)
      BY DEF Booked
    <2>2. up' = Append(up, m) \/ up' = up
      BY <1>1 DEF ClientSends
    <2>3. down' \in {down, <<>>}
      BY <1>1 DEF ClientSends
    <2>4. down' \in Seq(Msgs) /\ Len(down') <= Len(down)
      BY <2>1, <2>3, Shorter
    <2>5. up' \in Seq(Msgs) /\ Len(up') <= Len(up) + 1
      BY <2>1, <2>2
    <2> QED BY <2>4, <2>5
  <1>2. ASSUME NEW m, ClientReceives(m)
        PROVE  /\ down' \in Seq(Msgs) /\ Len(down') = Len(down) - 1
               /\ c_received' = c_received + 1
    BY <1>2, Queues DEF ClientReceives, Booked
  <1>3. ASSUME NEW r, ClientLeaves(r)
        PROVE  /\ up' \in Seq(Msgs) /\ Len(up') <= Len(up)
               /\ down' \in Seq(Msgs) /\ Len(down') = 0
    <2>1. up \in Seq(Msgs)
      BY DEF Booked
    <2>2. up' \in {up, <<>>}
      BY <1>3 DEF ClientLeaves
    <2>3. up' \in Seq(Msgs) /\ Len(up') <= Len(up)
      BY <2>1, <2>2, Shorter
    <2>4. down' = <<>>
      BY <1>3 DEF ClientLeaves
    <2> QED BY <2>3, <2>4
  <1>4. CASE Greet
    <2>1. First \in Msgs
      BY FirstIs DEF Places, Msg, Msgs
    <2> QED BY <1>4, <1>1, <2>1, Queues DEF Greet, Client, Booked, Farewell, handler
  <1>5. CASE Greeted \/ Requested \/ Pushed \/ ReceiveChunk
    BY <1>5, <1>2, Queues
    DEF Greeted, Requested, Pushed, ReceiveChunk, Client, Booked, Farewell, handler
  <1>6. CASE Request
    BY <1>6, <1>1, Queues DEF Request, Client, Booked, Farewell, handler, Msg, Msgs
  <1>7. CASE Push
    <2>1. PICK n \in 1..Least(MaxChunk, FileSize - moved) :
             ClientSends(Chunk("FileUploadChunk", n))
      BY <1>7 DEF Push
    <2>2. Chunk("FileUploadChunk", n) \in Msgs
      BY DEF Chunk, Msgs
    <2> QED BY <1>7, <1>1, <2>1, <2>2, Queues DEF Push, Client, Booked, Farewell, handler
  <1>8. CASE SayClose
    <2>1. Msg("ConnectionClose") \in Msgs
      BY DEF Msg, Msgs
    <2>2. /\ up' \in Seq(Msgs) /\ Len(up') <= Len(up) + 1
          /\ down' \in Seq(Msgs) /\ Len(down') <= Len(down)
      BY <1>8, <1>1, <2>1 DEF SayClose
    <2>3. ~Farewell => Len(up') + s_received <= c_sent + 1
      BY <2>2, Queues DEF Booked
    <2>4. ~Farewell /\ Farewell'
      BY <1>8 DEF SayClose, Client, Farewell, Places, local
    <2> QED BY <1>8, <2>2, <2>3, <2>4, Queues DEF SayClose, Booked, local, handler
  <1>9. CASE Leave
    BY <1>9, <1>3, Queues DEF Leave, ClientLeaves, Booked, Farewell, handler
  <1>10. CASE ClientSendFails \/ ClientReceiveFails
    BY <1>10, <1>3, Queues
    DEF ClientSendFails, ClientReceiveFails, ClientLeaves, Booked, Farewell, handler, Places
  <1> QED
    BY <1>4, <1>5, <1>6, <1>7, <1>8, <1>9, <1>10 DEF ClientStep

LEMMA BookedServer == ASSUME Booked, ServerStep PROVE Booked'
  <1>1. ASSUME NEW m \in Msgs, ServerSends(m)
        PROVE  /\ down' \in Seq(Msgs) /\ Len(down') <= Len(down) + 1
               /\ up' \in Seq(Msgs) /\ Len(up') <= Len(up) /\ s_sent' = s_sent + 1
    <2>1. up \in Seq(Msgs) /\ down \in Seq(Msgs)
      BY DEF Booked
    <2>2. down' = Append(down, m) \/ down' = down
      BY <1>1 DEF ServerSends
    <2>3. up' \in {up, <<>>}
      BY <1>1 DEF ServerSends
    <2>4. up' \in Seq(Msgs) /\ Len(up') <= Len(up)
      BY <2>1, <2>3, Shorter
    <2>5. down' \in Seq(Msgs) /\ Len(down') <= Len(down) + 1
      BY <2>1, <2>2
    <2> QED BY <1>1, <2>4, <2>5 DEF ServerSends
  <1>2. ASSUME ServerReceives
        PROVE  up' \in Seq(Msgs) /\ Len(up') = Len(up) - 1
    BY <1>2, Queues DEF ServerReceives, Booked
  <1>3. CASE Receive
    BY <1>3, <1>2, Queues DEF Receive, Booked, Farewell, local
  <1>4. CASE Reply \/ Accept \/ Confirm
    <2>1. Msg("HttpResponse") \in Msgs
      BY DEF Msg, Msgs
    <2>2. ServerSends(Msg("HttpResponse")) /\ UNCHANGED <<local, client, s_received>>
      BY <1>4 DEF Reply, Accept, Confirm
    <2> QED
      BY <1>1, <2>1, <2>2, Queues DEF Booked, Farewell, local
  <1>5. CASE Stream
    <2>1. PICK n \in 1..Least(MaxChunk, due) :
             ServerSends(Chunk("FileDownloadChunk", n))
      BY <1>5 DEF Stream
    <2>2. Chunk("FileDownloadChunk", n) \in Msgs
      BY DEF Chunk, Msgs
    <2> QED BY <1>5, <1>1, <2>1, <2>2, Queues DEF Stream, Booked, Farewell, local
  <1>6. CASE Collect
    BY <1>6, <1>2, Queues DEF Collect, Booked, Farewell, local
  <1>7. CASE ServerSendFails \/ ServerReceiveFails
    BY <1>7 DEF ServerSendFails, ServerReceiveFails, Booked, Farewell, local
  <1>8. CASE End
    <2>1. up \in Seq(Msgs) /\ down \in Seq(Msgs)
      BY DEF Booked
    <2>2. up' = <<>> /\ down' \in {down, <<>>}
      BY <1>8 DEF End
    <2>3. down' \in Seq(Msgs) /\ Len(down') <= Len(down)
      BY <2>1, <2>2, Shorter
    <2>4. up' \in Seq(Msgs) /\ Len(up') <= Len(up)
      BY <2>1, <2>2, Shorter
    <2> QED
      BY <1>8, <2>1, <2>3, <2>4, Queues DEF End, Booked, Farewell, local, handler
  <1> QED
    BY <1>3, <1>4, <1>5, <1>6, <1>7, <1>8 DEF ServerStep

LEMMA BookedStep == ASSUME Places, Booked, [Next]_vars PROVE Booked'
  <1>1. CASE Silence \/ Resume \/ Stop
    BY <1>1 DEF Silence, Resume, Stop, Booked, Farewell, local, handler
  <1>2. CASE Break
    BY <1>2, Queues DEF Break, Booked, Farewell, local, handler
  <1>3. CASE UNCHANGED vars
    BY <1>3 DEF vars, Booked, Farewell, local, handler
  <1> QED
    BY <1>1, <1>2, <1>3, BookedClient, BookedServer DEF Next

\* Once both ends are done, neither has counted a packet the other has not, and
\* without a fault of the path their counts agree.
THEOREM PacketsAlwaysAgree == Spec => []PacketsAgree
  <1>1. Clear /\ client = "done" /\ server = "done" => NoneLost
    <2> SUFFICES ASSUME Clear, ~faulted, client = "done", server = "done", ~CutShort
                 PROVE  /\ c_received = s_sent
                        /\ \/ s_received = c_sent + 1
                           \/ activity = "upload" /\ stoped /\ s_received = c_sent
      BY DEF NoneLost, CutShort
    <2>1. Closing /\ Counted /\ Gone
      BY DEF Clear, Course, Gone
    <2>2. up = <<>> /\ down = <<>>
      BY <2>1 DEF Closing
    <2> QED
      BY <2>1, <2>2, Singles DEF Counted
  <1>2. Booked /\ client = "done" => NoneInvented
    BY Queues DEF Booked, Farewell, NoneInvented
  <1>3. Init => Booked
    BY Queues DEF Init, Booked, Farewell
  <1>4. Clear /\ Booked => PacketsAgree
    BY <1>1, <1>2 DEF PacketsAgree
  <1>5. Inv => Places
    BY DEF Inv
  <1> QED
    BY <1>3, <1>4, <1>5, InvInit, InvStep, ClearInit, ClearStep, BookedStep, PTL DEF Spec
=============================================================================
