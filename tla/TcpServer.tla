------------------------------ MODULE TcpServer ------------------------------
(***************************************************************************)
(* The TCP server (server/tcp.go) and its client library                   *)
(* (client/client.go).                                                     *)
(*                                                                         *)
(* The goroutines are acceptLoop, one handleConn per connection and the    *)
(* caller of Stop.  A client has one connection and one request            *)
(* outstanding at a time (Client.mu).  The engine is a map: how far it is  *)
(* one is the subject of Engine and KVMap.  Values of no bytes are kept,   *)
(* as the engine does as long as they are in a memtable.                   *)
(***************************************************************************)
EXTENDS Protocol, FiniteSets, FiniteSetsExt

CONSTANTS
    Clients,        \* the clients, each with one connection
    Keys,           \* the keys they use, sequences of bytes
    Values,         \* the values they write, sequences of bytes
    Cmds,           \* the commands they send
    MaxConnects,    \* bound on connections
    MaxRequests     \* bound on requests, all clients together

VARIABLES
    store,      \* the engine's content
    closeCh,    \* s.closeCh is closed
    listener,   \* "open" or "closed"
    acceptor,   \* acceptLoop: "accept" or "done"
    conn,       \* handleConn of a client's connection: see ConnStates
    inbox,      \* bytes sent by the client and not read by the server
    outbox,     \* bytes sent by the server and not read by the client
    reply,      \* the response a handler is about to write
    client,     \* the client: its state, its request and the result it saw
    requests,   \* number of requests sent
    content,    \* history: what the requests served so far amount to
    truth       \* history: the engine's answer to the client's request

tcpVars == <<store, closeCh, listener, acceptor, conn, inbox, outbox, reply,
             client, requests, content, truth>>

\* No connection; waiting to be accepted; at the test of closeCh; in
\* ReadFrame; in a handler; writing the response; closed by the server.
ConnStates == {"none", "backlog", "check", "read", "handle", "respond", "closed"}

Serving == {"check", "read", "handle", "respond"}

CmdPut == 1
CmdGet == 2
CmdDelete == 3
CmdBatchPut == 4
CmdGetRange == 5

StatusOK == 0
StatusNotFound == 1
StatusError == 2

NotFound == <<-1>>      \* no byte string
NoRequest == [cmd |-> 0, keys |-> <<>>, values |-> <<>>]
NoAnswer == [status |-> -1, keys |-> <<>>, values |-> <<>>]
Broken == [status |-> -2, keys |-> <<>>, values |-> <<>>]   \* the connection failed

Requests(cmds) ==
    LET one == [1 .. 1 -> Keys]
        two == [1 .. 2 -> Keys]
        of(cmd, ks, vs) == {[cmd |-> cmd, keys |-> k, values |-> v] : k \in ks, v \in vs}
    IN  {r \in UNION {of(CmdPut, one, [1 .. 1 -> Values]),
                      of(CmdGet, one, {<<>>}), of(CmdDelete, one, {<<>>}),
                      of(CmdBatchPut, two, [1 .. 2 -> Values]),
                      of(CmdGetRange, two, {<<>>})} : r.cmd \in cmds}

------------------------------------------------------------------------------
(* The engine *)

\* bytes.Compare(a, b) <= 0
BytesLE(a, b) ==
    \/ IsPrefix(a, b)
    \/ \E i \in DOMAIN a \cap DOMAIN b :
            a[i] < b[i] /\ \A j \in 1 .. i - 1 : a[j] = b[j]

StorePut(m, keys, values) ==
    [k \in DOMAIN m |->
        LET at == {i \in DOMAIN keys : keys[i] = k}
        IN  IF at = {} THEN m[k] ELSE values[Max(at)]]

StoreRange(m, lo, hi) ==
    SetToSortSeq({k \in DOMAIN m : m[k] # NotFound /\ BytesLE(lo, k) /\ BytesLE(k, hi)},
                 BytesLE)

\* What a request does to the content m and what it answers.
Effect(m, r) ==
    CASE r.cmd \in {CmdPut, CmdBatchPut} -> StorePut(m, r.keys, r.values)
      [] r.cmd = CmdDelete -> StorePut(m, r.keys, <<NotFound>>)
      [] OTHER -> m

Answer(m, r) ==
    CASE r.cmd = CmdGet /\ m[r.keys[1]] = NotFound ->
             [status |-> StatusNotFound, keys |-> <<>>, values |-> <<>>]
      [] r.cmd = CmdGet /\ m[r.keys[1]] # NotFound ->
             [status |-> StatusOK, keys |-> <<>>, values |-> <<m[r.keys[1]]>>]
      [] r.cmd = CmdGetRange ->
             LET ks == StoreRange(m, r.keys[1], r.keys[2])
             IN  [status |-> StatusOK, keys |-> ks, values |-> [i \in DOMAIN ks |-> m[ks[i]]]]
      [] OTHER -> [status |-> StatusOK, keys |-> <<>>, values |-> <<>>]

------------------------------------------------------------------------------
(* The handlers: decode the payload, call the engine, answer *)

Respond(m, status, payload) == [map |-> m, status |-> status, payload |-> payload]

handlePut(p) ==
    LET d == DecodePut(p)
    IN  IF d.ok THEN Respond(StorePut(store, <<d.key>>, <<d.value>>), StatusOK, <<>>)
        ELSE Respond(store, StatusError, <<>>)

handleGet(p) ==
    LET d == DecodeKey(p)
    IN  IF ~d.ok THEN Respond(store, StatusError, <<>>)
        ELSE IF store[d.bytes] = NotFound THEN Respond(store, StatusNotFound, <<>>)
        ELSE Respond(store, StatusOK, EncodeValue(store[d.bytes]))

handleDelete(p) ==
    LET d == DecodeKey(p)
    IN  IF d.ok THEN Respond(StorePut(store, <<d.bytes>>, <<NotFound>>), StatusOK, <<>>)
        ELSE Respond(store, StatusError, <<>>)

handleBatchPut(p) ==
    LET d == DecodeBatchPut(p)
    IN  IF d.ok THEN Respond(StorePut(store, d.keys, d.values), StatusOK, <<>>)
        ELSE Respond(store, StatusError, <<>>)

handleGetRange(p) ==
    LET d  == DecodeRange(p)
        ks == StoreRange(store, d.key, d.value)
    IN  IF ~d.ok THEN Respond(store, StatusError, <<>>)
        ELSE Respond(store, StatusOK, EncodeKVPairs(ks, [i \in DOMAIN ks |-> store[ks[i]]]))

Handle(cmd, p) ==
    CASE cmd = CmdPut -> handlePut(p)
      [] cmd = CmdGet -> handleGet(p)
      [] cmd = CmdDelete -> handleDelete(p)
      [] cmd = CmdBatchPut -> handleBatchPut(p)
      [] cmd = CmdGetRange -> handleGetRange(p)
      [] OTHER -> Respond(store, StatusError, <<>>)

------------------------------------------------------------------------------
(* The client library *)

EncodeRequest(r) ==
    CASE r.cmd = CmdPut -> EncodePut(r.keys[1], r.values[1])
      [] r.cmd \in {CmdGet, CmdDelete} -> EncodeKey(r.keys[1])
      [] r.cmd = CmdBatchPut -> EncodeBatchPut(r.keys, r.values)
      [] r.cmd = CmdGetRange -> EncodeRange(r.keys[1], r.keys[2])

\* What the method called returns for a response: the value of a Get, the pairs
\* of a GetRange, an error for every status but OK.
DecodeAnswer(r, status, p) ==
    CASE status = StatusOK /\ r.cmd = CmdGet ->
             [status |-> status, keys |-> <<>>, values |-> <<DecodeValue(p).bytes>>]
      [] status = StatusOK /\ r.cmd = CmdGetRange ->
             LET d == DecodeKVPairs(p)
             IN  [status |-> status, keys |-> d.keys, values |-> d.values]
      [] OTHER -> [status |-> status, keys |-> <<>>, values |-> <<>>]

Connect(c) ==
    /\ conn[c] = "none"
    /\ Cardinality({d \in Clients : conn[d] # "none"}) < MaxConnects
    /\ listener = "open"
    /\ conn' = [conn EXCEPT ![c] = "backlog"]
    /\ client' = [client EXCEPT ![c].pc = "idle"]
    /\ UNCHANGED <<store, closeCh, listener, acceptor, inbox, outbox, reply,
                   requests, content, truth>>

\* A method of the client up to the end of WriteRequest.
Send(c, r) ==
    /\ client[c].pc = "idle" /\ requests < MaxRequests
    /\ requests' = requests + 1
    /\ inbox' = [inbox EXCEPT ![c] = @ \o WriteRequest(r.cmd, EncodeRequest(r))]
    /\ client' = [client EXCEPT ![c] = [pc |-> "waiting", req |-> r, res |-> NoAnswer]]
    /\ truth' = [truth EXCEPT ![c] = NoAnswer]
    /\ UNCHANGED <<store, closeCh, listener, acceptor, conn, outbox, reply, content>>

\* ReadResponse has a response, or fails because the server closed the
\* connection.
Return(c) ==
    /\ client[c].pc = "waiting"
    /\ \/ /\ outbox[c] # <<>>
          /\ LET f == ReadResponse(outbox[c])
             IN  /\ outbox' = [outbox EXCEPT ![c] = f.rest]
                 /\ client' = [client EXCEPT ![c].pc = "idle",
                                  ![c].res = DecodeAnswer(client[c].req, f.code, f.payload)]
       \/ /\ outbox[c] = <<>> /\ conn[c] = "closed"
          /\ client' = [client EXCEPT ![c].pc = "idle", ![c].res = Broken]
          /\ UNCHANGED outbox
    /\ UNCHANGED <<store, closeCh, listener, acceptor, conn, inbox, reply,
                   requests, content, truth>>

\* Client.Close, which does not take Client.mu: a request may be outstanding.
Hangup(c) ==
    /\ client[c].pc \in {"idle", "waiting"}
    /\ client' = [client EXCEPT ![c].pc = "closed"]
    /\ UNCHANGED <<store, closeCh, listener, acceptor, conn, inbox, outbox, reply,
                   requests, content, truth>>

------------------------------------------------------------------------------
(* acceptLoop and handleConn *)

Accept(c) ==
    /\ acceptor = "accept" /\ listener = "open"
    /\ conn[c] = "backlog"
    /\ conn' = [conn EXCEPT ![c] = "check"]
    /\ UNCHANGED <<store, closeCh, listener, acceptor, inbox, outbox, reply,
                   client, requests, content, truth>>

\* Mutant: the loop tries again without looking at closeCh.
AcceptFailsRetries ==
    /\ acceptor = "accept" /\ listener = "closed" /\ closeCh
    /\ UNCHANGED tcpVars

\* Accept fails: with closeCh closed the loop ends, otherwise it tries again.
AcceptFails ==
    /\ acceptor = "accept" /\ listener = "closed" /\ closeCh
    /\ acceptor' = "done"
    /\ UNCHANGED <<store, closeCh, listener, conn, inbox, outbox, reply,
                   client, requests, content, truth>>

CheckClosed(c) ==
    /\ conn[c] = "check"
    /\ conn' = [conn EXCEPT ![c] = IF closeCh THEN "closed" ELSE "read"]
    /\ UNCHANGED <<store, closeCh, listener, acceptor, inbox, outbox, reply,
                   client, requests, content, truth>>

\* ReadFrame: a whole frame, or an error because the client is gone; a reset by
\* the client may drop what it had sent.
ReadRequest(c) ==
    /\ conn[c] = "read"
    /\ \/ inbox[c] # <<>> /\ conn' = [conn EXCEPT ![c] = "handle"]
       \/ /\ client[c].pc = "closed"
          /\ conn' = [conn EXCEPT ![c] = "closed"]
    /\ UNCHANGED <<store, closeCh, listener, acceptor, inbox, outbox, reply,
                   client, requests, content, truth>>

\* The engine call of the handler.
HandleRequest(c) ==
    /\ conn[c] = "handle"
    /\ LET f == ReadFrame(inbox[c])
           h == Handle(f.code, f.payload)
       IN  /\ inbox' = [inbox EXCEPT ![c] = f.rest]
           /\ store' = h.map
           /\ reply' = [reply EXCEPT ![c] = WriteResponse(h.status, h.payload)]
    /\ content' = Effect(content, client[c].req)
    /\ truth' = [truth EXCEPT ![c] = Answer(content, client[c].req)]
    /\ conn' = [conn EXCEPT ![c] = "respond"]
    /\ UNCHANGED <<closeCh, listener, acceptor, outbox, client, requests>>

\* Mutant: the response stays in the bufio.Writer.
SendResponseUnflushed(c) ==
    /\ conn[c] = "respond"
    /\ reply' = [reply EXCEPT ![c] = <<>>]
    /\ conn' = [conn EXCEPT ![c] = "check"]
    /\ UNCHANGED <<store, closeCh, listener, acceptor, inbox, outbox, client,
                   requests, content, truth>>

\* WriteResponse; its error, if the client is gone, is ignored.
SendResponse(c) ==
    /\ conn[c] = "respond"
    /\ outbox' = [outbox EXCEPT ![c] = @ \o reply[c]]
    /\ reply' = [reply EXCEPT ![c] = <<>>]
    /\ conn' = [conn EXCEPT ![c] = "check"]
    /\ UNCHANGED <<store, closeCh, listener, acceptor, inbox, client, requests,
                   content, truth>>

------------------------------------------------------------------------------
(* Stop, one operator for each of its three statements *)

CloseCloseCh == closeCh' = TRUE

\* Mutant: Stop also closes the connections being served.
CloseListenerAndConns ==
    /\ listener' = "closed"
    /\ conn' = [c \in Clients |-> IF conn[c] # "none" THEN "closed" ELSE "none"]

\* The kernel resets the connections that nobody has accepted.
CloseListener ==
    /\ listener' = "closed"
    /\ conn' = [c \in Clients |-> IF conn[c] = "backlog" THEN "closed" ELSE conn[c]]

\* Mutant: the connections are not counted.
WaitGroupLoopOnly == acceptor = "done"

\* s.wg is zero.
WaitGroupDone == acceptor = "done" /\ \A c \in Clients : conn[c] \notin Serving

TcpInit ==
    /\ store = [k \in Keys |-> NotFound]
    /\ closeCh = FALSE
    /\ listener = "open"
    /\ acceptor = "accept"
    /\ conn = [c \in Clients |-> "none"]
    /\ inbox = [c \in Clients |-> <<>>]
    /\ outbox = [c \in Clients |-> <<>>]
    /\ reply = [c \in Clients |-> <<>>]
    /\ client = [c \in Clients |-> [pc |-> "off", req |-> NoRequest, res |-> NoAnswer]]
    /\ requests = 0
    /\ content = [k \in Keys |-> NotFound]
    /\ truth = [c \in Clients |-> NoAnswer]

\* A step of handleConn other than its engine call.
HandlerStep(c) == CheckClosed(c) \/ ReadRequest(c) \/ SendResponse(c)

\* The control of HandleRequest, for the fairness condition: no other action
\* takes this step.
Handles(c) == conn[c] = "handle" /\ conn' = [conn EXCEPT ![c] = "respond"]

\* Every step but HandleRequest.
TcpNext ==
    \/ AcceptFails
    \/ \E c \in Clients :
        \/ Connect(c) \/ Return(c) \/ Hangup(c)
        \/ \E r \in Requests(Cmds) : Send(c, r)
        \/ Accept(c) \/ HandlerStep(c)
==============================================================================
