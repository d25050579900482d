------------------------------- MODULE Server --------------------------------
(***************************************************************************)
(* The server process (cmd/server/main.go): the TCP server, the HTTP API   *)
(* with the cluster manager behind it, and the shutdown that ends them in  *)
(* order, the engine last.                                                 *)
(***************************************************************************)
EXTENDS TcpServer, ClusterManager

VARIABLES
    main,       \* where main() is: see MainStates
    engine,     \* "open" or "closed"
    timedOut,   \* history: Shutdown gave up waiting for the handlers
    late        \* history: calls made to the engine after its Close

mainVars == <<main, engine, timedOut, late>>
vars == <<tcpVars, busVars, cmVars, mainVars>>

\* Waiting for the signal; in apiServer.Stop; before each of the three
\* statements of tcpServer.Stop; before eng.Close; the process has exited.
MainStates == {"serving", "api", "tcp close", "tcp listener", "tcp wait", "engine", "done"}

\* The HTTP handlers of the store refuse an empty key where TCP allows one.
ApiRequests(cmds) ==
    {r \in Requests(cmds) : r.cmd = CmdBatchPut \/ \A i \in DOMAIN r.keys : r.keys[i] # <<>>}

\* An HTTP request arrives: Shutdown closes the listeners first.
Request(c) ==
    /\ main = "serving"
    /\ \E op \in Ops : \E arg \in Args(op) : Begin(c, op, arg)
    /\ UNCHANGED <<tcpVars, mainVars>>

\* handleClusterEvents is called.
OpenStream(s) ==
    /\ main = "serving"
    /\ Subscribe(s)
    /\ UNCHANGED <<cmVars, tcpVars, mainVars>>

\* The engine call of handlePut, handleGet, handleDelete, handleBatch or
\* handleRange, or of a benchmark that found no cluster.
LocalCall(c) ==
    /\ call[c].pc = "local"
    /\ \E r \in ApiRequests(Cmds) : store' = Effect(store, r) /\ content' = Effect(content, r)
    /\ late' = IF engine = "closed" THEN late \cup {"api"} ELSE late
    /\ AfterUse(c)
    /\ UNCHANGED <<mu, running, nodes, stopped, closing, gen, node, leaders, loop,
                   ticks, calls, panics>>
    /\ UNCHANGED <<closeCh, listener, acceptor, conn, inbox, outbox, reply, client,
                   requests, truth>>
    /\ UNCHANGED <<main, engine, timedOut>>

\* A step of the TCP server.
Tcp(A) == A /\ UNCHANGED <<busVars, cmVars, mainVars>>

\* The handler of a TCP request calls the engine.
TcpCall(c) ==
    /\ HandleRequest(c)
    /\ late' = IF engine = "closed" THEN late \cup {"tcp"} ELSE late
    /\ UNCHANGED <<busVars, cmVars, main, engine, timedOut>>

------------------------------------------------------------------------------
(* main *)

Signal ==
    /\ main = "serving"
    /\ main' = "api"
    /\ UNCHANGED <<tcpVars, busVars, cmVars, engine, timedOut, late>>

HandlersIdle == clients = {} /\ \A c \in Callers : call[c].pc = "idle"

\* apiServer.Stop returns when no handler is left, or after five seconds.
ApiStopped ==
    /\ main = "api"
    /\ main' = "tcp close"
    /\ timedOut' = ~HandlersIdle
    /\ UNCHANGED <<tcpVars, busVars, cmVars, engine, late>>

TcpStopBegins ==
    /\ main = "tcp close"
    /\ main' = "tcp listener"
    /\ CloseCloseCh
    /\ UNCHANGED <<store, listener, acceptor, conn, inbox, outbox, reply, client,
                   requests, content, truth, busVars, cmVars, engine, timedOut, late>>

TcpListenerCloses ==
    /\ main = "tcp listener"
    /\ main' = "tcp wait"
    /\ CloseListener
    /\ UNCHANGED <<store, closeCh, acceptor, inbox, outbox, reply, client, requests,
                   content, truth, busVars, cmVars, engine, timedOut, late>>

TcpStopped ==
    /\ main = "tcp wait" /\ WaitGroupDone
    /\ main' = "engine"
    /\ UNCHANGED <<tcpVars, busVars, cmVars, engine, timedOut, late>>

EngineCloses ==
    /\ main = "engine" /\ engine = "open"
    /\ engine' = "closed"
    /\ UNCHANGED <<tcpVars, busVars, cmVars, main, timedOut, late>>

Exit ==
    /\ main = "engine" /\ engine = "closed"
    /\ main' = "done"
    /\ UNCHANGED <<tcpVars, busVars, cmVars, engine, timedOut, late>>

MainStep ==
    \/ ApiStopped \/ TcpStopBegins \/ TcpListenerCloses \/ TcpStopped
    \/ EngineCloses \/ Exit

------------------------------------------------------------------------------
Init ==
    /\ TcpInit /\ CmInit
    /\ main = "serving" /\ engine = "open" /\ timedOut = FALSE /\ late = {}

\* A step of the cluster manager or the event bus.
Cluster(A) == A /\ UNCHANGED <<tcpVars, mainVars>>

\* When main returns, the process and all its goroutines are gone.
Next ==
    /\ main # "done"
    /\ \/ Tcp(TcpNext)
       \/ \E c \in Clients : TcpCall(c)
       \/ Cluster(CmNext)
       \/ \E c \in Callers : Request(c) \/ LocalCall(c)
       \/ \E s \in Subscribers : OpenStream(s)
       \/ Signal \/ MainStep

\* What the goroutines of the process do without being asked again: a Publish
\* never blocks, findLeader and Shutdown give up in the end, select sees a closed
\* channel.  What users and clients do, the ticker and the elections are no part
\* of it.
Progress ==
    /\ main # "done"
    /\ \/ MainStep
       \/ Tcp(AcceptFails)
       \/ \E c \in Clients : Tcp(Accept(c) \/ HandlerStep(c))
       \/ \E c \in Callers : LocalCall(c) \/ Cluster(CallStep(c))
       \/ Cluster(LoopStep \/ LoopExit)
       \/ \E p \in Publishers : Cluster(Sends(p))

\* The scheduler does not stop while a goroutine can go on.  That it also runs
\* each of them in the end is not needed: every such step brings its goroutine
\* closer to its end.
Fairness ==
    /\ WF_vars(Progress)
    /\ \A c \in Clients : WF_conn(main # "done" /\ Handles(c))

Spec == Init /\ [][Next]_vars /\ Fairness

------------------------------------------------------------------------------
(* Properties *)

\* The states the variables range over.
TypeOK ==
    /\ store \in [Keys -> Values \cup {NotFound}]
    /\ closeCh \in BOOLEAN /\ listener \in {"open", "closed"}
    /\ acceptor \in {"accept", "done"}
    /\ conn \in [Clients -> ConnStates]
    /\ requests \in 0 .. MaxRequests
    /\ \A c \in Clients : client[c].pc \in {"off", "idle", "waiting", "closed"}
    /\ mu \in Callers \cup {"free"}
    /\ running \in BOOLEAN /\ nodes \in 0 .. gen /\ gen \in 0 .. MaxStarts
    /\ stopped \subseteq Ids /\ closing \in BOOLEAN
    /\ node \in [Gens -> [Ids -> NodeStates]]
    /\ leaders \subseteq Gens \X Ids
    /\ loop \in LoopStates
    /\ clients \subseteq Subscribers /\ publishing \subseteq Publishers
    /\ main \in MainStates /\ engine \in {"open", "closed"}

\* Encoding, framing and decoding on both sides change nothing: the engine holds
\* what the clients asked for, and a client returns what the engine answered
\* when it handled the request (protocol.go, tcp.go:121-196, client.go:43-163).
AnswersTrue ==
    /\ store = content
    /\ \A c \in Clients : client[c].res \notin {NoAnswer, Broken} => client[c].res = truth[c]

\* A client that is told its connection failed knows the request was not carried
\* out: the server never closes a connection between reading a request and
\* answering it, during Stop included (tcp.go:52-58, 85-118).
BrokenMeansNotDone ==
    \A c \in Clients : client[c].res = Broken => truth[c] = NoAnswer

\* The engine is closed last: no TCP handler calls it after eng.Close, and no
\* HTTP handler does unless Shutdown gave up waiting (main.go:48-50,
\* tcp.go:52-58, api.go:99-103).
EngineClosedLast ==
    /\ "tcp" \notin late
    /\ "api" \in late => timedOut

\* A client that waits for a response gets one, or sees its connection closed,
\* unless it hangs up or the process exits first (tcp.go:60-119).
RequestsAnswered ==
    \A c \in Clients :
        client[c].pc = "waiting" ~>
            \/ client[c].pc # "waiting" \/ outbox[c] # <<>> \/ conn[c] = "closed"
            \/ main = "done"

\* Every HTTP request on the cluster returns, or the process exits, or Stop and
\* statusLoop wait for each other (cluster.go:193, 499; findLeader gives up
\* after two seconds, a panic releases cm.mu).  Stop of a node is taken to
\* return, which NodeStopReturns is about.
CallsReturn ==
    \A c \in Callers :
        call[c].pc # "idle" ~> (call[c].pc = "idle" \/ StopStuck \/ main = "done")

\* After the signal the process exits, however the cluster manager is stuck,
\* unless a client keeps its connection open without sending anything: the
\* handler waits in ReadFrame and tcpServer.Stop waits for it (main.go:45-50,
\* tcp.go:56).
ShutdownReturns ==
    [](main = "api" =>
        \/ <>(main = "done")
        \/ <>[](\E c \in Clients : conn[c] = "read" /\ client[c].pc # "closed"))

\* "Stop shuts down all nodes and cleans up temporary directories."
\* (cluster.go:183): a Stop that has found the cluster running stops it.
StopShutsDown ==
    \A c \in Callers : call[c].pc = "wait" ~> (~running \/ main = "done")
==============================================================================
