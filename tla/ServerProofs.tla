----------------------------- MODULE ServerProofs -----------------------------
(***************************************************************************)
(* Two safety properties of the server process, for all numbers of         *)
(* clients, callers, event streams, nodes and calls: the engine is closed  *)
(* after its last use, and no event is sent on a closed channel.           *)
(***************************************************************************)
EXTENDS Server, TLAPS

------------------------------------------------------------------------------
(* The order of the shutdown *)

\* Once main is past tcpServer.Stop no connection is served and none will be;
\* once it is past apiServer.Stop no handler is left, unless Shutdown gave up.
ShutdownInv ==
    /\ conn \in [Clients -> ConnStates]
    /\ main \in MainStates
    /\ engine = "closed" => main \in {"engine", "done"}
    /\ late # {} => engine = "closed"
    /\ main \in {"engine", "done"} => WaitGroupDone
    /\ main \notin {"serving", "api"} /\ ~timedOut =>
           \A c \in Callers : call[c].pc = "idle"
    /\ EngineClosedLast

LEMMA ShutdownInit == Init => ShutdownInv
BY DEF Init, TcpInit, CmInit, ShutdownInv, ConnStates, MainStates, EngineClosedLast

\* A step of the TCP server other than an engine call.
LEMMA ShutdownTcp == ASSUME ShutdownInv, Tcp(TcpNext) PROVE ShutdownInv'
<1>1. /\ UNCHANGED <<main, engine, timedOut, late, call>>
      BY DEF Tcp, mainVars, cmVars
<1>2. conn' \in [Clients -> ConnStates]
      BY DEF ShutdownInv, Tcp, TcpNext, AcceptFails, Connect, Return, Hangup, Send,
             Accept, HandlerStep, CheckClosed, ReadRequest, SendResponse, ConnStates
<1>3. WaitGroupDone => WaitGroupDone'
      BY ZenonT(60) DEF ShutdownInv, Tcp, TcpNext, AcceptFails, Connect, Return, Hangup, Send,
             Accept, HandlerStep, CheckClosed, ReadRequest, SendResponse, ConnStates,
             WaitGroupDone, Serving
<1>   QED BY <1>1, <1>2, <1>3 DEF ShutdownInv, EngineClosedLast

\* An engine call of a TCP handler: its connection is being served, so main has
\* not passed tcpServer.Stop and the engine is open.
LEMMA ShutdownTcpCall ==
    ASSUME ShutdownInv, NEW c \in Clients, TcpCall(c) PROVE ShutdownInv'
<1>1. conn[c] = "handle" /\ conn' = [conn EXCEPT ![c] = "respond"]
      BY DEF TcpCall, HandleRequest
<1>2. ~WaitGroupDone
      BY <1>1 DEF WaitGroupDone, Serving
<1>3. engine # "closed" /\ main \notin {"engine", "done"}
      BY <1>2 DEF ShutdownInv
<1>4. UNCHANGED <<main, engine, timedOut, late, call>>
      BY <1>3 DEF TcpCall, cmVars
<1>   QED BY <1>1, <1>3, <1>4 DEF ShutdownInv, EngineClosedLast, ConnStates

\* A step that leaves main and the TCP server alone and starts no call keeps the
\* callers idle.
LEMMA ShutdownCluster ==
    ASSUME ShutdownInv, Cluster(CmNext) PROVE ShutdownInv'
<1>1. UNCHANGED <<main, engine, timedOut, late, conn, acceptor>>
      BY DEF Cluster, mainVars, tcpVars
<1>2. ASSUME \A c \in Callers : call[c].pc = "idle"
      PROVE  UNCHANGED call
      BY <1>2 DEF Cluster, CmNext, CallStep, Start, StopBegin, StopEnd, StopNode,
         Published, Enter, BenchEngine, Announced, Poll, Relock, Use, LoopTick,
         LoopExit, LoopStep, LoopRates, LoopStatus, LoopPublished, Elect, StepDown,
         Sends, Streams, cmVars
<1>   QED BY <1>1, <1>2 DEF ShutdownInv, EngineClosedLast, WaitGroupDone

\* An engine call of an HTTP handler: with the engine closed a handler is left
\* only if Shutdown gave up.
LEMMA ShutdownLocalCall ==
    ASSUME ShutdownInv, NEW c \in Callers, LocalCall(c) PROVE ShutdownInv'
<1>1. call[c].pc = "local" /\ UNCHANGED <<main, engine, timedOut, conn, acceptor>>
      BY DEF LocalCall
<1>2. main \notin {"serving", "api"} => timedOut
      BY <1>1 DEF ShutdownInv, MainStates
<1>3. engine = "closed" => timedOut
      BY <1>2 DEF ShutdownInv
<1>4. late' = IF engine = "closed" THEN late \cup {"api"} ELSE late
      BY DEF LocalCall
<1>5. EngineClosedLast'
      BY <1>1, <1>3, <1>4 DEF ShutdownInv, EngineClosedLast
<1>   QED BY <1>1, <1>2, <1>4, <1>5 DEF ShutdownInv, WaitGroupDone

\* A new request or stream, while main is serving.
LEMMA ShutdownArrival ==
    ASSUME ShutdownInv,
           \/ \E c \in Callers : Request(c)
           \/ \E s \in Subscribers : OpenStream(s)
    PROVE  ShutdownInv'
<1>1. main = "serving" /\ UNCHANGED <<main, engine, timedOut, late, conn, acceptor>>
      BY DEF Request, OpenStream, mainVars, tcpVars
<1>   QED BY <1>1 DEF ShutdownInv, EngineClosedLast, WaitGroupDone

\* The steps of main.
LEMMA ShutdownMain == ASSUME ShutdownInv, Signal \/ MainStep PROVE ShutdownInv'
<1>1. CASE Signal
      BY <1>1 DEF Signal, ShutdownInv, MainStates, EngineClosedLast, WaitGroupDone,
                  tcpVars, cmVars
<1>2. CASE ApiStopped
  <2>1. late = {} /\ UNCHANGED <<late, engine, conn, acceptor, call>>
        BY <1>2 DEF ApiStopped, ShutdownInv, tcpVars, cmVars
  <2>2. main' = "tcp close" /\ engine # "closed"
        BY <1>2 DEF ApiStopped, ShutdownInv
  <2>3. ~timedOut' => \A c \in Callers : call[c].pc = "idle"
        BY <1>2 DEF ApiStopped, HandlersIdle
  <2>   QED BY <2>1, <2>2, <2>3 DEF ShutdownInv, MainStates, EngineClosedLast
<1>3. CASE TcpStopBegins
      BY <1>3 DEF TcpStopBegins, ShutdownInv, MainStates, EngineClosedLast,
                  WaitGroupDone, cmVars
<1>4. CASE TcpListenerCloses
      BY <1>4 DEF TcpListenerCloses, CloseListener, ShutdownInv, MainStates,
                  ConnStates, EngineClosedLast, WaitGroupDone, cmVars
<1>5. CASE TcpStopped
      BY <1>5 DEF TcpStopped, ShutdownInv, MainStates, EngineClosedLast,
                  WaitGroupDone, tcpVars, cmVars
<1>6. CASE EngineCloses
      BY <1>6 DEF EngineCloses, ShutdownInv, MainStates, EngineClosedLast,
                  WaitGroupDone, tcpVars, cmVars
<1>7. CASE Exit
      BY <1>7 DEF Exit, ShutdownInv, MainStates, EngineClosedLast,
                  WaitGroupDone, tcpVars, cmVars
<1>   QED BY <1>1, <1>2, <1>3, <1>4, <1>5, <1>6, <1>7 DEF MainStep

LEMMA ShutdownStep == ShutdownInv /\ [Next]_vars => ShutdownInv'
<1>   SUFFICES ASSUME ShutdownInv, [Next]_vars PROVE ShutdownInv'
      OBVIOUS
<1>1. CASE UNCHANGED vars
      BY <1>1 DEF vars, tcpVars, cmVars, mainVars, ShutdownInv, EngineClosedLast,
                  WaitGroupDone
<1>2. CASE Next
      BY <1>2, ShutdownTcp, ShutdownTcpCall, ShutdownCluster, ShutdownLocalCall,
         ShutdownArrival, ShutdownMain DEF Next
<1>   QED BY <1>1, <1>2

\* The engine is closed last: no TCP handler calls it after eng.Close, and no
\* HTTP handler does unless Shutdown gave up waiting (main.go:48-50).
THEOREM ClosedLast == Spec => []EngineClosedLast
<1>1. ShutdownInv => EngineClosedLast
      BY DEF ShutdownInv
<1>   QED BY <1>1, ShutdownInit, ShutdownStep, PTL DEF Spec

------------------------------------------------------------------------------
(* The event bus *)

IsSeq(q) == \E S : q \in Seq(S)

\* A Publish serves channels that are subscribed.  A stream that was never
\* opened (received = -1) has been sent nothing.
BusInv ==
    /\ clients \subseteq Subscribers
    /\ publishing \subseteq Publishers
    /\ todo \in [Publishers -> SUBSET Subscribers]
    /\ \A p \in publishing : todo[p] \subseteq clients
    /\ DOMAIN sent = Subscribers /\ sent = [s \in Subscribers |-> sent[s]]
    /\ received \in [Subscribers -> Nat \cup {-1}]
    /\ \A s \in Subscribers :
          /\ IsSeq(sent[s])
          /\ received[s] = -1 => s \notin clients /\ sent[s] = <<>>
          /\ Backlog(s) <= ChanCap

\* The steps a goroutine can take on the bus.
BusStep ==
    \/ \E s \in Subscribers : Subscribe(s) \/ Receive(s) \/ Unsubscribe(s)
    \/ \E p \in Publishers : PublishSend(p) \/ PublishEnd(p) \/ \E e : PublishBegin(p, e)

LEMMA AppendLen ==
    ASSUME NEW q, IsSeq(q), NEW e
    PROVE  IsSeq(Append(q, e)) /\ Len(Append(q, e)) = Len(q) + 1 /\ Len(q) \in Nat
<1>1. PICK S : q \in Seq(S)
      BY DEF IsSeq
<1>2. q \in Seq(S \cup {e})
      BY <1>1
<1>3. Append(q, e) \in Seq(S \cup {e})
      BY <1>2
<1>   QED BY <1>2, <1>3 DEF IsSeq

LEMMA BusInitInv == BusInit => BusInv
<1>   SUFFICES ASSUME BusInit PROVE BusInv
      OBVIOUS
<1>1. IsSeq(<<>>)
  <2>1. <<>> \in Seq({})
        OBVIOUS
  <2>   QED BY <2>1 DEF IsSeq
<1>   QED BY <1>1, ChanCapAssumption DEF BusInit, BusInv, Backlog

\* Subscribe, Receive and Unsubscribe.
LEMMA BusStream ==
    ASSUME BusInv, NEW s \in Subscribers, Subscribe(s) \/ Receive(s) \/ Unsubscribe(s)
    PROVE  BusInv'
<1>0. \A t \in Subscribers : Len(sent[t]) \in Nat
      BY AppendLen DEF BusInv
<1>1. CASE Subscribe(s)
      BY <1>0, <1>1, ChanCapAssumption DEF Subscribe, BusInv, Backlog
<1>2. CASE Receive(s)
      BY <1>0, <1>2, ChanCapAssumption DEF Receive, BusInv, Backlog
<1>3. CASE Unsubscribe(s)
      BY <1>3 DEF Unsubscribe, BusInv, Backlog
<1>   QED BY <1>1, <1>2, <1>3

\* One send, to a channel that is open: the message is dropped if it is full.
LEMMA BusSend ==
    ASSUME BusInv, NEW p \in Publishers, PublishSend(p)
    PROVE  BusInv'
<1>1. PICK s \in todo[p] :
          /\ p \in publishing
          /\ todo' = [todo EXCEPT ![p] = @ \ {s}]
          /\ sent' = IF Backlog(s) < ChanCap
                     THEN [sent EXCEPT ![s] = Append(@, event[p])] ELSE sent
          /\ UNCHANGED <<clients, received, publishing, event>>
      BY DEF PublishSend
<1>2. s \in Subscribers /\ s \in clients /\ received[s] # -1
      BY <1>1 DEF BusInv
<1>3. CASE Backlog(s) < ChanCap
  <2>1. sent' = [sent EXCEPT ![s] = Append(sent[s], event[p])]
        BY <1>1, <1>3
  <2>2. IsSeq(sent[s])
        BY <1>2 DEF BusInv
  <2>3. /\ IsSeq(Append(sent[s], event[p])) /\ Len(sent[s]) \in Nat
        /\ Len(Append(sent[s], event[p])) = Len(sent[s]) + 1
        BY <2>2, AppendLen
  <2>4. \A t \in Subscribers :
            sent'[t] = IF t = s THEN Append(sent[s], event[p]) ELSE sent[t]
        BY <2>1 DEF BusInv
  <2>5. Backlog(s)' <= ChanCap
        BY <1>1, <1>2, <1>3, <2>3, <2>4, ChanCapAssumption DEF BusInv, Backlog
  <2>6. \A t \in Subscribers :
            /\ IsSeq(sent'[t])
            /\ received'[t] = -1 => t \notin clients' /\ sent'[t] = <<>>
            /\ Backlog(t)' <= ChanCap
        BY <1>1, <1>2, <2>3, <2>4, <2>5 DEF BusInv, Backlog
  <2>7. DOMAIN sent' = Subscribers /\ sent' = [t \in Subscribers |-> sent'[t]]
        BY <2>1 DEF BusInv
  <2>   QED BY <1>1, <2>6, <2>7 DEF BusInv
<1>4. CASE ~(Backlog(s) < ChanCap)
      BY <1>1, <1>2, <1>4 DEF BusInv, Backlog
<1>   QED BY <1>3, <1>4

\* Publish takes and releases eb.mu.
LEMMA BusPublish ==
    ASSUME BusInv, NEW p \in Publishers,
           PublishEnd(p) \/ \E e : PublishBegin(p, e)
    PROVE  BusInv'
<1>1. CASE PublishEnd(p)
      BY <1>1 DEF PublishEnd, BusInv, Backlog
<1>2. CASE \E e : PublishBegin(p, e)
      BY <1>2 DEF PublishBegin, BusInv, Backlog
<1>   QED BY <1>1, <1>2

LEMMA BusStepInv == ASSUME BusInv, BusStep \/ UNCHANGED busVars PROVE BusInv'
<1>1. CASE BusStep
      BY <1>1, BusStream, BusSend, BusPublish DEF BusStep
<1>2. CASE UNCHANGED busVars
      BY <1>2 DEF busVars, BusInv, Backlog
<1>   QED BY <1>1, <1>2

\* A handler of the cluster manager uses the bus only through Publish.
LEMMA CallOnBus ==
    ASSUME NEW c \in Callers, CallStep(c) PROVE BusStep \/ UNCHANGED busVars
<1>1. c \in Publishers
      BY PublishersAssumption
<1>2. CASE Start(c)
      BY <1>1, <1>2 DEF Start, BusStep
<1>3. CASE StopBegin(c) \/ BenchEngine(c) \/ Poll(c) \/ Relock(c)
      BY <1>3 DEF StopBegin, BenchEngine, Poll, Relock
<1>4. CASE StopEnd(c)
      BY <1>1, <1>4 DEF StopEnd, BusStep
<1>5. CASE StopNode(c)
      BY <1>1, <1>5 DEF StopNode, BusStep
<1>6. CASE Published(c) \/ Announced(c)
      BY <1>1, <1>6 DEF Published, Announced, BusStep
<1>7. CASE Enter(c) \/ Use(c)
      BY <1>1, <1>7 DEF Enter, Use, AfterUse, Announce, BusStep
<1>   QED BY <1>2, <1>3, <1>4, <1>5, <1>6, <1>7 DEF CallStep

LEMMA ClusterOnBus == ASSUME CmNext PROVE BusStep \/ UNCHANGED busVars
<1>1. "loop" \in Publishers
      BY PublishersAssumption
<1>2. CASE \E c \in Callers : CallStep(c)
      BY <1>2, CallOnBus
<1>3. CASE LoopTick \/ LoopExit \/ LoopRates \/ \E i \in Ids : Elect(i) \/ StepDown(i)
      BY <1>3 DEF LoopTick, LoopExit, LoopRates, Elect, StepDown
<1>4. CASE LoopStatus \/ LoopPublished
      BY <1>1, <1>4 DEF LoopStatus, LoopPublished, BusStep
<1>5. CASE \E p \in Publishers : Sends(p)
      BY <1>5 DEF Sends, BusStep
<1>6. CASE Streams
      BY <1>6 DEF Streams, BusStep
<1>   QED BY <1>2, <1>3, <1>4, <1>5, <1>6 DEF CmNext, LoopStep

\* Every step of the process is a step on the bus or leaves it alone.
LEMMA NextOnBus == ASSUME Next PROVE BusStep \/ UNCHANGED busVars
<1>1. CASE Tcp(TcpNext) \/ (\E c \in Clients : TcpCall(c)) \/ Signal
      BY <1>1 DEF Tcp, TcpCall, Signal
<1>2. CASE Cluster(CmNext)
      BY <1>2, ClusterOnBus DEF Cluster
<1>3. CASE \E c \in Callers : Request(c)
      BY <1>3 DEF Request, Begin
<1>4. CASE \E c \in Callers : LocalCall(c)
      BY <1>4, PublishersAssumption DEF LocalCall, AfterUse, Announce, BusStep
<1>5. CASE \E s \in Subscribers : OpenStream(s)
      BY <1>5 DEF OpenStream, BusStep
<1>6. CASE MainStep
      BY <1>6 DEF MainStep, ApiStopped, TcpStopBegins, TcpListenerCloses,
                  TcpStopped, EngineCloses, Exit
<1>   QED BY <1>1, <1>2, <1>3, <1>4, <1>5, <1>6 DEF Next

\* No event is sent on a channel that Unsubscribe has closed, and no channel
\* holds more than its capacity, whatever goroutines publish, subscribe and hang
\* up at the same time (events.go:28-56).
THEOREM OpenChannels == Spec => []PublishToOpenChannels
<1>1. Init => BusInv
      BY BusInitInv DEF Init, CmInit
<1>2. BusInv /\ [Next]_vars => BusInv'
  <2>   SUFFICES ASSUME BusInv, [Next]_vars PROVE BusInv'
        OBVIOUS
  <2>1. BusStep \/ UNCHANGED busVars
        BY NextOnBus DEF vars
  <2>   QED BY <2>1, BusStepInv
<1>3. BusInv => PublishToOpenChannels
      BY DEF BusInv, PublishToOpenChannels
<1>   QED BY <1>1, <1>2, <1>3, PTL DEF Spec
==============================================================================
