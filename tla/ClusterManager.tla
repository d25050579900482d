---------------------------- MODULE ClusterManager ----------------------------
(***************************************************************************)
(* The in-process Raft cluster behind the dashboard (server/cluster.go).   *)
(*                                                                         *)
(* Each HTTP request is handled by a goroutine, here a caller; statusLoop  *)
(* is one more.  Critical sections under cm.mu that neither wait nor       *)
(* publish are one step; a caller that waits or publishes with cm.mu held  *)
(* for writing is recorded in mu.  Read sections never wait, so readers    *)
(* need not be recorded.  A cluster is identified by the number of the     *)
(* call that created it (gen); what a Raft node does is left to Raft and   *)
(* Node, and seen here through IsLeader and Stop.  Stop of a node returns: *)
(* its peers are nodes of this process, which answer its RPCs even when    *)
(* they are stopped (see NodeStopReturns).  An exception is left out: a    *)
(* node that is elected while later ones are being started, one of which   *)
(* fails, may wait for those that were created and accept no connection.   *)
(* The counters of the dashboard (keyCount and the rates) are left out.    *)
(***************************************************************************)
EXTENDS EventBus, FiniteSetsExt

CONSTANTS
    Callers,    \* handler goroutines
    Ops,        \* the operations they may call
    Counts,     \* the node counts a start may ask for
    MaxNodes,   \* the most nodes a cluster has (7 in the code)
    MaxStarts,  \* bound on calls of StartWithNodes
    MaxCalls,   \* bound on all calls
    MaxTicks    \* bound on the ticks of statusLoop

\* The goroutines that publish are the callers and statusLoop.
ASSUME PublishersAssumption == Publishers = Callers \cup {"loop"}

VARIABLES
    mu,         \* the caller that holds cm.mu for writing, or "free"
    running,    \* cm.running
    nodes,      \* cm.nodes: the cluster it belongs to, 0 for nil
    stopped,    \* cm.stopped
    closing,    \* cm.closeCh is closed
    gen,        \* number of clusters created so far
    node,       \* the nodes of every cluster: see NodeStates
    leaders,    \* nodes whose IsLeader() answers true
    loop,       \* statusLoop: see LoopStates
    ticks,      \* ticks taken
    call,       \* the callers
    calls,      \* number of calls so far
    panics      \* history: calls that ended in a panic

cmVars == <<mu, running, nodes, stopped, closing, gen, node, leaders, loop,
            ticks, call, calls, panics>>

Ids == 1 .. MaxNodes
Gens == 1 .. MaxStarts

\* Not created; created, with its listener open; started; Stop returned nil;
\* Stop returned an error (its Raft part is stopped all the same).
NodeStates == {"none", "created", "up", "stopped", "broken"}

\* No loop; in select; before each of the two read sections; publishing.
LoopStates == {"none", "select", "rates", "status", "publish"}

NoTarget == <<0, 0>>
NoCopy == [gen |-> 0, stopped |-> {}]
IdleCall == [op |-> "none", pc |-> "idle", arg |-> 0, target |-> NoTarget,
             copy |-> NoCopy, known |-> {}]

Goto(c, pc) == call' = [call EXCEPT ![c].pc = pc]
Done(c) == call' = [call EXCEPT ![c] = IdleCall]

------------------------------------------------------------------------------
(* A request arrives *)

\* Nodes known to be stopped: those of earlier clusters, and those StopNode has
\* reported.
KnownStopped ==
    {t \in (1 .. gen) \X Ids : ~running \/ t[1] # nodes \/ t[2] \in stopped}

Args(op) == CASE op = "start" -> Counts [] op = "stopNode" -> Ids [] OTHER -> {0}

Begin(c, op, arg) ==
    /\ call[c].pc = "idle" /\ calls < MaxCalls
    /\ op = "start" => gen + Cardinality({d \in Callers : call[d].op = "start"}) < MaxStarts
    /\ calls' = calls + 1
    /\ call' = [call EXCEPT ![c] =
           [IdleCall EXCEPT !.op = op, !.arg = arg, !.known = KnownStopped,
                !.pc = CASE op \in {"start", "stop", "stopNode"} -> "lock"
                         [] op = "kv" -> "local"
                         [] OTHER -> "rlock"]]
    /\ UNCHANGED <<mu, running, nodes, stopped, closing, gen, node, leaders, loop,
                   ticks, panics, busVars>>

------------------------------------------------------------------------------
(* StartWithNodes, Stop and StopNode *)

\* handleClusterStart asks for three nodes when the request gives no number.
DefaultCount(count) == IF count <= 0 THEN 3 ELSE count

Clamp(count) == IF count < 1 THEN 1 ELSE IF count > MaxNodes THEN MaxNodes ELSE count

\* The nodes of a new cluster when all of StartWithNodes succeeds, when creating
\* node i fails, and when starting node i fails.  The last leaves node i and the
\* nodes behind it created.  (StartFailsUp is a mutant: no node is stopped.)
AllUp(n) == [i \in Ids |-> IF i <= n THEN "up" ELSE "none"]
CreateFails(n, at) == [i \in Ids |-> IF i < at THEN "stopped" ELSE "none"]
StartFailsUp(n, at) ==
    [i \in Ids |-> IF i > n THEN "none" ELSE IF i < at THEN "up" ELSE "created"]
StartFails(n, at) ==
    [i \in Ids |-> IF i > n THEN "none" ELSE IF i < at THEN "stopped" ELSE "created"]

Start(c) ==
    /\ call[c].pc = "lock" /\ call[c].op = "start" /\ mu = "free"
    /\ LET n == Clamp(DefaultCount(call[c].arg))
       IN  \/ /\ Done(c)       \* running already, or no temporary directory
              /\ UNCHANGED <<mu, running, nodes, stopped, closing, gen, node, loop, busVars>>
           \/ /\ ~running
              /\ gen' = gen + 1 /\ nodes' = gen + 1
              /\ \E at \in 1 .. n : \E ns \in {CreateFails(n, at), StartFails(n, at)} :
                    node' = [node EXCEPT ![gen + 1] = ns]
              /\ Done(c)
              /\ UNCHANGED <<mu, running, stopped, closing, loop, busVars>>
           \/ /\ ~running
              /\ gen' = gen + 1 /\ nodes' = gen + 1
              /\ node' = [node EXCEPT ![gen + 1] = AllUp(n)]
              /\ running' = TRUE /\ stopped' = {} /\ closing' = FALSE
              /\ loop' = "select"
              /\ mu' = c /\ Goto(c, "publish")
              /\ PublishBegin(c, [type |-> "cluster_started", gen |-> gen + 1])
    /\ UNCHANGED <<leaders, ticks, calls, panics>>

\* Mutant: Stop does not ask whether the cluster is running.
StopBeginUnchecked(c) ==
    /\ call[c].pc = "lock" /\ call[c].op = "stop" /\ mu = "free"
    /\ IF closing THEN Done(c) /\ panics' = panics + 1 /\ UNCHANGED <<mu, closing>>
       ELSE closing' = TRUE /\ mu' = c /\ Goto(c, "wait") /\ UNCHANGED panics
    /\ UNCHANGED <<running, nodes, stopped, gen, node, leaders, loop, ticks, calls, busVars>>

\* Stop as far as wg.Wait.  Closing a closed channel panics; net/http recovers
\* the panic of a handler and the deferred Unlock runs.
StopBegin(c) ==
    /\ call[c].pc = "lock" /\ call[c].op = "stop" /\ mu = "free"
    /\ IF ~running THEN Done(c) /\ UNCHANGED <<mu, closing, panics>>
       ELSE IF closing THEN Done(c) /\ panics' = panics + 1 /\ UNCHANGED <<mu, closing>>
       ELSE closing' = TRUE /\ mu' = c /\ Goto(c, "wait") /\ UNCHANGED panics
    /\ UNCHANGED <<running, nodes, stopped, gen, node, leaders, loop, ticks, calls, busVars>>

NodeState(i) == IF nodes = 0 THEN "none" ELSE node[nodes][i]

\* Nodes whose Raft part is stopped: stopping them again closes a closed channel.
Halted == {i \in Ids : NodeState(i) \in {"stopped", "broken"}}

\* Mutant: Stop does not wait.
LoopGoneOrNot == TRUE

\* cm.wg.Wait() returns.
LoopGone == loop = "none"

\* The rest of Stop, once statusLoop is gone.  The loop over the nodes ends in a
\* panic at the first that is stopped already.
StopEnd(c) ==
    /\ call[c].pc = "wait" /\ LoopGone
    /\ IF Halted = {}
       THEN /\ node' = [node EXCEPT ![nodes] =
                            [i \in Ids |-> IF @[i] = "none" THEN "none" ELSE "stopped"]]
            /\ nodes' = 0 /\ running' = FALSE /\ stopped' = {}
            /\ Goto(c, "publish")
            /\ PublishBegin(c, [type |-> "cluster_stopped", gen |-> nodes])
            /\ UNCHANGED <<mu, panics>>
       ELSE /\ node' = [node EXCEPT ![nodes] =
                            [i \in Ids |-> IF i < Min(Halted) THEN "stopped" ELSE @[i]]]
            /\ mu' = "free" /\ Done(c) /\ panics' = panics + 1
            /\ UNCHANGED <<nodes, running, stopped, busVars>>
    /\ UNCHANGED <<closing, gen, leaders, loop, ticks, calls>>

MarkStopped(i) == stopped' = stopped \cup {i}

StopNode(c) ==
    /\ call[c].pc = "lock" /\ call[c].op = "stopNode" /\ mu = "free"
    /\ LET i == call[c].arg
       IN  \/ /\ ~running \/ NodeState(i) = "none" \/ i \in stopped
              /\ Done(c)
              /\ UNCHANGED <<mu, stopped, node, panics, busVars>>
           \/ /\ running /\ i \in Halted \ stopped
              /\ Done(c) /\ panics' = panics + 1
              /\ UNCHANGED <<mu, stopped, node, busVars>>
           \/ /\ running /\ NodeState(i) = "up" /\ i \notin stopped
              /\ node' = [node EXCEPT ![nodes][i] = "broken"]
              /\ Done(c)
              /\ UNCHANGED <<mu, stopped, panics, busVars>>
           \/ /\ running /\ NodeState(i) = "up" /\ i \notin stopped
              /\ node' = [node EXCEPT ![nodes][i] = "stopped"]
              /\ MarkStopped(i)
              /\ mu' = c /\ Goto(c, "publish")
              /\ PublishBegin(c, [type |-> "node_stopped", gen |-> nodes, id |-> i])
              /\ UNCHANGED panics
    /\ UNCHANGED <<running, nodes, closing, gen, leaders, loop, ticks, calls>>

\* Publish returns and so does the call, unlocking cm.mu.
Published(c) ==
    /\ call[c].pc = "publish"
    /\ PublishEnd(c)
    /\ mu' = "free" /\ Done(c)
    /\ UNCHANGED <<running, nodes, stopped, closing, gen, node, leaders, loop,
                   ticks, calls, panics>>

------------------------------------------------------------------------------
(* Put, Delete, BatchPut (op "put"), Get, GetRange (op "get"), Status, and the *)
(* benchmarks, which look for the leader themselves                            *)

\* Mutant: stopped nodes are not skipped.
LeadersOfAll(g, down) == {i \in Ids : <<g, i>> \in leaders}

LeadersOf(g, down) == {i \in Ids \ down : <<g, i>> \in leaders}

\* findLeader up to the point where it releases cm.mu: the first leader, or a
\* copy of the nodes to poll.
findLeader(c) ==
    LET found == LeadersOf(nodes, stopped)
    IN  IF found # {}
        THEN call' = [call EXCEPT ![c].pc = "use", ![c].target = <<nodes, Min(found)>>]
        ELSE call' = [call EXCEPT ![c].pc = "poll", ![c].copy = [gen |-> nodes, stopped |-> stopped]]

\* A benchmark publishes what it is doing, without cm.mu.
Announce(c) == Goto(c, "announce") /\ PublishBegin(c, [type |-> "benchmark"])

\* After an engine call: a benchmark goes on to its next Publish, or gives up
\* after an error; any other call returns.
AfterUse(c) ==
    \/ Done(c) /\ UNCHANGED busVars
    \/ call[c].op = "bench" /\ Announce(c)

Enter(c) ==
    /\ call[c].pc = "rlock" /\ mu = "free"
    /\ \/ call[c].op = "status" /\ Done(c) /\ UNCHANGED busVars
       \/ call[c].op = "bench" /\ Announce(c)
       \/ /\ call[c].op \in {"put", "get"}
          /\ IF running THEN findLeader(c) ELSE Done(c)
          /\ UNCHANGED busVars
    /\ UNCHANGED <<mu, running, nodes, stopped, closing, gen, node, leaders, loop,
                   ticks, calls, panics>>

\* benchEngine tests IsRunning in a read section of its own, and looks for the
\* leader in the next one without testing it again.
BenchEngine(c) ==
    /\ mu = "free"
    /\ \/ call[c].pc = "bench" /\ Goto(c, IF running THEN "rlock2" ELSE "local")
       \/ call[c].pc = "rlock2" /\ findLeader(c)
    /\ UNCHANGED <<mu, running, nodes, stopped, closing, gen, node, leaders, loop,
                   ticks, calls, panics, busVars>>

\* The end of a Publish of a benchmark: the engine calls follow, of which one is
\* modelled, or the handler returns.
Announced(c) ==
    /\ call[c].pc = "announce"
    /\ PublishEnd(c)
    /\ IF call[c].arg = 0 THEN call' = [call EXCEPT ![c].pc = "bench", ![c].arg = 1]
       ELSE Done(c)
    /\ UNCHANGED <<mu, running, nodes, stopped, closing, gen, node, leaders, loop,
                   ticks, calls, panics>>

\* Mutant: findLeader has no deadline.
PollForever(c) ==
    /\ call[c].pc = "poll"
    /\ LET found == LeadersOf(call[c].copy.gen, call[c].copy.stopped)
       IN  /\ found # {}
           /\ call' = [call EXCEPT ![c].pc = "relock",
                           ![c].target = <<call[c].copy.gen, Min(found)>>,
                           ![c].copy = NoCopy]
    /\ UNCHANGED <<mu, running, nodes, stopped, closing, gen, node, leaders, loop,
                   ticks, calls, panics, busVars>>

\* findLeader polls its copy without cm.mu, for two seconds at most.
Poll(c) ==
    /\ call[c].pc = "poll"
    /\ LET found == LeadersOf(call[c].copy.gen, call[c].copy.stopped)
       IN  \/ /\ found # {}
              /\ call' = [call EXCEPT ![c].pc = "relock",
                              ![c].target = <<call[c].copy.gen, Min(found)>>,
                              ![c].copy = NoCopy]
           \/ call' = [call EXCEPT ![c].pc = "relock", ![c].copy = NoCopy]
    /\ UNCHANGED <<mu, running, nodes, stopped, closing, gen, node, leaders, loop,
                   ticks, calls, panics, busVars>>

Relock(c) ==
    /\ call[c].pc = "relock" /\ mu = "free"
    /\ IF call[c].target # NoTarget THEN Goto(c, "use")
       ELSE IF call[c].op = "bench" THEN Goto(c, "local")
       ELSE Done(c)
    /\ UNCHANGED <<mu, running, nodes, stopped, closing, gen, node, leaders, loop,
                   ticks, calls, panics, busVars>>

\* Propose, or the read of the leader's engine, without cm.mu.
Use(c) ==
    /\ call[c].pc = "use"
    /\ AfterUse(c)
    /\ UNCHANGED <<mu, running, nodes, stopped, closing, gen, node, leaders, loop,
                   ticks, calls, panics>>

------------------------------------------------------------------------------
(* statusLoop *)

\* select takes a ticker event, or sees closeCh; with both ready, either.
LoopTick ==
    /\ loop = "select" /\ ticks < MaxTicks
    /\ loop' = "rates" /\ ticks' = ticks + 1
    /\ UNCHANGED <<mu, running, nodes, stopped, closing, gen, node, leaders, call,
                   calls, panics, busVars>>

LoopExit ==
    /\ loop = "select" /\ closing
    /\ loop' = "none"
    /\ UNCHANGED <<mu, running, nodes, stopped, closing, gen, node, leaders, ticks,
                   call, calls, panics, busVars>>

LoopRates ==
    /\ loop = "rates" /\ mu = "free"
    /\ loop' = "status"
    /\ UNCHANGED <<mu, running, nodes, stopped, closing, gen, node, leaders, ticks,
                   call, calls, panics, busVars>>

\* Status() and the call of Publish, which holds no cm.mu.
LoopStatus ==
    /\ loop = "status" /\ mu = "free"
    /\ loop' = "publish"
    /\ PublishBegin("loop", [type |-> "status", gen |-> nodes, down |-> stopped])
    /\ UNCHANGED <<mu, running, nodes, stopped, closing, gen, node, leaders, ticks,
                   call, calls, panics>>

LoopPublished ==
    /\ loop = "publish"
    /\ PublishEnd("loop")
    /\ loop' = "select"
    /\ UNCHANGED <<mu, running, nodes, stopped, closing, gen, node, leaders, ticks,
                   call, calls, panics>>

------------------------------------------------------------------------------
(* The Raft nodes, as IsLeader shows them.  Stop leaves the role of a node as *)
(* it is, and connections accepted before Stop still deliver messages that    *)
(* make it a follower.                                                        *)

Elect(i) ==
    /\ NodeState(i) = "up"
    /\ leaders' = leaders \cup {<<nodes, i>>}
    /\ UNCHANGED <<mu, running, nodes, stopped, closing, gen, node, loop, ticks,
                   call, calls, panics, busVars>>

StepDown(i) ==
    /\ leaders' = leaders \ {<<nodes, i>>}
    /\ UNCHANGED <<mu, running, nodes, stopped, closing, gen, node, loop, ticks,
                   call, calls, panics, busVars>>

------------------------------------------------------------------------------
CmInit ==
    /\ BusInit
    /\ mu = "free"
    /\ running = FALSE /\ nodes = 0 /\ stopped = {} /\ closing = FALSE
    /\ gen = 0
    /\ node = [g \in Gens |-> [i \in Ids |-> "none"]]
    /\ leaders = {}
    /\ loop = "none" /\ ticks = 0
    /\ call = [c \in Callers |-> IdleCall]
    /\ calls = 0 /\ panics = 0

Sends(p) == PublishSend(p) /\ UNCHANGED cmVars

Streams ==
    /\ \E s \in Subscribers : Receive(s) \/ Unsubscribe(s)
    /\ UNCHANGED cmVars

CallStep(c) ==
    \/ Start(c) \/ StopBegin(c) \/ StopEnd(c) \/ StopNode(c) \/ Published(c)
    \/ Enter(c) \/ BenchEngine(c) \/ Announced(c) \/ Poll(c) \/ Relock(c) \/ Use(c)

LoopStep == LoopRates \/ LoopStatus \/ LoopPublished

CmNext ==
    \/ \E c \in Callers : CallStep(c)
    \/ LoopTick \/ LoopExit \/ LoopStep
    \/ \E i \in Ids : Elect(i) \/ StepDown(i)
    \/ \E p \in Publishers : Sends(p)
    \/ Streams

------------------------------------------------------------------------------
(* Properties *)

\* With cm.mu free, the nodes are what the flags say: a cluster that is not
\* running has no node up, a running one has all its nodes up but those StopNode
\* has stopped or failed to stop, and those a panicking Stop went through
\* (cluster.go:99-172, 195-212, 465-480).
NodesAccountedFor ==
    mu = "free" =>
        /\ ~running => \A g \in Gens : \A i \in Ids : node[g][i] # "up"
        /\ running /\ panics = 0 =>
              /\ \A i \in Ids : NodeState(i) \in {"none", "up", "broken"} <=> i \notin stopped
              /\ \A g \in Gens \ {nodes} : \A i \in Ids : node[g][i] # "up"

\* In every event stream the events of a cluster lie between its cluster_started
\* and its cluster_stopped, and after node_stopped at most one status event still
\* shows the node running: the one statusLoop was about to publish
\* (cluster.go:174-178, 192-193, 214-218, 474-480, 510-515).
LifecycleOrder ==
    \A s \in Subscribers :
        \A i \in {k \in DOMAIN sent[s] : sent[s][k].type # "benchmark"} :
            LET e == sent[s][i]
                later == {j \in i + 1 .. Len(sent[s]) : sent[s][j].type # "benchmark"}
            IN  /\ \A j \in later :
                      /\ e.gen <= sent[s][j].gen
                      /\ e.type = "cluster_stopped" => e.gen < sent[s][j].gen
                      /\ sent[s][j].type = "cluster_started" => e.gen < sent[s][j].gen
                /\ e.type = "node_stopped" =>
                      Cardinality({j \in later :
                          /\ sent[s][j].type = "status" /\ sent[s][j].gen = e.gen
                          /\ e.id \notin sent[s][j].down}) <= 1

\* A call made after StopNode or Stop has reported a node stopped never goes to
\* that node, though its IsLeader may go on answering true (cluster.go:273-304).
FreshTarget ==
    \A c \in Callers : call[c].pc = "use" => call[c].target \notin call[c].known

\* No call panics unless StopNode was used on the running cluster
\* (cluster.go:192-203, 471; Node.Stop may be called once only).
PanicOnlyAfterStopNode ==
    panics > 0 => running /\ Halted # {}

\* Stop waits for statusLoop with cm.mu held, and statusLoop waits for cm.mu.
StopStuck == \E c \in Callers : call[c].pc = "wait" /\ loop \in {"rates", "status"}
==============================================================================
