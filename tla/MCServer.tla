------------------------------- MODULE MCServer -------------------------------
(***************************************************************************)
(* Server for TLC.  The instances share one run:                           *)
(*   "codec"    one client and every request;                              *)
(*   "tcp"      two clients and the shutdown;                              *)
(*   "cluster"  two callers of the cluster manager;                        *)
(*   "again"    the same with a second cluster, and no StopNode;           *)
(*   "events"   calls that publish, and a stream;                          *)
(*   "exit"     callers of the cluster manager and the shutdown.           *)
(***************************************************************************)
EXTENDS Server

CONSTANT Instances

VARIABLE instance

MCKeys == {<<>>, <<7, 7>>}
MCValues == {<<>>, <<9>>}
AllCmds == {CmdPut, CmdGet, CmdDelete, CmdBatchPut, CmdGetRange}

Codec == INSTANCE Server WITH MaxConnects <- 1, MaxCalls <- 0, Subscribers <- {}

Tcp2 == INSTANCE Server WITH Keys <- {<<7, 7>>}, Values <- {<<9>>},
            Cmds <- {CmdPut, CmdGet}, MaxRequests <- 2, MaxCalls <- 0, Subscribers <- {}

Cluster2 == INSTANCE Server WITH MaxConnects <- 0, Subscribers <- {}, MaxTicks <- 1,
                Ops <- {"start", "stop", "stopNode", "put"}, MaxCalls <- 3

Again == INSTANCE Server WITH MaxConnects <- 0, Subscribers <- {}, MaxTicks <- 0,
             Ops <- {"start", "stop", "put"}, MaxCalls <- 4

Events == INSTANCE Server WITH MaxConnects <- 0, MaxCalls <- 3,
              Ops <- {"start", "stop", "stopNode"}

Exiting == INSTANCE Server WITH MaxConnects <- 0, Subscribers <- {}, MaxTicks <- 1,
               Ops <- {"start", "stop", "get", "status", "bench", "kv"}, MaxCalls <- 2,
               Keys <- {<<7, 7>>}, Values <- {<<9>>}, Cmds <- {CmdPut, CmdGet}

\* The first call of an instance with a cluster starts it.
StartFirst == gen' = 0 => \A c \in Callers : call'[c].op \in {"none", "start"}

\* The events of a cluster do not depend on which of its nodes is stopped, nor
\* on how a start fails.
OneKind ==
    /\ \A c \in Callers : call'[c].op = "stopNode" => call'[c].arg = 1
    /\ \A g \in Gens : node'[g][1] # "stopped" \/ node[g][1] # "none"

MCInit == Init /\ instance \in Instances

MCNext ==
    /\ UNCHANGED instance
    /\ \/ instance = "codec" /\ Codec!Next /\ main' = "serving"
       \/ instance = "tcp" /\ Tcp2!Next
       \/ instance = "cluster" /\ Cluster2!Next /\ main' = "serving" /\ StartFirst
       \/ instance = "again" /\ Again!Next /\ main' = "serving" /\ StartFirst
       \/ instance = "events" /\ Events!Next /\ main' = "serving" /\ StartFirst /\ leaders' = {} /\ OneKind
       \/ instance = "exit" /\ Exiting!Next /\ StartFirst

MCSpec == MCInit /\ [][MCNext]_<<vars, instance>> /\ Fairness
==============================================================================
