-------------------------------- MODULE MCNode --------------------------------
(***************************************************************************)
(* Instances of Node for TLC.  "disk": one command and two leaders, whose  *)
(* logs conflict, two kills and no Stop.  "stop": the same with one Stop,  *)
(* and one kill, which ends the process of the stopped node, so that it    *)
(* starts again; only here the node has RPCs of its own on the way, and    *)
(* only while Stop waits for the loops, as nothing else depends on them.   *)
(* "apply": one leader, no Stop, commands of every type, with a key and a  *)
(* value of no bytes, which the codec must tell from absent ones, and a    *)
(* batch that writes one key twice.                                        *)
(***************************************************************************)
EXTENDS Node

CONSTANT Instances

VARIABLE instance

MCKeys == {<<>>, <<7>>}

OnePut == Put(<<7>>, <<9>>)

AllTypes == {OnePut, Put(<<>>, <<9>>), Delete(<<>>),
             BatchPut(<<(<<7>>), (<<7>>)>>, <<(<<9>>), (<<>>)>>)}

MCInit == Init /\ instance \in Instances

\* What the cluster does in an instance.
Proposed ==
    IF instance = "apply" THEN term' = 1 /\ \A i \in DOMAIN leaderLog' : leaderLog'[i].cmd # OnePut
                          ELSE \A i \in DOMAIN leaderLog' : leaderLog'[i].cmd = OnePut

\* What happens to the process.
Ends ==
    /\ instance # "disk" => kills' <= 1
    /\ instance = "stop" /\ kills' > kills => status = "stopped"
    /\ status' = "closing" => instance = "stop" /\ kills = 0

Sending == mainLoop' = "sending" => instance = "stop" /\ status' \in {"closing", "draining"}

MCNext == UNCHANGED instance /\ Next /\ Proposed /\ Ends /\ Sending

MCSpec == MCInit /\ [][MCNext]_<<vars, instance>> /\ Fairness
==============================================================================
