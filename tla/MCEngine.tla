------------------------------ MODULE MCEngine -------------------------------
(***************************************************************************)
(* The engine on small instances, and the map of KVMap that it implements. *)
(* The instance of a behaviour is chosen at its beginning: the one of the  *)
(* configuration file, or one with calls of two records (BatchPut), fewer  *)
(* calls and no value of length 0.                                         *)
(***************************************************************************)
EXTENDS Engine

CONSTANT Instances   \* the instances a run covers

VARIABLE instance    \* "single" or "batches"

Batches == INSTANCE Engine WITH
    Kinds <- {"put", "delete"}, MaxBatch <- 2, MaxWrites <- 2

MCInit == Init /\ instance \in Instances

MCNext ==
    /\ UNCHANGED instance
    /\ \/ instance = "single" /\ Next
       \/ instance = "batches" /\ Batches!Next

MCSpec == MCInit /\ [][MCNext]_<<vars, instance>>

------------------------------------------------------------------------------
\* Between the death of the process and the next Open the visible map is the
\* one Open will show.
Map == INSTANCE KVMap WITH
    Batch   <- Batches!BatchesUpTo(2),
    visible <- [k \in Keys |-> IF phase = "down" THEN Recovered(k) ELSE Get(k)],
    durable <- [k \in Keys |-> Recovered(k)],
    clock   <- writes,
    running <- phase # "down"

\* A kill inside AppendBatch: the first records of the batch are in the log and
\* the others are not.
HalfBatch ==
    \E b \in Batches!BatchesUpTo(2) : \E n \in 1 .. Len(b) - 1, torn \in BOOLEAN :
        Batches!CrashInWrite(b, n, torn)

\* Whatever the flush goroutine, Close, crashes and recovery do in between, a
\* caller sees a map: every step that is not a write call or a stop leaves
\* both what Get answers and what a restart would answer as they are, and a
\* write call takes effect as a whole or not at all (engine.go:200-232) -
\* except when the process is killed inside AppendBatch, between two records
\* of a BatchPut (wal.go:126-146).  Values of length 0 and records behind a
\* torn one are no part of it.
ImplementsMap ==
    /\ instance = "batches" => Map!KVInit
    /\ [][instance = "batches" /\ Intact' =>
            [Map!KVNext]_(Map!kvVars) \/ HalfBatch]_<<vars, instance>>
==============================================================================
