-------------------------------- MODULE KVMap --------------------------------
(***************************************************************************)
(* What the storage engine promises its callers: a map from keys to        *)
(* values, of which a visible and a durable version exist.  A value is     *)
(* the number of the call that wrote it; NotFound stands for none.         *)
(*                                                                         *)
(* A call writes all its records at once: to both versions if it succeeds, *)
(* to the durable one if it fails.  If the process stops inside a call,    *)
(* the call has taken effect before, or has none.  From then on, and after *)
(* the restart, the durable version is the visible one.                    *)
(***************************************************************************)
EXTENDS Entries, Sequences

CONSTANTS Batch      \* the sequences of records a call may write

VARIABLES visible, durable, clock, running

kvVars == <<visible, durable, clock, running>>

\* The map m after the first n records of batch b, written by call clock + 1.
After(m, b, n) ==
    [k \in Keys |->
        IF \A i \in 1 .. n : b[i].key # k THEN m[k]
        ELSE LET last == CHOOSE i \in 1 .. n :
                            /\ b[i].key = k
                            /\ \A j \in i + 1 .. n : b[j].key # k
             IN  Answer([seq |-> clock + 1, kind |-> b[last].kind])]

KVInit ==
    /\ visible = [k \in Keys |-> NotFound]
    /\ durable = visible
    /\ clock = 0
    /\ running

\* A call returns without an error.
Succeed(b) ==
    /\ running
    /\ clock' = clock + 1
    /\ visible' = After(visible, b, Len(b))
    /\ durable' = After(durable, b, Len(b))
    /\ UNCHANGED running

\* A call returns an error although its records are logged.
Fail(b) ==
    /\ running
    /\ clock' = clock + 1
    /\ durable' = After(durable, b, Len(b))
    /\ UNCHANGED <<visible, running>>

\* The process stops, inside a call that has no effect or between two calls.
Stop ==
    /\ running
    /\ clock' \in {clock, clock + 1}
    /\ visible' = durable
    /\ running' = FALSE
    /\ UNCHANGED durable

Restart ==
    /\ ~running
    /\ running' = TRUE
    /\ UNCHANGED <<visible, durable, clock>>

KVNext ==
    \/ \E b \in Batch : Succeed(b) \/ Fail(b)
    \/ Stop
    \/ Restart

KVSpec == KVInit /\ [][KVNext]_kvVars
==============================================================================
