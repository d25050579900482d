------------------------------- MODULE MCRaft --------------------------------
(***************************************************************************)
(* Replication on small instances. The instance of a behaviour is chosen   *)
(* at its beginning: four terms and one entry ("terms"), two terms and     *)
(* two entries ("entries"), or two terms, an entry and a restart           *)
(* ("restart"); the constants of the configuration file are the largest    *)
(* of each. In the first two n1 is the only candidate of the odd terms     *)
(* and n2 of the even ones, and n1 replicates to one node only, so that    *)
(* there are few enough behaviours to follow an entry through four terms   *)
(* and a conflict through two logs: in "terms" to n3, whose vote decides   *)
(* between n1 and n2, in "entries" to n2, which then has some, all or      *)
(* none of the entries of n1. n2 replicates to both. In the third, n1 and  *)
(* n2 may both be candidates of the first term, n1 before n2, and          *)
(* replicate to everyone; n2 is the candidate of the second. "propose"     *)
(* has three terms and two entries, for the run that looks for a           *)
(* counterexample.                                                         *)
(***************************************************************************)
EXTENDS Raft

CONSTANTS n1, n2, n3, Instances

VARIABLE instance

\* The bounds of an instance.
Within(terms, entries, kills) ==
    /\ \A n \in Nodes : currentTerm[n] <= terms /\ Len(log[n]) <= entries
    /\ restarts <= kills

Turns ==
    \A n \in Nodes : state[n] = "Candidate" =>
        n = (IF currentTerm[n] % 2 = 1 THEN n1 ELSE n2)

\* n1 calls AppendEntries on p only.
ReplicatesTo(p) ==
    \A m \in msgs : m.type = "append" /\ m.from = n1 => m.to = p

Bounds ==
    CASE instance = "terms"   -> Within(4, 1, 0) /\ Turns /\ ReplicatesTo(n3)
      [] instance = "entries" -> Within(2, 2, 0) /\ Turns /\ ReplicatesTo(n2)
      [] instance = "restart" ->
             /\ Within(2, 1, 1)
             /\ state[n3] # "Candidate"
             /\ state[n2] = "Candidate" => currentTerm[n1] > 0
             /\ state[n1] = "Candidate" => currentTerm[n1] = 1
      [] instance = "propose" -> Within(3, 2, 0) /\ Turns

MCInit == Init /\ instance \in Instances

MCNext == Next /\ UNCHANGED instance /\ Bounds'

MCSpec == MCInit /\ [][MCNext]_<<vars, instance>>
==============================================================================
