---------------------------- MODULE RaftElections -----------------------------
(***************************************************************************)
(* The Raft nodes with a record of the past: every vote a node has had in  *)
(* its state and every election that was won.  Nothing but the properties  *)
(* depends on it.                                                          *)
(***************************************************************************)
EXTENDS Raft

VARIABLES
    granted,     \* [voter, term, candidate] for every vote
    elected      \* [term, node, quorum] for every leader

historyVars == <<granted, elected>>
electionSpecVars == <<vars, historyVars>>

Vote     == [voter : Nodes, term : Nat, candidate : Nodes]
Election == [term : Nat, node : Nodes, quorum : SUBSET Nodes]

HistoryTypeOK == TypeOK /\ granted \subseteq Vote /\ elected \subseteq Election

VotesNow ==
    {[voter |-> n, term |-> currentTerm[n], candidate |-> votedFor[n]] :
        n \in {x \in Nodes : votedFor[x] # Nil}}

LeadersNow ==
    {[term |-> currentTerm[n], node |-> n, quorum |-> votes[n] \cup {n}] :
        n \in {x \in Nodes : state[x] = "Leader"}}

Record ==
    /\ granted' = granted \cup VotesNow'
    /\ elected' = elected \cup LeadersNow'

ElectionsInit == Init /\ granted = {} /\ elected = {}

ElectionsNext == Next /\ Record

ElectionsSpec == ElectionsInit /\ [][ElectionsNext]_electionSpecVars

------------------------------------------------------------------------------
\* At most one node is ever elected in a term, although a candidate that
\* meets the leader of its term forgets its vote and may vote again.
ElectionSafety ==
    \A e, f \in elected : e.term = f.term => e.node = f.node

(* Why: the inductive invariant behind ElectionSafety. *)

Granted(v, t, c) == [voter |-> v, term |-> t, candidate |-> c] \in granted

\* The votes that nodes hold and candidates have counted are on record, and no
\* vote is of a term its voter has not reached.
VotesRecorded ==
    /\ \A n \in Nodes : votedFor[n] # Nil => Granted(n, currentTerm[n], votedFor[n])
    /\ \A n \in Nodes : state[n] # "Follower" => votedFor[n] = n
    /\ \A n \in Nodes : state[n] = "Candidate" =>
          \A v \in votes[n] : Granted(v, currentTerm[n], n)
    /\ \A g \in granted : g.term <= currentTerm[g.voter]

\* The leaders are on record, and nobody is a candidate again in a term it has
\* won.
LeadersRecorded ==
    /\ \A n \in Nodes : state[n] = "Leader" =>
          [term |-> currentTerm[n], node |-> n, quorum |-> votes[n] \cup {n}] \in elected
    /\ \A e \in elected :
          \/ currentTerm[e.node] > e.term
          \/ currentTerm[e.node] = e.term /\ state[e.node] # "Candidate"

\* A reply that grants a vote and a request of a leader say the truth.
MessagesRecorded ==
    \A m \in msgs :
        /\ m.type = "voted" /\ m.granted => Granted(m.from, m.sent, m.to)
        /\ m.type = "append" =>
              /\ m.from # m.to
              /\ \E e \in elected : e.term = m.term /\ e.node = m.from

\* In a term without a leader yet nobody has forgotten a vote.
VotesUnique ==
    \A g \in granted :
        \/ \E e \in elected : e.term = g.term
        \/ /\ \A h \in granted : h.voter = g.voter /\ h.term = g.term
                                    => h.candidate = g.candidate
           /\ currentTerm[g.voter] = g.term => votedFor[g.voter] = g.candidate

\* Whoever elected a leader voted for nobody else in that term, and cannot
\* any more: it still holds its vote, and being a follower will not drop it.
QuorumsHold ==
    \A e \in elected :
        /\ IsQuorum(e.quorum)
        /\ \A v \in e.quorum :
              /\ Granted(v, e.term, e.node)
              /\ \A g \in granted : g.voter = v /\ g.term = e.term => g.candidate = e.node
              /\ \/ currentTerm[v] > e.term
                 \/ /\ currentTerm[v] = e.term
                    /\ votedFor[v] = e.node
                    /\ state[v] = "Follower" \/ v = e.node

\* The inductive invariant.
ElectionInv ==
    /\ VotesRecorded
    /\ LeadersRecorded
    /\ MessagesRecorded
    /\ VotesUnique
    /\ QuorumsHold
==============================================================================
