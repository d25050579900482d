------------------------- MODULE RaftElectionProofs --------------------------
(***************************************************************************)
(* At most one leader per term, for every set of nodes.                    *)
(*                                                                         *)
(* A step of the system changes term, vote, role and tally of one node     *)
(* (Change).  There are seven ways to do so (the lemmas HigherTerm to      *)
(* WinElection); each of them keeps the invariant of the nodes, and the    *)
(* handlers are instances of them.                                         *)
(***************************************************************************)
EXTENDS RaftElections, RaftTypeProofs, FiniteSetTheorems

NodeInv == VotesRecorded /\ LeadersRecorded /\ VotesUnique /\ QuorumsHold

\* Two majorities have a node in common.
LEMMA QuorumsMeet ==
    ASSUME NEW P \in SUBSET Nodes, NEW Q \in SUBSET Nodes, IsQuorum(P), IsQuorum(Q)
    PROVE  \E v \in Nodes : v \in P /\ v \in Q
<1>1. IsFiniteSet(Nodes)
      BY RaftAssumption
<1>2. /\ Cardinality(Nodes) \in Nat
      /\ Cardinality(P) \in Nat /\ Cardinality(Q) \in Nat
      BY <1>1, FS_CardinalityType, FS_Subset
<1>3. Cardinality(P) + Cardinality(Q) > Cardinality(Nodes)
      BY <1>2 DEF IsQuorum
<1>4. P \cap Q # {}
      BY <1>1, <1>3, FS_MajoritiesIntersect
<1>  QED BY <1>4

\* The invariant implies the theorem: a voter both quorums share has voted for
\* both leaders, so they are one.
LEMMA InvImpliesSafety == HistoryTypeOK /\ QuorumsHold => ElectionSafety
<1>  SUFFICES ASSUME HistoryTypeOK, QuorumsHold,
                     NEW e \in elected, NEW f \in elected, e.term = f.term
              PROVE  e.node = f.node
     BY DEF ElectionSafety
<1>1. e \in Election /\ f \in Election
      BY DEF HistoryTypeOK
<1>2. PICK v \in Nodes : v \in e.quorum /\ v \in f.quorum
      BY <1>1, QuorumsMeet DEF QuorumsHold, Election
<1>3. Granted(v, e.term, e.node)
      BY <1>2 DEF QuorumsHold
<1>4. \A g \in granted : g.voter = v /\ g.term = f.term => g.candidate = f.node
      BY <1>2 DEF QuorumsHold
<1>  QED BY <1>3, <1>4 DEF Granted

------------------------------------------------------------------------------
(* One node changes *)

Change(n, t, v, s, V) ==
    /\ currentTerm' = [currentTerm EXCEPT ![n] = t]
    /\ votedFor' = [votedFor EXCEPT ![n] = v]
    /\ state' = [state EXCEPT ![n] = s]
    /\ votes' = [votes EXCEPT ![n] = V]

VoteOf(n, t, v) == [voter |-> n, term |-> t, candidate |-> v]

WinOf(n, t, V) == [term |-> t, node |-> n, quorum |-> V \cup {n}]

\* Only the vote of n is new on record.
LEMMA GrantedNext ==
    ASSUME TypeOK, VotesRecorded, Record, NEW n \in Nodes,
           NEW t, NEW v, NEW s, NEW V, Change(n, t, v, s, V)
    PROVE  granted' = granted \cup (IF v # Nil THEN {VoteOf(n, t, v)} ELSE {})
<1>  DEFINE new == IF v # Nil THEN {VoteOf(n, t, v)} ELSE {}
<1>1. \A x \in Nodes : /\ currentTerm'[x] = IF x = n THEN t ELSE currentTerm[x]
                       /\ votedFor'[x] = IF x = n THEN v ELSE votedFor[x]
      BY DEF Change, TypeOK, ElectionTypes
<1>2. ASSUME NEW g \in VotesNow' PROVE g \in granted \cup new
  <2>1. PICK x \in Nodes : /\ votedFor'[x] # Nil
                           /\ g = VoteOf(x, currentTerm'[x], votedFor'[x])
        BY <1>2 DEF VotesNow, VoteOf
  <2>2. CASE x = n
        BY <2>1, <2>2, <1>1
  <2>3. CASE x # n
        BY <2>1, <2>3, <1>1 DEF VotesRecorded, Granted, VoteOf
  <2>  QED BY <2>2, <2>3
<1>3. new \subseteq VotesNow'
      BY <1>1 DEF VotesNow, VoteOf
<1>  QED BY <1>2, <1>3 DEF Record

\* Only a victory of n is new on record.
LEMMA ElectedNext ==
    ASSUME TypeOK, LeadersRecorded, Record, NEW n \in Nodes,
           NEW t, NEW v, NEW s, NEW V, Change(n, t, v, s, V)
    PROVE  elected' = elected \cup (IF s = "Leader" THEN {WinOf(n, t, V)} ELSE {})
<1>  DEFINE new == IF s = "Leader" THEN {WinOf(n, t, V)} ELSE {}
<1>1. \A x \in Nodes : /\ currentTerm'[x] = IF x = n THEN t ELSE currentTerm[x]
                       /\ state'[x] = IF x = n THEN s ELSE state[x]
                       /\ votes'[x] = IF x = n THEN V ELSE votes[x]
      BY DEF Change, TypeOK, ElectionTypes
<1>2. ASSUME NEW e \in LeadersNow' PROVE e \in elected \cup new
  <2>1. PICK x \in Nodes : /\ state'[x] = "Leader"
                           /\ e = WinOf(x, currentTerm'[x], votes'[x])
        BY <1>2 DEF LeadersNow, WinOf
  <2>2. CASE x = n
        BY <2>1, <2>2, <1>1
  <2>3. CASE x # n
        BY <2>1, <2>3, <1>1 DEF LeadersRecorded, WinOf
  <2>  QED BY <2>2, <2>3
<1>3. new \subseteq LeadersNow'
      BY <1>1 DEF LeadersNow, WinOf
<1>  QED BY <1>2, <1>3 DEF Record

\* A node that does not become leader adds no election.
LEMMA ElectedSame ==
    ASSUME TypeOK, LeadersRecorded, Record, NEW n \in Nodes,
           NEW t, NEW v, NEW s, NEW V, Change(n, t, v, s, V), s # "Leader"
    PROVE  elected' = elected
BY ElectedNext

\* The values after a change.
LEMMA ChangeValues ==
    ASSUME TypeOK, NEW n \in Nodes, NEW t, NEW v, NEW s, NEW V, Change(n, t, v, s, V)
    PROVE  \A x \in Nodes :
              /\ currentTerm'[x] = IF x = n THEN t ELSE currentTerm[x]
              /\ votedFor'[x] = IF x = n THEN v ELSE votedFor[x]
              /\ state'[x] = IF x = n THEN s ELSE state[x]
              /\ votes'[x] = IF x = n THEN V ELSE votes[x]
BY DEF Change, TypeOK, ElectionTypes

\* The facts about types that the cases need.
LEMMA HistoryTypes ==
    ASSUME HistoryTypeOK
    PROVE  /\ \A g \in granted : g.voter \in Nodes /\ g.term \in Nat /\ g.candidate \in Nodes
           /\ \A e \in elected : e.term \in Nat /\ e.node \in Nodes /\ e.quorum \subseteq Nodes
           /\ \A n \in Nodes : currentTerm[n] \in Nat
           /\ Nil \notin Nodes
           /\ TypeOK
BY RaftAssumption DEF HistoryTypeOK, Vote, Election, TypeOK, ElectionTypes

\* Case 1: a higher term, with a vote or without, as a follower or as a
\* candidate that votes for itself.
LEMMA HigherTerm ==
    ASSUME HistoryTypeOK, NodeInv, Record,
           NEW n \in Nodes, NEW t \in Nat, NEW v \in Nodes \cup {Nil}, NEW s,
           Change(n, t, v, s, {}),
           t > currentTerm[n],
           s = "Follower" \/ (s = "Candidate" /\ v = n)
    PROVE  NodeInv'
<1>1. granted' = granted \cup (IF v # Nil THEN {VoteOf(n, t, v)} ELSE {})
      BY HistoryTypes, GrantedNext DEF NodeInv
<1>2. elected' = elected
      BY HistoryTypes, ElectedNext DEF NodeInv
<1>3. VotesRecorded'
      BY <1>1, HistoryTypes, ChangeValues DEF NodeInv, VotesRecorded, Granted, VoteOf
<1>4. LeadersRecorded'
      BY <1>2, HistoryTypes, ChangeValues DEF NodeInv, LeadersRecorded
<1>5. \A g \in granted : g.voter = n => g.term < t
      BY HistoryTypes DEF NodeInv, VotesRecorded
<1>6. VotesUnique'
  <2>  SUFFICES ASSUME NEW g \in granted', ~ \E e \in elected' : e.term = g.term
                PROVE  /\ \A h \in granted' : h.voter = g.voter /\ h.term = g.term
                                                => h.candidate = g.candidate
                       /\ currentTerm'[g.voter] = g.term => votedFor'[g.voter] = g.candidate
       BY DEF VotesUnique
  <2>1. CASE g \in granted
        BY <2>1, <1>1, <1>2, <1>5, HistoryTypes, ChangeValues DEF NodeInv, VotesUnique, VoteOf
  <2>2. CASE g = VoteOf(n, t, v)
        BY <2>2, <1>1, <1>5, HistoryTypes, ChangeValues DEF VoteOf
  <2>  QED BY <2>1, <2>2, <1>1
<1>7. QuorumsHold'
  <2>  SUFFICES ASSUME NEW e \in elected, NEW x \in e.quorum
                PROVE  /\ Granted(x, e.term, e.node)'
                       /\ \A g \in granted' : g.voter = x /\ g.term = e.term
                                                => g.candidate = e.node
                       /\ \/ currentTerm'[x] > e.term
                          \/ /\ currentTerm'[x] = e.term
                             /\ votedFor'[x] = e.node
                             /\ state'[x] = "Follower" \/ x = e.node
       BY <1>2 DEF NodeInv, QuorumsHold
  <2>1. x \in Nodes /\ (x = n => e.term < t)
        BY HistoryTypes DEF NodeInv, QuorumsHold
  <2>2. Granted(x, e.term, e.node)'
        BY <1>1 DEF NodeInv, QuorumsHold, Granted
  <2>3. \A g \in granted' : g.voter = x /\ g.term = e.term => g.candidate = e.node
        BY <1>1, <2>1, HistoryTypes DEF NodeInv, QuorumsHold, VoteOf
  <2>4. \/ currentTerm'[x] > e.term
        \/ /\ currentTerm'[x] = e.term
           /\ votedFor'[x] = e.node
           /\ state'[x] = "Follower" \/ x = e.node
        BY <2>1, HistoryTypes, ChangeValues DEF NodeInv, QuorumsHold
  <2>  QED BY <2>2, <2>3, <2>4
<1>  QED BY <1>3, <1>4, <1>6, <1>7 DEF NodeInv

\* Case 2: a candidate or leader meets the leader of its own term and becomes
\* a follower without a vote.
LEMMA MeetLeader ==
    ASSUME HistoryTypeOK, NodeInv, Record,
           NEW n \in Nodes, Change(n, currentTerm[n], Nil, "Follower", {}),
           state[n] # "Follower",
           NEW e \in elected, e.term = currentTerm[n], e.node # n
    PROVE  NodeInv'
<1>1. granted' = granted
      BY HistoryTypes, GrantedNext DEF NodeInv
<1>2. elected' = elected
  <2>1. "Follower" # "Leader"
        OBVIOUS
  <2>  QED BY <2>1, HistoryTypes, ElectedSame DEF NodeInv
<1>3. VotesRecorded'
      BY <1>1, HistoryTypes, ChangeValues DEF NodeInv, VotesRecorded, Granted
<1>4. LeadersRecorded'
      BY <1>2, HistoryTypes, ChangeValues DEF NodeInv, LeadersRecorded
<1>5. VotesUnique'
      BY <1>1, <1>2, HistoryTypes, ChangeValues DEF NodeInv, VotesUnique
<1>6. QuorumsHold'
  <2>1. \A f \in elected : f.term = e.term => f.node = e.node
        BY InvImpliesSafety DEF NodeInv, ElectionSafety
  <2>2. \A f \in elected : n \in f.quorum => currentTerm[n] > f.term
        BY <2>1, HistoryTypes DEF NodeInv, QuorumsHold
  <2>  QED BY <1>1, <1>2, <2>2, HistoryTypes, ChangeValues DEF NodeInv, QuorumsHold, Granted
<1>  QED BY <1>3, <1>4, <1>5, <1>6 DEF NodeInv

\* Case 3: the first vote of a node in its present term.
LEMMA FirstVote ==
    ASSUME HistoryTypeOK, NodeInv, Record,
           NEW n \in Nodes, NEW v \in Nodes,
           Change(n, currentTerm[n], v, state[n], votes[n]),
           votedFor[n] = Nil
    PROVE  NodeInv'
<1>1. state[n] = "Follower"
      BY HistoryTypes DEF NodeInv, VotesRecorded
<1>2. granted' = granted \cup {VoteOf(n, currentTerm[n], v)}
      BY HistoryTypes, GrantedNext DEF NodeInv
<1>3. elected' = elected
      BY <1>1, HistoryTypes, ElectedNext DEF NodeInv
<1>4. VotesRecorded'
      BY <1>1, <1>2, HistoryTypes, ChangeValues DEF NodeInv, VotesRecorded, Granted, VoteOf
<1>5. LeadersRecorded'
      BY <1>1, <1>3, HistoryTypes, ChangeValues DEF NodeInv, LeadersRecorded
<1>6. ASSUME NEW g \in granted, g.voter = n, g.term = currentTerm[n]
      PROVE  \E e \in elected : e.term = currentTerm[n]
      BY <1>6, HistoryTypes DEF NodeInv, VotesUnique
<1>7. VotesUnique'
  <2>  SUFFICES ASSUME NEW g \in granted', ~ \E e \in elected' : e.term = g.term
                PROVE  /\ \A h \in granted' : h.voter = g.voter /\ h.term = g.term
                                                => h.candidate = g.candidate
                       /\ currentTerm'[g.voter] = g.term => votedFor'[g.voter] = g.candidate
       BY DEF VotesUnique
  <2>1. CASE g \in granted
        BY <2>1, <1>2, <1>3, <1>6, HistoryTypes, ChangeValues DEF NodeInv, VotesUnique, VoteOf
  <2>2. CASE g = VoteOf(n, currentTerm[n], v)
        BY <2>2, <1>2, <1>3, <1>6, HistoryTypes, ChangeValues DEF VoteOf
  <2>  QED BY <2>1, <2>2, <1>2
<1>8. QuorumsHold'
  <2>1. \A e \in elected : n \in e.quorum => e.term # currentTerm[n]
        BY HistoryTypes DEF NodeInv, QuorumsHold
  <2>2. \A e \in elected : \A x \in e.quorum : \A g \in granted' :
            g.voter = x /\ g.term = e.term => g.candidate = e.node
        BY <2>1, <1>2 DEF NodeInv, QuorumsHold, VoteOf
  <2>3. \A e \in elected : \A x \in e.quorum : Granted(x, e.term, e.node)'
        BY <1>2 DEF NodeInv, QuorumsHold, Granted
  <2>4. \A e \in elected : \A x \in e.quorum :
            \/ currentTerm'[x] > e.term
            \/ /\ currentTerm'[x] = e.term
               /\ votedFor'[x] = e.node
               /\ state'[x] = "Follower" \/ x = e.node
        BY <2>1, HistoryTypes, ChangeValues DEF NodeInv, QuorumsHold
  <2>  QED BY <1>3, <2>2, <2>3, <2>4 DEF NodeInv, QuorumsHold
<1>  QED BY <1>4, <1>5, <1>7, <1>8 DEF NodeInv

\* Case 4: nothing changes.
LEMMA NoChange ==
    ASSUME HistoryTypeOK, NodeInv, Record,
           NEW n \in Nodes,
           Change(n, currentTerm[n], votedFor[n], state[n], votes[n])
    PROVE  NodeInv' /\ granted' = granted /\ elected' = elected
<1>1. granted' = granted
  <2>1. granted' = granted \cup (IF votedFor[n] # Nil
                                 THEN {VoteOf(n, currentTerm[n], votedFor[n])} ELSE {})
        BY HistoryTypes, GrantedNext DEF NodeInv
  <2>  QED BY <2>1 DEF NodeInv, VotesRecorded, Granted, VoteOf
<1>2. elected' = elected
  <2>1. elected' = elected \cup (IF state[n] = "Leader"
                                 THEN {WinOf(n, currentTerm[n], votes[n])} ELSE {})
        BY HistoryTypes, ElectedNext DEF NodeInv
  <2>  QED BY <2>1 DEF NodeInv, LeadersRecorded, WinOf
<1>3. UNCHANGED <<currentTerm, votedFor, state, votes>>
      BY HistoryTypes DEF Change, TypeOK, ElectionTypes
<1>  QED BY <1>1, <1>2, <1>3 DEF NodeInv, VotesRecorded, LeadersRecorded,
            VotesUnique, QuorumsHold, Granted

\* Case 5: a restart makes a follower of a node that keeps its term and vote.
LEMMA FallSilent ==
    ASSUME HistoryTypeOK, NodeInv, Record,
           NEW n \in Nodes, Change(n, currentTerm[n], votedFor[n], "Follower", {})
    PROVE  NodeInv' /\ granted' = granted /\ elected' = elected
<1>1. granted' = granted
  <2>1. granted' = granted \cup (IF votedFor[n] # Nil
                                 THEN {VoteOf(n, currentTerm[n], votedFor[n])} ELSE {})
        BY HistoryTypes, GrantedNext DEF NodeInv
  <2>  QED BY <2>1 DEF NodeInv, VotesRecorded, Granted, VoteOf
<1>2. elected' = elected
  <2>1. "Follower" # "Leader"
        OBVIOUS
  <2>  QED BY <2>1, HistoryTypes, ElectedSame DEF NodeInv
<1>3. VotesRecorded' /\ LeadersRecorded'
      BY <1>1, <1>2, HistoryTypes, ChangeValues
         DEF NodeInv, VotesRecorded, LeadersRecorded, Granted
<1>4. VotesUnique'
      BY <1>1, <1>2, HistoryTypes, ChangeValues DEF NodeInv, VotesUnique
<1>5. QuorumsHold'
      BY <1>1, <1>2, HistoryTypes, ChangeValues DEF NodeInv, QuorumsHold, Granted
<1>  QED BY <1>1, <1>2, <1>3, <1>4, <1>5 DEF NodeInv

\* Case 6a: a candidate counts a vote and needs more.
LEMMA CountVote ==
    ASSUME HistoryTypeOK, NodeInv, Record,
           NEW n \in Nodes, NEW w \in Nodes,
           Change(n, currentTerm[n], votedFor[n], "Candidate", votes[n] \cup {w}),
           state[n] = "Candidate", Granted(w, currentTerm[n], n)
    PROVE  NodeInv' /\ granted' = granted /\ elected' = elected
<1>1. granted' = granted
  <2>1. granted' = granted \cup (IF votedFor[n] # Nil
                                 THEN {VoteOf(n, currentTerm[n], votedFor[n])} ELSE {})
        BY HistoryTypes, GrantedNext DEF NodeInv
  <2>  QED BY <2>1 DEF NodeInv, VotesRecorded, Granted, VoteOf
<1>2. elected' = elected
  <2>1. "Candidate" # "Leader"
        OBVIOUS
  <2>  QED BY <2>1, HistoryTypes, ElectedSame DEF NodeInv
<1>3. VotesRecorded' /\ LeadersRecorded'
      BY SMTT(60), <1>1, <1>2, HistoryTypes, ChangeValues
         DEF NodeInv, VotesRecorded, LeadersRecorded, Granted
<1>4. VotesUnique'
      BY SMTT(60), <1>1, <1>2, HistoryTypes, ChangeValues DEF NodeInv, VotesUnique
<1>5. QuorumsHold'
      BY <1>1, <1>2, HistoryTypes, ChangeValues DEF NodeInv, QuorumsHold, Granted
<1>  QED BY <1>1, <1>2, <1>3, <1>4, <1>5 DEF NodeInv

\* Case 6b: the vote completes a majority.
LEMMA WinElection ==
    ASSUME HistoryTypeOK, NodeInv, Record,
           NEW n \in Nodes, NEW w \in Nodes,
           Change(n, currentTerm[n], votedFor[n], "Leader", votes[n] \cup {w}),
           state[n] = "Candidate", Granted(w, currentTerm[n], n),
           IsQuorum(votes[n] \cup {w} \cup {n})
    PROVE  NodeInv' /\ granted' = granted
<1>  DEFINE t == currentTerm[n]
            Q == votes[n] \cup {w} \cup {n}
            win == [term |-> t, node |-> n, quorum |-> Q]
<1>1. granted' = granted
  <2>1. granted' = granted \cup (IF votedFor[n] # Nil
                                 THEN {VoteOf(n, currentTerm[n], votedFor[n])} ELSE {})
        BY HistoryTypes, GrantedNext DEF NodeInv
  <2>  QED BY <2>1 DEF NodeInv, VotesRecorded, Granted, VoteOf
<1>2. elected' = elected \cup {win}
  <2>1. elected' = elected \cup (IF "Leader" = "Leader"
                                 THEN {WinOf(n, currentTerm[n], votes[n] \cup {w})} ELSE {})
        BY HistoryTypes, ElectedNext DEF NodeInv
  <2>  QED BY <2>1 DEF WinOf
<1>3. votedFor[n] = n /\ Q \subseteq Nodes
      BY HistoryTypes DEF NodeInv, VotesRecorded, TypeOK, ElectionTypes
<1>4. \A x \in Q : Granted(x, t, n)
      BY <1>3, HistoryTypes DEF NodeInv, VotesRecorded
<1>5. \A f \in elected : f.term # t
  <2>  SUFFICES ASSUME NEW f \in elected, f.term = t PROVE FALSE
       OBVIOUS
  <2>1. PICK x \in Nodes : x \in Q /\ x \in f.quorum
        BY <1>3, HistoryTypes, QuorumsMeet DEF NodeInv, QuorumsHold
  <2>2. f.node = n
        BY ZenonT(60), <2>1, <1>4 DEF NodeInv, QuorumsHold, Granted
  <2>  QED BY <2>2, HistoryTypes DEF NodeInv, LeadersRecorded
<1>  HIDE DEF Q
<1>6. VotesRecorded' /\ LeadersRecorded'
  <2>1. VotesRecorded'
        BY SMTT(60), <1>1, <1>3, HistoryTypes, ChangeValues DEF NodeInv, VotesRecorded, Granted
  <2>2. \A x \in Nodes : state'[x] = "Leader" =>
          [term |-> currentTerm'[x], node |-> x, quorum |-> votes'[x] \cup {x}] \in elected'
    <3>1. votes'[n] \cup {n} = Q /\ currentTerm'[n] = t
          BY HistoryTypes, ChangeValues DEF Q
    <3>2. ASSUME NEW x \in Nodes, x # n, state'[x] = "Leader"
          PROVE  [term |-> currentTerm'[x], node |-> x, quorum |-> votes'[x] \cup {x}] \in elected
          BY <3>2, HistoryTypes, ChangeValues DEF NodeInv, LeadersRecorded
    <3>  QED BY <1>2, <3>1, <3>2
  <2>3. \A e \in elected' :
          \/ currentTerm'[e.node] > e.term
          \/ currentTerm'[e.node] = e.term /\ state'[e.node] # "Candidate"
        BY SMTT(60), <1>2, HistoryTypes, ChangeValues DEF NodeInv, LeadersRecorded
  <2>  QED BY <2>1, <2>2, <2>3 DEF LeadersRecorded
<1>7. VotesUnique'
      BY SMTT(60), <1>1, <1>2, HistoryTypes, ChangeValues DEF NodeInv, VotesUnique
<1>8. \A x \in Q : /\ \A g \in granted : g.voter = x /\ g.term = t => g.candidate = n
                   /\ \/ currentTerm[x] > t
                      \/ currentTerm[x] = t /\ votedFor[x] = n
  <2>  SUFFICES ASSUME NEW x \in Q
                PROVE  /\ \A g \in granted : g.voter = x /\ g.term = t => g.candidate = n
                       /\ \/ currentTerm[x] > t
                          \/ currentTerm[x] = t /\ votedFor[x] = n
       OBVIOUS
  <2>1. VoteOf(x, t, n) \in granted /\ x \in Nodes
        BY <1>3, <1>4 DEF Granted, VoteOf
  <2>2. t <= currentTerm[x]
        BY <2>1 DEF NodeInv, VotesRecorded, VoteOf
  <2>  QED BY <2>1, <2>2, <1>5, HistoryTypes DEF NodeInv, VotesUnique, VoteOf
<1>9. QuorumsHold'
  <2>1. ASSUME NEW x \in Q
        PROVE  \/ currentTerm'[x] > t
               \/ /\ currentTerm'[x] = t
                  /\ votedFor'[x] = n
                  /\ state'[x] = "Follower" \/ x = n
    <3>1. x \in Nodes
          BY <1>3
    <3>2. CASE x = n
          BY <3>2, <1>3, HistoryTypes, ChangeValues
    <3>3. CASE x # n
          BY SMTT(60), <3>1, <3>3, <1>8, HistoryTypes, ChangeValues DEF NodeInv, VotesRecorded
    <3>  QED BY <3>2, <3>3
  <2>2. \A f \in elected : \A x \in f.quorum :
            \/ currentTerm'[x] > f.term
            \/ /\ currentTerm'[x] = f.term
               /\ votedFor'[x] = f.node
               /\ state'[x] = "Follower" \/ x = f.node
        BY <1>5, HistoryTypes, ChangeValues DEF NodeInv, QuorumsHold
  <2>3. IsQuorum(Q)
        BY DEF Q
  <2>  QED BY SMTT(60), <1>1, <1>2, <1>4, <1>8, <2>1, <2>2, <2>3 DEF NodeInv, QuorumsHold, Granted
<1>  QED BY <1>1, <1>6, <1>7, <1>9 DEF NodeInv

------------------------------------------------------------------------------
(* The handlers *)

\* The inductive invariant, with what concerns the nodes alone taken together.
StepInv == NodeInv /\ MessagesRecorded

\* A message that was there before needs no proof: the record only grows.
LEMMA OldMessages ==
    ASSUME MessagesRecorded, Record, NEW m \in msgs
    PROVE  /\ m.type = "voted" /\ m.granted => Granted(m.from, m.sent, m.to)'
           /\ m.type = "append" =>
                 /\ m.from # m.to
                 /\ \E e \in elected' : e.term = m.term /\ e.node = m.from
BY DEF MessagesRecorded, Record, Granted

\* becomeFollowerLocked with a higher term.
LEMMA BecomeFollowerHigher ==
    ASSUME HistoryTypeOK, NodeInv, Record, NEW n \in Nodes, NEW t \in Nat,
           BecomeFollower(n, t), t > currentTerm[n]
    PROVE  NodeInv'
<1>1. Change(n, t, Nil, "Follower", {})
      BY DEF BecomeFollower, Change
<1>  QED BY <1>1, HigherTerm

\* The steps that leave every node's term, vote, role and tally alone.
LEMMA Quiet ==
    ASSUME HistoryTypeOK, NodeInv, Record, UNCHANGED electionVars, NEW n \in Nodes
    PROVE  NodeInv'
<1>1. Change(n, currentTerm[n], votedFor[n], state[n], votes[n])
      BY HistoryTypes DEF Change, electionVars, TypeOK, ElectionTypes
<1>  QED BY <1>1, NoChange

\* startElection is a change to a higher term.
LEMMA StartElectionInv ==
    ASSUME HistoryTypeOK, StepInv, Record, NEW n \in Nodes, StartElection(n)
    PROVE  StepInv'
<1>1. Change(n, currentTerm[n] + 1, n, "Candidate", {})
      BY DEF StartElection, Change
<1>2. NodeInv'
  <2>1. currentTerm[n] + 1 \in Nat /\ currentTerm[n] + 1 > currentTerm[n]
        BY HistoryTypes
  <2>  QED BY <1>1, <2>1, HigherTerm DEF StepInv
<1>3. MessagesRecorded'
  <2>1. \A m \in msgs' : m \in msgs \/ m.type = "vote"
        BY SMTT(60) DEF StartElection
  <2>  QED BY <2>1, OldMessages DEF StepInv, MessagesRecorded
<1>  QED BY <1>2, <1>3 DEF StepInv

\* handleRequestVote: a higher term, a first vote or no change; a granting reply
\* is sent for a vote that is on record.
LEMMA HandleRequestVoteInv ==
    ASSUME HistoryTypeOK, StepInv, Record, NEW n \in Nodes, NEW m \in msgs,
           HandleRequestVote(n, m)
    PROVE  StepInv'
<1>  DEFINE vf    == IF m.term > currentTerm[n] THEN Nil ELSE votedFor[n]
            grant == /\ m.term >= currentTerm[n]
                     /\ vf \in {Nil, m.from}
                     /\ UpToDate(m, log[n])
            term  == IF m.term > currentTerm[n] THEN m.term ELSE currentTerm[n]
            reply == [type |-> "voted", from |-> n, to |-> m.from,
                      sent |-> m.term, term |-> term, granted |-> grant]
<1>1. m.from \in Nodes /\ m.term \in Nat /\ currentTerm[n] \in Nat
      BY HistoryTypes, MessageTypes DEF HandleRequestVote, VoteRequest
<1>2. /\ currentTerm' = [currentTerm EXCEPT ![n] = term]
      /\ votedFor' = [votedFor EXCEPT ![n] = IF grant THEN m.from ELSE vf]
      /\ IF m.term > currentTerm[n]
         THEN /\ state' = [state EXCEPT ![n] = "Follower"]
              /\ votes' = [votes EXCEPT ![n] = {}]
         ELSE UNCHANGED <<state, votes>>
      /\ msgs' \subseteq msgs \cup {reply}
      BY DEF HandleRequestVote, Exchange
<1>3. grant => term = m.term
      BY SMTT(60), <1>1
<1>4. NodeInv'
  <2>1. CASE m.term > currentTerm[n]
    <3>1. Change(n, m.term, IF grant THEN m.from ELSE Nil, "Follower", {})
          BY <2>1, <1>2 DEF Change
    <3>  HIDE DEF grant
    <3>  QED BY <3>1, <2>1, <1>1, HigherTerm DEF StepInv
  <2>2. CASE ~(m.term > currentTerm[n]) /\ grant /\ votedFor[n] = Nil
    <3>1. Change(n, currentTerm[n], m.from, state[n], votes[n])
          BY <2>2, <1>2, HistoryTypes DEF Change, TypeOK, ElectionTypes
    <3>  QED BY <3>1, <2>2, <1>1, FirstVote DEF StepInv
  <2>3. CASE ~(m.term > currentTerm[n]) /\ ~(grant /\ votedFor[n] = Nil)
    <3>1. (IF grant THEN m.from ELSE vf) = votedFor[n]
          BY <2>3
    <3>2. Change(n, currentTerm[n], votedFor[n], state[n], votes[n])
          BY <3>1, <2>3, <1>2, HistoryTypes DEF Change, TypeOK, ElectionTypes
    <3>  QED BY <3>2, NoChange DEF StepInv
  <2>  QED BY <2>1, <2>2, <2>3
<1>5. ASSUME grant PROVE Granted(n, m.term, m.from)'
  <2>1. votedFor'[n] = m.from /\ currentTerm'[n] = m.term
        BY <1>2, <1>3, <1>5, HistoryTypes DEF TypeOK, ElectionTypes
  <2>  QED BY <2>1, <1>1, <1>4, HistoryTypes DEF NodeInv, VotesRecorded, Granted
<1>6. MessagesRecorded'
  <2>  SUFFICES ASSUME NEW x \in msgs'
                PROVE  /\ x.type = "voted" /\ x.granted => Granted(x.from, x.sent, x.to)'
                       /\ x.type = "append" =>
                             /\ x.from # x.to
                             /\ \E e \in elected' : e.term = x.term /\ e.node = x.from
       BY DEF MessagesRecorded
  <2>1. CASE x \in msgs
        BY <2>1, OldMessages DEF StepInv
  <2>2. CASE x = reply
        BY <2>2, <1>5
  <2>  QED BY <2>1, <2>2, <1>2
<1>  QED BY <1>4, <1>6 DEF StepInv

\* The vote goroutine of startElection: a higher term, a vote counted, an
\* election won, or no change.
LEMMA HandleVoteReplyInv ==
    ASSUME HistoryTypeOK, StepInv, Record, NEW n \in Nodes, NEW m \in msgs,
           HandleVoteReply(n, m)
    PROVE  StepInv'
<1>1. /\ m.type = "voted" /\ m.to = n
      /\ m.from \in Nodes /\ m.term \in Nat /\ currentTerm[n] \in Nat
      BY HistoryTypes, MessageTypes DEF HandleVoteReply, VoteReply
<1>2. MessagesRecorded'
  <2>1. msgs' \subseteq msgs
        BY DEF HandleVoteReply, Exchange
  <2>  QED BY <2>1, OldMessages DEF StepInv, MessagesRecorded
<1>3. CASE m.term > currentTerm[n]
  <2>1. BecomeFollower(n, m.term)
        BY <1>1, <1>3 DEF HandleVoteReply
  <2>  QED BY <2>1, <1>1, <1>2, <1>3, BecomeFollowerHigher DEF StepInv
<1>4. CASE /\ m.term <= currentTerm[n]
            /\ m.granted /\ m.sent = currentTerm[n] /\ state[n] = "Candidate"
  <2>1. Granted(m.from, currentTerm[n], n)
        BY <1>1, <1>4 DEF StepInv, MessagesRecorded
  <2>2. /\ votes' = [votes EXCEPT ![n] = votes[n] \cup {m.from}]
        /\ UNCHANGED <<currentTerm, votedFor>>
        /\ \/ /\ IsQuorum(votes[n] \cup {m.from} \cup {n})
              /\ state' = [state EXCEPT ![n] = "Leader"]
           \/ UNCHANGED state
        BY SMTT(60), <1>1, <1>4 DEF HandleVoteReply, BecomeLeader
  <2>3. CASE /\ IsQuorum(votes[n] \cup {m.from} \cup {n})
             /\ state' = [state EXCEPT ![n] = "Leader"]
    <3>1. Change(n, currentTerm[n], votedFor[n], "Leader", votes[n] \cup {m.from})
          BY <2>2, <2>3, HistoryTypes DEF Change, TypeOK, ElectionTypes
    <3>  QED BY <3>1, <2>1, <2>3, <1>1, <1>2, <1>4, WinElection DEF StepInv
  <2>4. CASE UNCHANGED state
    <3>1. Change(n, currentTerm[n], votedFor[n], "Candidate", votes[n] \cup {m.from})
          BY <2>2, <2>4, <1>4, HistoryTypes DEF Change, TypeOK, ElectionTypes
    <3>  QED BY <3>1, <2>1, <1>1, <1>2, <1>4, CountVote DEF StepInv
  <2>  QED BY <2>2, <2>3, <2>4
<1>5. CASE /\ m.term <= currentTerm[n]
            /\ ~(m.granted /\ m.sent = currentTerm[n] /\ state[n] = "Candidate")
  <2>1. UNCHANGED electionVars
        BY SMTT(60), <1>1, <1>5 DEF HandleVoteReply, electionVars
  <2>  QED BY <2>1, <1>2, Quiet DEF StepInv
<1>  QED BY <1>1, <1>3, <1>4, <1>5

\* handleAppendEntries: the vote cleared within a term is that of a candidate
\* which has met the leader of the term.
LEMMA HandleAppendEntriesInv ==
    ASSUME HistoryTypeOK, StepInv, Record, NEW n \in Nodes, NEW m \in msgs,
           HandleAppendEntries(n, m)
    PROVE  StepInv'
<1>1. /\ m.type = "append" /\ m.to = n
      /\ m.from \in Nodes /\ m.term \in Nat /\ currentTerm[n] \in Nat
      BY HistoryTypes, MessageTypes DEF HandleAppendEntries, AppendRequest
<1>2. MessagesRecorded'
  <2>1. \A x \in msgs' : x \in msgs \/ x.type = "appended"
        BY SMTT(60) DEF HandleAppendEntries
  <2>  QED BY <2>1, OldMessages DEF StepInv, MessagesRecorded
<1>3. IF ~(m.term < currentTerm[n]) /\ (m.term > currentTerm[n] \/ state[n] # "Follower")
      THEN BecomeFollower(n, m.term)
      ELSE UNCHANGED electionVars
      BY DEF HandleAppendEntries, electionVars
<1>4. CASE m.term > currentTerm[n]
  <2>1. BecomeFollower(n, m.term)
        BY <1>1, <1>3, <1>4
  <2>  QED BY <2>1, <1>1, <1>2, <1>4, BecomeFollowerHigher DEF StepInv
<1>5. CASE m.term = currentTerm[n] /\ state[n] # "Follower"
  <2>1. PICK e \in elected : e.term = m.term /\ e.node = m.from
        BY <1>1 DEF StepInv, MessagesRecorded
  <2>2. m.from # n
        BY <1>1 DEF StepInv, MessagesRecorded
  <2>3. Change(n, currentTerm[n], Nil, "Follower", {})
        BY <1>1, <1>3, <1>5 DEF BecomeFollower, Change
  <2>  QED BY <2>1, <2>2, <2>3, <1>2, <1>5, MeetLeader DEF StepInv
<1>6. CASE m.term < currentTerm[n] \/ (m.term = currentTerm[n] /\ state[n] = "Follower")
  <2>1. UNCHANGED electionVars
        BY <1>1, <1>3, <1>6
  <2>  QED BY <2>1, <1>2, Quiet DEF StepInv
<1>  QED BY <1>1, <1>4, <1>5, <1>6

\* The reply in replicateTo: a higher term or no change.
LEMMA HandleAppendReplyInv ==
    ASSUME HistoryTypeOK, StepInv, Record, NEW n \in Nodes, NEW m \in msgs,
           HandleAppendReply(n, m)
    PROVE  StepInv'
<1>1. m.term \in Nat /\ currentTerm[n] \in Nat
      BY HistoryTypes, MessageTypes DEF HandleAppendReply, AppendReply
<1>2. MessagesRecorded'
  <2>1. msgs' = msgs
        BY DEF HandleAppendReply
  <2>  QED BY <2>1, OldMessages DEF StepInv, MessagesRecorded
<1>3. \/ m.term > currentTerm[n] /\ BecomeFollower(n, m.term)
      \/ UNCHANGED electionVars
      BY DEF HandleAppendReply, electionVars
<1>4. CASE m.term > currentTerm[n] /\ BecomeFollower(n, m.term)
      BY <1>1, <1>2, <1>4, BecomeFollowerHigher DEF StepInv
<1>5. CASE UNCHANGED electionVars
      BY <1>2, <1>5, Quiet DEF StepInv
<1>  QED BY <1>3, <1>4, <1>5

\* A leader's request names an election that is on record.
LEMMA ReplicateToInv ==
    ASSUME HistoryTypeOK, StepInv, Record, NEW n \in Nodes, NEW p \in Nodes,
           ReplicateTo(n, p)
    PROVE  StepInv'
<1>1. NodeInv'
      BY Quiet DEF StepInv, ReplicateTo
<1>2. [term |-> currentTerm[n], node |-> n, quorum |-> votes[n] \cup {n}] \in elected'
      BY DEF ReplicateTo, StepInv, NodeInv, LeadersRecorded, Record
<1>3. \E e \in elected' : e.term = currentTerm[n] /\ e.node = n
      BY <1>2
<1>4. MessagesRecorded'
  <2>1. \A m \in msgs' : \/ m \in msgs
                         \/ m.type = "append" /\ m.from = n /\ m.to = p /\ m.term = currentTerm[n]
        BY SMTT(60) DEF ReplicateTo
  <2>2. n # p
        BY DEF ReplicateTo, Peers
  <2>  QED BY <2>1, <2>2, <1>3, OldMessages DEF StepInv, MessagesRecorded
<1>  QED BY <1>1, <1>4 DEF StepInv

\* Propose changes no vote.
LEMMA ProposeInv ==
    ASSUME HistoryTypeOK, StepInv, Record, NEW n \in Nodes, Propose(n)
    PROVE  StepInv'
<1>1. NodeInv'
      BY Quiet DEF StepInv, Propose
<1>2. MessagesRecorded'
      BY OldMessages DEF StepInv, MessagesRecorded, Propose
<1>  QED BY <1>1, <1>2 DEF StepInv

\* A lost RPC changes no vote.
LEMMA RpcFailInv ==
    ASSUME HistoryTypeOK, StepInv, Record, NEW m \in msgs, RpcFail(m)
    PROVE  StepInv'
<1>1. m.from \in Nodes
      BY HistoryTypes, MessageTypes
         DEF Message, VoteRequest, AppendRequest, VoteReply, AppendReply
<1>2. NodeInv'
      BY <1>1, Quiet DEF StepInv, RpcFail
<1>3. msgs' \subseteq msgs
      BY DEF RpcFail, Exchange
<1>4. MessagesRecorded'
      BY <1>3, OldMessages DEF StepInv, MessagesRecorded
<1>  QED BY <1>2, <1>4 DEF StepInv

\* After a restart the requests of the node stay what they were but for the
\* caller that waits for the reply.
LEMMA RestartInv ==
    ASSUME HistoryTypeOK, StepInv, Record, NEW n \in Nodes, Restart(n)
    PROVE  StepInv'
<1>1. Change(n, currentTerm[n], votedFor[n], "Follower", {})
      BY HistoryTypes DEF Restart, Change, TypeOK, ElectionTypes
<1>2. NodeInv'
      BY <1>1, FallSilent DEF StepInv
<1>3. ASSUME NEW x \in msgs'
      PROVE  /\ x.type = "voted" /\ x.granted => Granted(x.from, x.sent, x.to)'
             /\ x.type = "append" =>
                   /\ x.from # x.to
                   /\ \E e \in elected' : e.term = x.term /\ e.node = x.from
  <2>1. PICK m \in msgs :
           x = IF m.type \in {"vote", "append"} /\ m.from = n
               THEN [m EXCEPT !.live = FALSE] ELSE m
        BY <1>3 DEF Restart
  <2>2. CASE x = m
        BY <2>2, OldMessages DEF StepInv
  <2>3. CASE m.type = "vote" /\ x = [m EXCEPT !.live = FALSE]
    <3>1. m \in VoteRequest
          BY <2>3, HistoryTypes, MessageTypes
    <3>2. x.type = "vote"
          BY <2>3, <3>1 DEF VoteRequest
    <3>  QED BY <3>2
  <2>4. CASE m.type = "append" /\ x = [m EXCEPT !.live = FALSE]
    <3>1. m \in AppendRequest
          BY <2>4, HistoryTypes, MessageTypes
    <3>2. x.type = "append" /\ x.from = m.from /\ x.to = m.to /\ x.term = m.term
          BY <2>4, <3>1 DEF AppendRequest
    <3>  QED BY <2>4, <3>2, OldMessages DEF StepInv
  <2>  QED BY <2>1, <2>2, <2>3, <2>4
<1>4. MessagesRecorded'
      BY <1>3 DEF MessagesRecorded
<1>  QED BY <1>2, <1>4 DEF StepInv

------------------------------------------------------------------------------
(* The theorem *)

\* The record is of its type, whatever the nodes do.
LEMMA RecordTypes ==
    ASSUME HistoryTypeOK, TypeOK', Record
    PROVE  HistoryTypeOK'
<1>1. /\ currentTerm' \in [Nodes -> Nat]
      /\ votedFor' \in [Nodes -> Nodes \cup {Nil}]
      /\ votes' \in [Nodes -> SUBSET Nodes]
      BY DEF TypeOK, ElectionTypes
<1>2. VotesNow' \subseteq Vote
      BY <1>1 DEF VotesNow, Vote
<1>3. LeadersNow' \subseteq Election
      BY <1>1 DEF LeadersNow, Election
<1>  QED BY <1>2, <1>3 DEF HistoryTypeOK, Record

\* The invariant holds at the start: nobody has voted.
LEMMA ElectionInit == ElectionsInit => HistoryTypeOK /\ ElectionInv
<1>  SUFFICES ASSUME ElectionsInit PROVE HistoryTypeOK /\ ElectionInv
     OBVIOUS
<1>1. HistoryTypeOK
      BY TypeInit DEF ElectionsInit, HistoryTypeOK
<1>2. ElectionInv
      BY DEF ElectionsInit, Init, ElectionInv, VotesRecorded, LeadersRecorded,
             MessagesRecorded, VotesUnique, QuorumsHold
<1>  QED BY <1>1, <1>2

\* Every step keeps it.
LEMMA ElectionStep ==
    HistoryTypeOK /\ ElectionInv /\ [ElectionsNext]_electionSpecVars
        => (HistoryTypeOK /\ ElectionInv)'
<1>  SUFFICES ASSUME HistoryTypeOK, ElectionInv, [ElectionsNext]_electionSpecVars
              PROVE  (HistoryTypeOK /\ ElectionInv)'
     OBVIOUS
<1>  USE DEF ElectionInv
<1>1. CASE UNCHANGED electionSpecVars
      BY ZenonT(60), <1>1 DEF electionSpecVars, historyVars, vars, electionVars, logVars,
             HistoryTypeOK, TypeOK, ElectionTypes, LogTypes, VotesRecorded,
             LeadersRecorded, MessagesRecorded, VotesUnique, QuorumsHold, Granted
<1>2. CASE ElectionsNext
  <2>1. Next /\ Record
        BY <1>2 DEF ElectionsNext
  <2>2. HistoryTypeOK'
    <3>1. TypeOK'
          BY <2>1, TypeStep DEF HistoryTypeOK
    <3>  QED BY <3>1, <2>1, RecordTypes
  <2>3. StepInv
        BY DEF StepInv, NodeInv
  <2>4. StepInv'
    <3>1. ASSUME NEW n \in Nodes, StartElection(n) PROVE StepInv'
          BY <2>1, <2>3, <3>1, StartElectionInv
    <3>2. ASSUME NEW n \in Nodes, Propose(n) PROVE StepInv'
          BY <2>1, <2>3, <3>2, ProposeInv
    <3>3. ASSUME NEW n \in Nodes, Restart(n) PROVE StepInv'
          BY <2>1, <2>3, <3>3, RestartInv
    <3>4. ASSUME NEW n \in Nodes, NEW p \in Nodes, ReplicateTo(n, p) PROVE StepInv'
          BY <2>1, <2>3, <3>4, ReplicateToInv
    <3>5. ASSUME NEW n \in Nodes, NEW m \in msgs, HandleRequestVote(n, m) PROVE StepInv'
          BY <2>1, <2>3, <3>5, HandleRequestVoteInv
    <3>6. ASSUME NEW n \in Nodes, NEW m \in msgs, HandleVoteReply(n, m) PROVE StepInv'
          BY <2>1, <2>3, <3>6, HandleVoteReplyInv
    <3>7. ASSUME NEW n \in Nodes, NEW m \in msgs, HandleAppendEntries(n, m) PROVE StepInv'
          BY <2>1, <2>3, <3>7, HandleAppendEntriesInv
    <3>8. ASSUME NEW n \in Nodes, NEW m \in msgs, HandleAppendReply(n, m) PROVE StepInv'
          BY <2>1, <2>3, <3>8, HandleAppendReplyInv
    <3>9. ASSUME NEW m \in msgs, RpcFail(m) PROVE StepInv'
          BY <2>1, <2>3, <3>9, RpcFailInv
    <3>  QED BY <2>1, <3>1, <3>2, <3>3, <3>4, <3>5, <3>6, <3>7, <3>8, <3>9 DEF Next
  <2>  QED BY <2>2, <2>4 DEF StepInv, NodeInv
<1>  QED BY <1>1, <1>2

\* The invariant of the elections: the record agrees with the nodes and with
\* the messages, and the quorums of past elections hold on to their votes.
THEOREM ElectionInvariant == ElectionsSpec => [](HistoryTypeOK /\ ElectionInv)
BY ElectionInit, ElectionStep, PTL DEF ElectionsSpec

\* No two nodes win an election of the same term, for any number of nodes,
\* although becomeFollowerLocked clears the vote within a term: a node that
\* loses its vote this way was a candidate and is in no quorum but its own.
THEOREM ElectionSafe == ElectionsSpec => []ElectionSafety
<1>1. HistoryTypeOK /\ ElectionInv => ElectionSafety
      BY InvImpliesSafety DEF ElectionInv
<1>  QED BY <1>1, ElectionInvariant, PTL
==============================================================================
