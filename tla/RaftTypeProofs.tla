--------------------------- MODULE RaftTypeProofs ----------------------------
(* Type correctness of the Raft nodes, for every set of nodes. *)
EXTENDS Raft, NatBounds, TLAPS

\* The messages with the fields of their kind.
LEMMA MessageTypes ==
    ASSUME TypeOK, NEW m \in msgs
    PROVE  /\ m \in Message
           /\ m.type = "vote"     => m \in VoteRequest
           /\ m.type = "append"   => m \in AppendRequest
           /\ m.type = "voted"    => m \in VoteReply
           /\ m.type = "appended" => m \in AppendReply
BY DEF TypeOK, Message, VoteRequest, AppendRequest, VoteReply, AppendReply

\* log.go LastTerm: a term, 0 for an empty log.
LEMMA LastTermType == ASSUME NEW l \in Seq(Entry) PROVE LastTerm(l) \in Nat
<1>1. CASE l = <<>>
      BY <1>1 DEF LastTerm
<1>2. CASE l # <<>>
  <2>1. Len(l) \in 1 .. Len(l)
        BY <1>2
  <2>2. l[Len(l)] \in Entry
        BY <2>1
  <2>3. l[Len(l)].term \in Nat
        BY <2>2 DEF Entry
  <2>  QED BY <2>3, <1>2 DEF LastTerm
<1>  QED BY <1>1, <1>2

\* AppendNew returns a log.
LEMMA AppendNewType ==
    ASSUME NEW l \in Seq(Entry), NEW es \in Seq(Entry), NEW prev \in 0 .. Len(l)
    PROVE  AppendNew(l, prev, es) \in Seq(Entry)
<1>  DEFINE differs(i) == prev + i > Len(l) \/ l[prev + i].term # es[i].term
            D == {i \in 1 .. Len(es) : differs(i)}
<1>1. CASE D = {}
      BY <1>1 DEF AppendNew
<1>2. CASE D # {}
  <2>  DEFINE d == CHOOSE i \in D : \A j \in D : i <= j
  <2>1. D \subseteq Nat
        OBVIOUS
  <2>2. \E i \in D : \A j \in D : i <= j
        BY <2>1, <1>2, LeastExists
  <2>3. d \in D /\ \A j \in D : d <= j
        BY <2>2
  <2>4. d \in 1 .. Len(es)
        BY <2>3
  <2>5. AppendNew(l, prev, es) = SubSeq(l, 1, prev + d - 1) \o SubSeq(es, d, Len(es))
        BY <1>2 DEF AppendNew
  <2>  HIDE DEF d
  <2>6. ASSUME NEW j \in 1 .. Len(es), j < d PROVE prev + j <= Len(l)
    <3>1. j \notin D
          BY <2>6, <2>3, <2>4
    <3>  QED BY <3>1
  <2>  HIDE DEF D
  <2>7. prev + d - 1 <= Len(l)
    <3>1. CASE d = 1
          BY <3>1
    <3>2. CASE d # 1
      <4>1. d - 1 \in 1 .. Len(es) /\ d - 1 < d
            BY <3>2, <2>4
      <4>  QED BY <4>1, <2>6, <2>4
    <3>  QED BY <3>1, <3>2
  <2>8. SubSeq(l, 1, prev + d - 1) \in Seq(Entry)
        BY <2>4, <2>7
  <2>9. SubSeq(es, d, Len(es)) \in Seq(Entry)
        BY <2>4
  <2>  QED BY <2>5, <2>8, <2>9
<1>  QED BY <1>1, <1>2

\* handleAppendEntries leaves a log.
LEMMA LogAfterType ==
    ASSUME NEW l \in Seq(Entry), NEW m \in AppendRequest
    PROVE  LogAfter(l, m) \in Seq(Entry)
<1>1. m.prevIndex \in Nat /\ m.entries \in Seq(Entry)
      BY DEF AppendRequest
<1>2. CASE m.prevIndex > Len(l)
      BY <1>2 DEF LogAfter
<1>3. CASE m.prevIndex <= Len(l) /\ m.prevIndex > 0 /\ l[m.prevIndex].term # m.prevTerm
  <2>1. SubSeq(l, 1, m.prevIndex - 1) \in Seq(Entry)
        BY <1>1, <1>3
  <2>  QED BY <2>1, <1>1, <1>3 DEF LogAfter
<1>4. CASE m.prevIndex <= Len(l) /\ ~(m.prevIndex > 0 /\ l[m.prevIndex].term # m.prevTerm)
  <2>1. AppendNew(l, m.prevIndex, m.entries) \in Seq(Entry)
        BY <1>1, <1>4, AppendNewType
  <2>  QED BY <2>1, <1>1, <1>4 DEF LogAfter
<1>  QED BY <1>1, <1>2, <1>3, <1>4

\* advanceCommitIndexLocked yields an index.
LEMMA AdvanceType ==
    ASSUME TypeOK, NEW n \in Nodes, NEW mi
    PROVE  Advance(n, mi) \in Nat
<1>  DEFINE agree(i) == {n} \cup {p \in Peers(n) : mi[p] >= i}
            C == {i \in commitIndex[n] + 1 .. Len(log[n]) :
                    /\ log[n][i].term = currentTerm[n]
                    /\ Cardinality(agree(i)) > Cardinality(Nodes) \div 2}
<1>1. commitIndex[n] \in Nat /\ Len(log[n]) \in Nat
      BY DEF TypeOK, LogTypes
<1>2. CASE C = {}
      BY <1>1, <1>2 DEF Advance
<1>3. CASE C # {}
  <2>1. C \subseteq Nat /\ \A i \in C : i <= Len(log[n])
        BY <1>1
  <2>  HIDE DEF C
  <2>2. \E i \in C : \A j \in C : i >= j
        BY <2>1, <1>1, <1>3, GreatestExists
  <2>3. (CHOOSE i \in C : \A j \in C : i >= j) \in C
        BY <2>2
  <2>4. Advance(n, mi) = CHOOSE i \in C : \A j \in C : i >= j
        BY <1>3 DEF Advance, C
  <2>  QED BY <2>1, <2>3, <2>4
<1>  QED BY <1>2, <1>3

\* becomeFollowerLocked with any term keeps the types.
LEMMA BecomeFollowerTypes ==
    ASSUME ElectionTypes, NEW n \in Nodes, NEW t \in Nat, BecomeFollower(n, t)
    PROVE  ElectionTypes'
BY DEF ElectionTypes, BecomeFollower

\* startElection sends well-formed requests and keeps the types.
LEMMA StartElectionTypes ==
    ASSUME TypeOK, NEW n \in Nodes, StartElection(n)
    PROVE  TypeOK'
<1>1. ElectionTypes'
      BY DEF TypeOK, ElectionTypes, StartElection
<1>2. LogTypes' /\ restarts' \in Nat
      BY DEF TypeOK, LogTypes, StartElection, logVars
<1>3. msgs' \subseteq Message
  <2>1. LastTerm(log[n]) \in Nat /\ Len(log[n]) \in Nat /\ currentTerm[n] + 1 \in Nat
        BY LastTermType DEF TypeOK, ElectionTypes, LogTypes
  <2>2. \A p \in Peers(n) :
           [type |-> "vote", from |-> n, to |-> p, live |-> TRUE,
            term |-> currentTerm[n] + 1, lastIndex |-> Len(log[n]),
            lastTerm |-> LastTerm(log[n])] \in VoteRequest
        BY <2>1 DEF VoteRequest, Peers
  <2>  QED BY <2>2 DEF TypeOK, StartElection, Message
<1>  QED BY <1>1, <1>2, <1>3 DEF TypeOK

\* handleRequestVote answers with a well-formed reply.
LEMMA HandleRequestVoteTypes ==
    ASSUME TypeOK, NEW n \in Nodes, NEW m \in msgs, HandleRequestVote(n, m)
    PROVE  TypeOK'
<1>1. m \in VoteRequest
      BY MessageTypes DEF HandleRequestVote
<1>2. m.from \in Nodes /\ m.term \in Nat
      BY <1>1 DEF VoteRequest
<1>3. ElectionTypes'
      BY <1>2 DEF TypeOK, ElectionTypes, HandleRequestVote
<1>4. LogTypes' /\ restarts' \in Nat
      BY DEF TypeOK, LogTypes, HandleRequestVote, logVars
<1>5. msgs' \subseteq Message
  <2>  DEFINE vf    == IF m.term > currentTerm[n] THEN Nil ELSE votedFor[n]
              grant == /\ m.term >= currentTerm[n]
                       /\ vf \in {Nil, m.from}
                       /\ UpToDate(m, log[n])
              term  == IF m.term > currentTerm[n] THEN m.term ELSE currentTerm[n]
              reply == [type |-> "voted", from |-> n, to |-> m.from,
                        sent |-> m.term, term |-> term, granted |-> grant]
  <2>1. term \in Nat /\ grant \in BOOLEAN
        BY <1>2 DEF TypeOK, ElectionTypes
  <2>2. Exchange(m, IF m.live THEN {reply} ELSE {})
        BY DEF HandleRequestVote
  <2>  HIDE DEF term, grant
  <2>3. reply \in VoteReply
        BY <1>2, <2>1 DEF VoteReply
  <2>  HIDE DEF reply
  <2>  QED BY <2>2, <2>3 DEF TypeOK, Exchange, Message
<1>  QED BY <1>3, <1>4, <1>5 DEF TypeOK

\* The vote goroutine of startElection, becomeLeaderLocked included.
LEMMA HandleVoteReplyTypes ==
    ASSUME TypeOK, NEW n \in Nodes, NEW m \in msgs, HandleVoteReply(n, m)
    PROVE  TypeOK'
<1>1. m \in VoteReply
      BY MessageTypes DEF HandleVoteReply
<1>2. m.from \in Nodes /\ m.term \in Nat
      BY <1>1 DEF VoteReply
<1>3. msgs' \subseteq Message /\ restarts' \in Nat
      BY DEF TypeOK, HandleVoteReply, Exchange
<1>4. currentTerm[n] \in Nat
      BY DEF TypeOK, ElectionTypes
<1>5. CASE m.term > currentTerm[n]
  <2>1. BecomeFollower(n, m.term) /\ UNCHANGED <<nextIndex, matchIndex>>
        BY <1>2, <1>5, <1>4 DEF HandleVoteReply
  <2>2. ElectionTypes'
        BY <2>1, <1>2, BecomeFollowerTypes DEF TypeOK
  <2>3. LogTypes'
        BY <2>1 DEF TypeOK, LogTypes, HandleVoteReply
  <2>  QED BY <2>2, <2>3, <1>3 DEF TypeOK
<1>6. CASE /\ m.term <= currentTerm[n]
            /\ m.granted /\ m.sent = currentTerm[n] /\ state[n] = "Candidate"
  <2>1. /\ votes' = [votes EXCEPT ![n] = votes[n] \cup {m.from}]
        /\ UNCHANGED <<currentTerm, votedFor, log, commitIndex, proposals, confirmed>>
        /\ BecomeLeader(n) \/ UNCHANGED <<state, nextIndex, matchIndex>>
        BY <1>2, <1>6, <1>4 DEF HandleVoteReply
  <2>2. ElectionTypes'
        BY <2>1, <1>2 DEF TypeOK, ElectionTypes, BecomeLeader
  <2>3. Len(log[n]) \in Nat
        BY DEF TypeOK, LogTypes
  <2>4. /\ [p \in Nodes |-> Len(log[n]) + 1] \in [Nodes -> Nat \ {0}]
        /\ [p \in Nodes |-> IF p = n THEN Len(log[n]) ELSE 0] \in [Nodes -> Nat]
        BY <2>3
  <2>5. /\ nextIndex' \in [Nodes -> [Nodes -> Nat \ {0}]]
        /\ matchIndex' \in [Nodes -> [Nodes -> Nat]]
    <3>1. CASE BecomeLeader(n)
          BY <3>1, <2>4 DEF TypeOK, LogTypes, BecomeLeader
    <3>2. CASE UNCHANGED <<state, nextIndex, matchIndex>>
          BY <3>2 DEF TypeOK, LogTypes
    <3>  QED BY <2>1, <3>1, <3>2
  <2>6. LogTypes'
        BY <2>1, <2>5 DEF TypeOK, LogTypes
  <2>  QED BY <2>2, <2>6, <1>3 DEF TypeOK
<1>7. CASE /\ m.term <= currentTerm[n]
            /\ ~(m.granted /\ m.sent = currentTerm[n] /\ state[n] = "Candidate")
  <2>1. UNCHANGED <<electionVars, logVars>>
        BY <1>2, <1>4, <1>7 DEF HandleVoteReply, electionVars, logVars
  <2>  QED BY <2>1, <1>3 DEF TypeOK, ElectionTypes, LogTypes, electionVars, logVars
<1>  QED BY <1>2, <1>5, <1>6, <1>4, <1>7

\* Propose appends an entry of its own term.
LEMMA ProposeTypes ==
    ASSUME TypeOK, NEW n \in Nodes, Propose(n)
    PROVE  TypeOK'
<1>1. ElectionTypes' /\ msgs' \subseteq Message /\ restarts' \in Nat
      BY DEF TypeOK, ElectionTypes, Propose, electionVars
<1>2. [term |-> currentTerm[n], by |-> n] \in Entry
      BY DEF TypeOK, ElectionTypes, Entry
<1>3. [index |-> Len(log[n]) + 1, term |-> currentTerm[n]] \in Proposal
      BY DEF TypeOK, ElectionTypes, LogTypes, Proposal
<1>4. log' \in [Nodes -> Seq(Entry)]
      BY <1>2 DEF TypeOK, LogTypes, Propose
<1>5. proposals' \in [Nodes -> SUBSET Proposal]
      BY <1>3 DEF TypeOK, LogTypes, Propose
<1>6. matchIndex' \in [Nodes -> [Nodes -> Nat]]
      BY DEF TypeOK, LogTypes, Propose
<1>7. LogTypes'
      BY <1>4, <1>5, <1>6 DEF TypeOK, LogTypes, Propose
<1>  QED BY <1>1, <1>7 DEF TypeOK

\* replicateTo: the previous index is never below 0, as nextIndex is never 0.
LEMMA ReplicateToTypes ==
    ASSUME TypeOK, NEW n \in Nodes, NEW p \in Nodes, ReplicateTo(n, p)
    PROVE  TypeOK'
<1>  DEFINE l    == log[n]
            prev == nextIndex[n][p] - 1
            pt   == IF prev \in 1 .. Len(l) THEN l[prev].term ELSE 0
            m    == [type |-> "append", from |-> n, to |-> p, live |-> TRUE,
                     term |-> currentTerm[n], prevIndex |-> prev, prevTerm |-> pt,
                     entries |-> SubSeq(l, prev + 1, Len(l)),
                     commit |-> commitIndex[n]]
<1>1. /\ l \in Seq(Entry) /\ Len(l) \in Nat
      /\ currentTerm[n] \in Nat /\ commitIndex[n] \in Nat
      BY DEF TypeOK, ElectionTypes, LogTypes
<1>2. prev \in Nat
  <2>1. nextIndex[n][p] \in Nat \ {0}
        BY DEF TypeOK, LogTypes
  <2>  QED BY <2>1
<1>3. msgs' = msgs \cup {m}
      BY DEF ReplicateTo
<1>  HIDE DEF l, prev
<1>4. pt \in Nat
  <2>1. CASE prev \in 1 .. Len(l)
    <3>1. l[prev] \in Entry
          BY <2>1, <1>1
    <3>2. l[prev].term \in Nat
          BY <3>1 DEF Entry
    <3>  QED BY <2>1, <3>2
  <2>2. CASE prev \notin 1 .. Len(l)
        BY <2>2
  <2>  QED BY <2>1, <2>2
<1>5. SubSeq(l, prev + 1, Len(l)) \in Seq(Entry)
      BY <1>1, <1>2
<1>6. m \in AppendRequest
  <2>  HIDE DEF pt
  <2>  QED BY <1>1, <1>2, <1>4, <1>5 DEF AppendRequest
<1>  HIDE DEF m
<1>  QED BY <1>3, <1>6 DEF TypeOK, ElectionTypes, LogTypes, Message,
            ReplicateTo, electionVars, logVars

\* handleAppendEntries keeps the log a sequence of entries.
LEMMA HandleAppendEntriesTypes ==
    ASSUME TypeOK, NEW n \in Nodes, NEW m \in msgs, HandleAppendEntries(n, m)
    PROVE  TypeOK'
<1>  DEFINE stale   == m.term < currentTerm[n]
            success == ~stale /\ PrevMatches(log[n], m)
            l       == IF stale THEN log[n] ELSE LogAfter(log[n], m)
            ci      == IF m.commit < Len(l) THEN m.commit ELSE Len(l)
            rt      == IF stale THEN currentTerm[n] ELSE m.term
            last    == IF m.entries = <<>> THEN 0 ELSE m.prevIndex + Len(m.entries)
            reply   == [type |-> "appended", from |-> n, to |-> m.from,
                        sent |-> m.term, term |-> rt, success |-> success, last |-> last]
<1>1. m \in AppendRequest
      BY MessageTypes DEF HandleAppendEntries
<1>2. /\ m.from \in Nodes /\ m.term \in Nat /\ m.commit \in Nat
      /\ m.prevIndex \in Nat /\ m.entries \in Seq(Entry)
      BY <1>1 DEF AppendRequest
<1>3. currentTerm[n] \in Nat /\ log[n] \in Seq(Entry)
      BY DEF TypeOK, ElectionTypes, LogTypes
<1>4. l \in Seq(Entry)
      BY <1>1, <1>3, LogAfterType
<1>5. rt \in Nat /\ last \in Nat /\ success \in BOOLEAN
      BY <1>2, <1>3
<1>6. /\ \/ BecomeFollower(n, m.term)
         \/ UNCHANGED electionVars
      /\ log' = [log EXCEPT ![n] = l]
      /\ commitIndex' = [commitIndex EXCEPT ![n] =
                            IF success /\ m.commit > commitIndex[n] THEN ci
                            ELSE commitIndex[n]]
      /\ msgs' = msgs \cup (IF m.live THEN {reply} ELSE {})
      /\ UNCHANGED <<nextIndex, matchIndex, proposals, confirmed, restarts>>
      BY DEF HandleAppendEntries, electionVars
<1>  HIDE DEF l, success, rt, last
<1>7. ElectionTypes'
  <2>1. CASE BecomeFollower(n, m.term)
        BY <2>1, <1>2, BecomeFollowerTypes DEF TypeOK
  <2>2. CASE UNCHANGED electionVars
        BY <2>2 DEF TypeOK, ElectionTypes, electionVars
  <2>  QED BY <2>1, <2>2, <1>6
<1>8. ci \in Nat
      BY <1>2, <1>4
<1>  HIDE DEF ci
<1>9. LogTypes'
      BY <1>4, <1>6, <1>8 DEF TypeOK, LogTypes
<1>10. msgs' \subseteq Message
  <2>1. reply \in AppendReply
        BY <1>2, <1>5 DEF AppendReply
  <2>  HIDE DEF reply
  <2>  QED BY <2>1, <1>6 DEF TypeOK, Message
<1>  QED BY <1>6, <1>7, <1>9, <1>10 DEF TypeOK

\* The reply in replicateTo: nextIndex is lowered to 1 and no further.
LEMMA HandleAppendReplyTypes ==
    ASSUME TypeOK, NEW n \in Nodes, NEW m \in msgs, HandleAppendReply(n, m)
    PROVE  TypeOK'
<1>  DEFINE mi == IF m.last > 0 THEN [matchIndex[n] EXCEPT ![m.from] = m.last]
                  ELSE matchIndex[n]
            ni == nextIndex[n][m.from]
            current == state[n] = "Leader" /\ m.sent = currentTerm[n]
<1>1. m \in AppendReply
      BY MessageTypes DEF HandleAppendReply
<1>2. m.from \in Nodes /\ m.term \in Nat /\ m.last \in Nat
      BY <1>1 DEF AppendReply
<1>3. msgs' \subseteq Message /\ restarts' \in Nat
      BY DEF TypeOK, HandleAppendReply
<1>4. currentTerm[n] \in Nat
      BY DEF TypeOK, ElectionTypes
<1>5. /\ matchIndex[n] \in [Nodes -> Nat] /\ nextIndex[n] \in [Nodes -> Nat \ {0}]
      /\ mi \in [Nodes -> Nat] /\ ni \in Nat \ {0}
      BY <1>2 DEF TypeOK, LogTypes
<1>6. CASE m.term > currentTerm[n]
  <2>1. BecomeFollower(n, m.term) /\ UNCHANGED logVars
        BY <1>2, <1>4, <1>6 DEF HandleAppendReply
  <2>2. ElectionTypes'
        BY <2>1, <1>2, BecomeFollowerTypes DEF TypeOK
  <2>  QED BY <2>1, <2>2, <1>3 DEF TypeOK, LogTypes, logVars
<1>7. CASE m.term <= currentTerm[n] /\ ~current
  <2>1. UNCHANGED <<electionVars, logVars>>
        BY <1>2, <1>4, <1>7 DEF HandleAppendReply, electionVars
  <2>  QED BY <2>1, <1>3 DEF TypeOK, ElectionTypes, LogTypes, electionVars, logVars
<1>8. CASE m.term <= currentTerm[n] /\ current /\ m.success
  <2>  DEFINE nx == IF m.last > 0 THEN m.last + 1 ELSE ni
              ci == Advance(n, mi)
  <2>1. /\ matchIndex' = [matchIndex EXCEPT ![n] = mi]
        /\ nextIndex' = [nextIndex EXCEPT ![n][m.from] = nx]
        /\ commitIndex' = [commitIndex EXCEPT ![n] = ci]
        /\ Resolve(n, ci)
        /\ UNCHANGED <<electionVars, log>>
        BY <1>2, <1>4, <1>8 DEF HandleAppendReply, electionVars
  <2>2. nx \in Nat \ {0} /\ ci \in Nat
        BY <1>2, <1>5, AdvanceType
  <2>  HIDE DEF nx, ci, mi
  <2>3. nextIndex' \in [Nodes -> [Nodes -> Nat \ {0}]]
        BY <2>1, <2>2, <1>2, <1>5 DEF TypeOK, LogTypes
  <2>4. matchIndex' \in [Nodes -> [Nodes -> Nat]] /\ commitIndex' \in [Nodes -> Nat]
        BY <2>1, <2>2, <1>5 DEF TypeOK, LogTypes
  <2>5. proposals' \in [Nodes -> SUBSET Proposal]
        BY <2>1 DEF Resolve, TypeOK, LogTypes
  <2>6. confirmed' \subseteq [index : Nat, term : Nat, by : Nodes, at : Nat]
    <3>1. \A p \in proposals[n] : p.index \in Nat /\ p.term \in Nat
          BY DEF TypeOK, LogTypes, Proposal
    <3>  QED BY <2>1, <3>1, <1>4 DEF Resolve, TypeOK, LogTypes
  <2>  QED BY <2>1, <2>3, <2>4, <2>5, <2>6, <1>3
           DEF TypeOK, ElectionTypes, LogTypes, electionVars
<1>9. CASE m.term <= currentTerm[n] /\ current /\ ~m.success
  <2>  DEFINE nx == IF ni > 1 THEN ni - 1 ELSE ni
  <2>1. /\ nextIndex' = [nextIndex EXCEPT ![n][m.from] = nx]
        /\ UNCHANGED <<electionVars, log, commitIndex, matchIndex, proposals, confirmed>>
        BY <1>2, <1>4, <1>9 DEF HandleAppendReply, electionVars
  <2>2. nx \in Nat \ {0}
        BY <1>5
  <2>  HIDE DEF nx
  <2>3. nextIndex' \in [Nodes -> [Nodes -> Nat \ {0}]]
        BY <2>1, <2>2, <1>2, <1>5 DEF TypeOK, LogTypes
  <2>  QED BY <2>1, <2>3, <1>3 DEF TypeOK, ElectionTypes, LogTypes, electionVars
<1>  QED BY <1>2, <1>4, <1>6, <1>7, <1>8, <1>9

\* NewRaftWithConfig starts with well-typed values.
LEMMA RestartTypes ==
    ASSUME TypeOK, NEW n \in Nodes, Restart(n)
    PROVE  TypeOK'
<1>1. ElectionTypes' /\ restarts' \in Nat
      BY DEF TypeOK, ElectionTypes, Restart
<1>2. /\ [p \in Nodes |-> 1] \in [Nodes -> Nat \ {0}]
      /\ [p \in Nodes |-> 0] \in [Nodes -> Nat]
      OBVIOUS
<1>3. LogTypes'
      BY <1>2 DEF TypeOK, LogTypes, Restart
<1>4. ASSUME NEW m \in msgs, m.type \in {"vote", "append"}
      PROVE  [m EXCEPT !.live = FALSE] \in Message
  <2>1. CASE m \in VoteRequest
        BY <2>1 DEF VoteRequest, Message
  <2>2. CASE m \in AppendRequest
        BY <2>2 DEF AppendRequest, Message
  <2>  QED BY <2>1, <2>2, <1>4, MessageTypes
<1>5. msgs' \subseteq Message
      BY <1>4 DEF TypeOK, Restart
<1>  QED BY <1>1, <1>3, <1>5 DEF TypeOK

\* Every variable keeps its type in every step.
LEMMA TypeStep == TypeOK /\ [Next]_vars => TypeOK'
<1>  SUFFICES ASSUME TypeOK, [Next]_vars PROVE TypeOK'
     OBVIOUS
<1>1. CASE UNCHANGED vars
      BY <1>1 DEF TypeOK, ElectionTypes, LogTypes, vars, electionVars, logVars
<1>2. ASSUME NEW n \in Nodes, StartElection(n) PROVE TypeOK'
      BY <1>2, StartElectionTypes
<1>3. ASSUME NEW n \in Nodes, Propose(n) PROVE TypeOK'
      BY <1>3, ProposeTypes
<1>4. ASSUME NEW n \in Nodes, Restart(n) PROVE TypeOK'
      BY <1>4, RestartTypes
<1>5. ASSUME NEW n \in Nodes, NEW p \in Nodes, ReplicateTo(n, p) PROVE TypeOK'
      BY <1>5, ReplicateToTypes
<1>6. ASSUME NEW n \in Nodes, NEW m \in msgs, HandleRequestVote(n, m) PROVE TypeOK'
      BY <1>6, HandleRequestVoteTypes
<1>7. ASSUME NEW n \in Nodes, NEW m \in msgs, HandleVoteReply(n, m) PROVE TypeOK'
      BY <1>7, HandleVoteReplyTypes
<1>8. ASSUME NEW n \in Nodes, NEW m \in msgs, HandleAppendEntries(n, m) PROVE TypeOK'
      BY <1>8, HandleAppendEntriesTypes
<1>9. ASSUME NEW n \in Nodes, NEW m \in msgs, HandleAppendReply(n, m) PROVE TypeOK'
      BY <1>9, HandleAppendReplyTypes
<1>10. ASSUME NEW m \in msgs, RpcFail(m) PROVE TypeOK'
      BY <1>10 DEF TypeOK, ElectionTypes, LogTypes, RpcFail, Exchange,
                   electionVars, logVars
<1>  QED BY <1>1, <1>2, <1>3, <1>4, <1>5, <1>6, <1>7, <1>8, <1>9, <1>10 DEF Next

\* The types hold at the start.
LEMMA TypeInit == Init => TypeOK
BY DEF Init, TypeOK, ElectionTypes, LogTypes

\* The Raft nodes keep their types, for any number of nodes, terms, log
\* entries, messages and restarts; in particular replicateTo never computes a
\* previous index below 0.
THEOREM RaftTypeOK == Spec => []TypeOK
BY TypeInit, TypeStep, PTL DEF Spec
==============================================================================
