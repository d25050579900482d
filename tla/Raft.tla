--------------------------------- MODULE Raft ---------------------------------
(***************************************************************************)
(* The Raft nodes (raft/raft.go, with raft/log.go and raft/transport.go).  *)
(*                                                                         *)
(* Every critical section of r.mu is one step.  An RPC is a request and a  *)
(* reply; requests are handled in any order (net/rpc serves each call in a *)
(* goroutine of its own), replies by the calling goroutine.  Either may be *)
(* lost.  A vote is asked for once in a term, so its messages are handled  *)
(* at most once.  A leader repeats an AppendEntries with every heartbeat:  *)
(* one such message stands for all its copies in flight, and stays when it *)
(* is handled.  A node may be killed and restarted between two steps; it   *)
(* keeps its term, vote and log.                                           *)
(*                                                                         *)
(* Timers are not modelled: the election timer may fire at any moment, on  *)
(* a leader as well, and a leader may send to a peer at any moment         *)
(* (heartbeat tick, Propose, and right after its election).                *)
(*                                                                         *)
(* A log entry is identified by its term and the node that proposed it;    *)
(* command type and data are left out.  leaderID, which is only reported,  *)
(* and lastApplied, which follows commitIndex, are left out too.           *)
(***************************************************************************)
EXTENDS Integers, Sequences, FiniteSets

CONSTANTS
    Nodes,       \* the nodes; the peers of a node are all others
    Nil,         \* the empty votedFor
    MaxTerm,     \* bound on the terms
    MaxLog,      \* bound on the length of a log
    MaxMsgs,     \* bound on the RPCs in flight
    MaxRestarts  \* bound on the restarts

ASSUME RaftAssumption ==
    /\ IsFiniteSet(Nodes)
    /\ Nil \notin Nodes
    /\ MaxTerm \in Nat /\ MaxLog \in Nat /\ MaxMsgs \in Nat /\ MaxRestarts \in Nat

VARIABLES
    (* on disk *)
    currentTerm, votedFor, log,
    (* in memory *)
    state,        \* "Follower", "Candidate" or "Leader"
    commitIndex,
    nextIndex, matchIndex,
    votes,        \* the peers that granted their vote in the election of the term
    proposals,    \* the proposals waiting for their index to be committed
    (* the network *)
    msgs,
    (* history *)
    confirmed,    \* every proposal answered with success, and in which term
    restarts

electionVars == <<currentTerm, votedFor, state, votes>>
logVars      == <<log, commitIndex, nextIndex, matchIndex, proposals, confirmed>>
vars         == <<electionVars, logVars, msgs, restarts>>

------------------------------------------------------------------------------
Peers(n) == Nodes \ {n}

IsQuorum(Q) == Cardinality(Q) >= Cardinality(Nodes) \div 2 + 1

LastTerm(l) == IF l = <<>> THEN 0 ELSE l[Len(l)].term

Entry    == [term : Nat, by : Nodes]
Proposal == [index : Nat, term : Nat]

\* Requests and replies.  live: the calling process still runs.  A reply
\* carries what its goroutine remembers of the request: the term it was sent
\* in, and the index of the last entry sent (0 if there was none).
VoteRequest   == [type : {"vote"}, from : Nodes, to : Nodes, live : BOOLEAN,
                  term : Nat, lastIndex : Nat, lastTerm : Nat]
AppendRequest == [type : {"append"}, from : Nodes, to : Nodes, live : BOOLEAN,
                  term : Nat, prevIndex : Nat, prevTerm : Nat,
                  entries : Seq(Entry), commit : Nat]
VoteReply     == [type : {"voted"}, from : Nodes, to : Nodes, sent : Nat,
                  term : Nat, granted : BOOLEAN]
AppendReply   == [type : {"appended"}, from : Nodes, to : Nodes, sent : Nat,
                  term : Nat, success : BOOLEAN, last : Nat]

Message == VoteRequest \cup AppendRequest \cup VoteReply \cup AppendReply

ElectionTypes ==
    /\ currentTerm \in [Nodes -> Nat]
    /\ votedFor \in [Nodes -> Nodes \cup {Nil}]
    /\ state \in [Nodes -> {"Follower", "Candidate", "Leader"}]
    /\ votes \in [Nodes -> SUBSET Nodes]

LogTypes ==
    /\ log \in [Nodes -> Seq(Entry)]
    /\ commitIndex \in [Nodes -> Nat]
    /\ nextIndex \in [Nodes -> [Nodes -> Nat \ {0}]]
    /\ matchIndex \in [Nodes -> [Nodes -> Nat]]
    /\ proposals \in [Nodes -> SUBSET Proposal]
    /\ confirmed \subseteq [index : Nat, term : Nat, by : Nodes, at : Nat]

\* Each variable ranges over the values the Go declarations give it; nextIndex
\* of replicateTo never gets below 1.
TypeOK ==
    ElectionTypes /\ LogTypes /\ msgs \subseteq Message /\ restarts \in Nat

------------------------------------------------------------------------------
(* Steps that several handlers share *)

\* becomeFollowerLocked.  It clears the vote even when the term stays the
\* same, and the votes of a running election can no longer elect n.
BecomeFollower(n, term) ==
    /\ state' = [state EXCEPT ![n] = "Follower"]
    /\ currentTerm' = [currentTerm EXCEPT ![n] = term]
    /\ votedFor' = [votedFor EXCEPT ![n] = Nil]
    /\ votes' = [votes EXCEPT ![n] = {}]

\* A message leaves the network, another one (or none) enters it.
Exchange(m, S) == msgs' = (msgs \ {m}) \cup S

------------------------------------------------------------------------------
(* Elections *)

\* startElection: the critical section and the sending of the requests.
StartElection(n) ==
    /\ currentTerm[n] < MaxTerm
    /\ Cardinality(msgs) + Cardinality(Peers(n)) <= MaxMsgs
    /\ state' = [state EXCEPT ![n] = "Candidate"]
    /\ currentTerm' = [currentTerm EXCEPT ![n] = @ + 1]
    /\ votedFor' = [votedFor EXCEPT ![n] = n]
    /\ votes' = [votes EXCEPT ![n] = {}]
    /\ msgs' = msgs \cup
           {[type |-> "vote", from |-> n, to |-> p, live |-> TRUE,
             term |-> currentTerm[n] + 1, lastIndex |-> Len(log[n]),
             lastTerm |-> LastTerm(log[n])] : p \in Peers(n)}
    /\ UNCHANGED <<logVars, restarts>>

\* Mutant: no comparison of the logs.
UpToDateAlways(m, l) == TRUE

\* The candidate's log is at least as up to date as l.
UpToDate(m, l) ==
    \/ m.lastTerm > LastTerm(l)
    \/ m.lastTerm = LastTerm(l) /\ m.lastIndex >= Len(l)

\* handleRequestVote on node n.
HandleRequestVote(n, m) ==
    LET vf    == IF m.term > currentTerm[n] THEN Nil ELSE votedFor[n]
        grant == /\ m.term >= currentTerm[n]
                 /\ vf \in {Nil, m.from}
                 /\ UpToDate(m, log[n])
        term  == IF m.term > currentTerm[n] THEN m.term ELSE currentTerm[n]
    IN  /\ m \in msgs /\ m.type = "vote" /\ m.to = n
        /\ currentTerm' = [currentTerm EXCEPT ![n] = term]
        /\ votedFor' = [votedFor EXCEPT ![n] = IF grant THEN m.from ELSE vf]
        /\ IF m.term > currentTerm[n]
           THEN /\ state' = [state EXCEPT ![n] = "Follower"]
                /\ votes' = [votes EXCEPT ![n] = {}]
           ELSE UNCHANGED <<state, votes>>
        /\ Exchange(m, IF m.live
                       THEN {[type |-> "voted", from |-> n, to |-> m.from,
                              sent |-> m.term, term |-> term, granted |-> grant]}
                       ELSE {})
        /\ UNCHANGED <<logVars, restarts>>

\* Mutant: the leader's own match index is left out.
BecomeLeaderPeersOnly(n) ==
    /\ state' = [state EXCEPT ![n] = "Leader"]
    /\ nextIndex' = [nextIndex EXCEPT ![n] = [p \in Nodes |-> Len(log[n]) + 1]]
    /\ matchIndex' = [matchIndex EXCEPT ![n] = [p \in Peers(n) |-> 0]]

\* becomeLeaderLocked
BecomeLeader(n) ==
    /\ state' = [state EXCEPT ![n] = "Leader"]
    /\ nextIndex' = [nextIndex EXCEPT ![n] = [p \in Nodes |-> Len(log[n]) + 1]]
    /\ matchIndex' = [matchIndex EXCEPT ![n] =
                         [p \in Nodes |-> IF p = n THEN Len(log[n]) ELSE 0]]

\* The rest of the goroutine of startElection.
HandleVoteReply(n, m) ==
    LET vs  == votes[n] \cup {m.from}
        won == IsQuorum(vs \cup {n})
    IN  /\ m \in msgs /\ m.type = "voted" /\ m.to = n
        /\ Exchange(m, {})
        /\ \/ /\ m.term > currentTerm[n]
              /\ BecomeFollower(n, m.term)
              /\ UNCHANGED <<nextIndex, matchIndex>>
           \/ /\ m.term <= currentTerm[n]
              /\ m.granted /\ m.sent = currentTerm[n] /\ state[n] = "Candidate"
              /\ votes' = [votes EXCEPT ![n] = vs]
              /\ IF won
                 THEN BecomeLeader(n)
                 ELSE UNCHANGED <<state, nextIndex, matchIndex>>
              /\ UNCHANGED <<currentTerm, votedFor>>
           \/ /\ m.term <= currentTerm[n]
              /\ ~(m.granted /\ m.sent = currentTerm[n] /\ state[n] = "Candidate")
              /\ UNCHANGED <<currentTerm, votedFor, state, votes,
                             nextIndex, matchIndex>>
        /\ UNCHANGED <<log, commitIndex, proposals, confirmed, restarts>>

------------------------------------------------------------------------------
(* Replication *)

\* Propose, up to the wait for the commit.
Propose(n) ==
    /\ state[n] = "Leader"
    /\ Len(log[n]) < MaxLog
    /\ log' = [log EXCEPT ![n] = Append(@, [term |-> currentTerm[n], by |-> n])]
    /\ proposals' = [proposals EXCEPT ![n] = @ \cup
                        {[index |-> Len(log[n]) + 1, term |-> currentTerm[n]]}]
    /\ matchIndex' = [matchIndex EXCEPT ![n][n] = Len(log[n]) + 1]
    /\ UNCHANGED <<electionVars, commitIndex, nextIndex, confirmed, msgs, restarts>>

\* replicateTo, up to the call: everything from nextIndex on is sent.
ReplicateTo(n, p) ==
    LET prev == nextIndex[n][p] - 1
        l    == log[n]
    IN  /\ state[n] = "Leader"
        /\ p \in Peers(n)
        /\ Cardinality(msgs) < MaxMsgs
        /\ msgs' = msgs \cup
              {[type |-> "append", from |-> n, to |-> p, live |-> TRUE,
                term |-> currentTerm[n], prevIndex |-> prev,
                prevTerm |-> IF prev \in 1 .. Len(l) THEN l[prev].term ELSE 0,
                entries |-> SubSeq(l, prev + 1, Len(l)),
                commit |-> commitIndex[n]]}
        /\ UNCHANGED <<electionVars, logVars, restarts>>

\* Mutant: an entry that is there is kept, whatever its term.
AppendNewKeeps(l, prev, entries) ==
    IF prev + Len(entries) <= Len(l) THEN l
    ELSE l \o SubSeq(entries, Len(l) - prev + 1, Len(entries))

\* The log l after an AppendEntries whose previous entry matches: from the
\* first entry on that is missing or of another term, the log is replaced.
AppendNew(l, prev, entries) ==
    LET differs(i) == prev + i > Len(l) \/ l[prev + i].term # entries[i].term
        D == {i \in 1 .. Len(entries) : differs(i)}
    IN  IF D = {} THEN l
        ELSE LET i == CHOOSE i \in D : \A j \in D : i <= j
             IN  SubSeq(l, 1, prev + i - 1) \o SubSeq(entries, i, Len(entries))

\* Mutant: the log is cut behind the previous entry, conflict or not.
LogAfterCut(l, m) ==
    IF m.prevIndex > Len(l) THEN l
    ELSE IF m.prevIndex > 0 /\ l[m.prevIndex].term # m.prevTerm
         THEN SubSeq(l, 1, m.prevIndex - 1)
    ELSE SubSeq(l, 1, m.prevIndex) \o m.entries

\* The log after the whole handler: a previous entry of another term is cut
\* off with everything behind it.
LogAfter(l, m) ==
    IF m.prevIndex > Len(l) THEN l
    ELSE IF m.prevIndex > 0 /\ l[m.prevIndex].term # m.prevTerm
         THEN SubSeq(l, 1, m.prevIndex - 1)
    ELSE AppendNew(l, m.prevIndex, m.entries)

PrevMatches(l, m) ==
    m.prevIndex = 0 \/ (m.prevIndex <= Len(l) /\ l[m.prevIndex].term = m.prevTerm)

\* handleAppendEntries on node n.
HandleAppendEntries(n, m) ==
    LET stale   == m.term < currentTerm[n]
        success == ~stale /\ PrevMatches(log[n], m)
        l       == IF stale THEN log[n] ELSE LogAfter(log[n], m)
        ci      == IF m.commit < Len(l) THEN m.commit ELSE Len(l)
        reply   == [type |-> "appended", from |-> n, to |-> m.from, sent |-> m.term,
                    term |-> IF stale THEN currentTerm[n] ELSE m.term,
                    success |-> success,
                    last |-> IF m.entries = <<>> THEN 0 ELSE m.prevIndex + Len(m.entries)]
    IN  /\ m \in msgs /\ m.type = "append" /\ m.to = n
        /\ IF ~stale /\ (m.term > currentTerm[n] \/ state[n] # "Follower")
           THEN BecomeFollower(n, m.term)
           ELSE UNCHANGED <<currentTerm, votedFor, state, votes>>
        /\ log' = [log EXCEPT ![n] = l]
        /\ commitIndex' = [commitIndex EXCEPT ![n] =
                              IF success /\ m.commit > @ THEN ci ELSE @]
        /\ msgs' = msgs \cup (IF m.live THEN {reply} ELSE {})
        /\ UNCHANGED <<nextIndex, matchIndex, proposals, confirmed, restarts>>

\* Mutant: an entry of an earlier term is committed by counting replicas.
AdvanceAnyTerm(n, mi) ==
    LET agree(i) == {n} \cup {p \in Peers(n) : mi[p] >= i}
        C == {i \in commitIndex[n] + 1 .. Len(log[n]) :
                Cardinality(agree(i)) > Cardinality(Nodes) \div 2}
    IN  IF C = {} THEN commitIndex[n]
        ELSE CHOOSE i \in C : \A j \in C : i >= j

\* Mutant: half of the nodes, rounded down, is enough.
AdvanceHalf(n, mi) ==
    LET agree(i) == {n} \cup {p \in Peers(n) : mi[p] >= i}
        C == {i \in commitIndex[n] + 1 .. Len(log[n]) :
                /\ log[n][i].term = currentTerm[n]
                /\ Cardinality(agree(i)) >= Cardinality(Nodes) \div 2}
    IN  IF C = {} THEN commitIndex[n]
        ELSE CHOOSE i \in C : \A j \in C : i >= j

\* advanceCommitIndexLocked: the highest index of the leader's own term that
\* a majority has, or the present commit index.
Advance(n, mi) ==
    LET agree(i) == {n} \cup {p \in Peers(n) : mi[p] >= i}
        C == {i \in commitIndex[n] + 1 .. Len(log[n]) :
                /\ log[n][i].term = currentTerm[n]
                /\ Cardinality(agree(i)) > Cardinality(Nodes) \div 2}
    IN  IF C = {} THEN commitIndex[n]
        ELSE CHOOSE i \in C : \A j \in C : i >= j

\* resolveProposalsLocked, called when the commit index has moved to ci: a
\* proposal is found by its index alone.
Resolve(n, ci) ==
    LET done == IF ci > commitIndex[n]
                THEN {p \in proposals[n] : p.index <= ci} ELSE {}
    IN  /\ proposals' = [proposals EXCEPT ![n] = @ \ done]
        /\ confirmed' = confirmed \cup
              {[index |-> p.index, term |-> p.term, by |-> n,
                at |-> currentTerm[n]] : p \in done}

\* The rest of replicateTo.
HandleAppendReply(n, m) ==
    LET mi == IF m.last > 0 THEN [matchIndex[n] EXCEPT ![m.from] = m.last]
              ELSE matchIndex[n]
        ni == nextIndex[n][m.from]
        current == state[n] = "Leader" /\ m.sent = currentTerm[n]
    IN  /\ m \in msgs /\ m.type = "appended" /\ m.to = n
        /\ \/ /\ m.term > currentTerm[n]
              /\ BecomeFollower(n, m.term)
              /\ UNCHANGED logVars
           \/ /\ m.term <= currentTerm[n] /\ ~current
              /\ UNCHANGED <<currentTerm, votedFor, state, votes, logVars>>
           \/ /\ m.term <= currentTerm[n] /\ current /\ m.success
              /\ matchIndex' = [matchIndex EXCEPT ![n] = mi]
              /\ nextIndex' = [nextIndex EXCEPT ![n][m.from] =
                                  IF m.last > 0 THEN m.last + 1 ELSE @]
              /\ commitIndex' = [commitIndex EXCEPT ![n] = Advance(n, mi)]
              /\ Resolve(n, Advance(n, mi))
              /\ UNCHANGED <<currentTerm, votedFor, state, votes, log>>
           \/ /\ m.term <= currentTerm[n] /\ current /\ ~m.success
              /\ nextIndex' = [nextIndex EXCEPT ![n][m.from] =
                                  IF ni > 1 THEN ni - 1 ELSE ni]
              /\ UNCHANGED <<currentTerm, votedFor, state, votes, log, commitIndex,
                             matchIndex, proposals, confirmed>>
        /\ UNCHANGED <<msgs, restarts>>

------------------------------------------------------------------------------
(* Faults *)

\* An RPC fails, its request or its reply is lost; or the last copy of an
\* AppendEntries or of its reply has been handled.
RpcFail(m) ==
    /\ m \in msgs
    /\ Exchange(m, {})
    /\ UNCHANGED <<electionVars, logVars, restarts>>

\* Mutant: the vote does not survive.
RestartForgetsVote(n) ==
    /\ restarts < MaxRestarts
    /\ restarts' = restarts + 1
    /\ state' = [state EXCEPT ![n] = "Follower"]
    /\ votedFor' = [votedFor EXCEPT ![n] = Nil]
    /\ votes' = [votes EXCEPT ![n] = {}]
    /\ msgs' = {m \in msgs : m.from # n /\ m.to # n}
    /\ UNCHANGED <<currentTerm, logVars>>

\* The process of n is killed and started again: NewRaftWithConfig reads the
\* state file and the log.  Nobody waits for the replies to n any more.
Restart(n) ==
    /\ restarts < MaxRestarts
    /\ restarts' = restarts + 1
    /\ state' = [state EXCEPT ![n] = "Follower"]
    /\ votes' = [votes EXCEPT ![n] = {}]
    /\ commitIndex' = [commitIndex EXCEPT ![n] = 0]
    /\ nextIndex' = [nextIndex EXCEPT ![n] = [p \in Nodes |-> 1]]
    /\ matchIndex' = [matchIndex EXCEPT ![n] = [p \in Nodes |-> 0]]
    /\ proposals' = [proposals EXCEPT ![n] = {}]
    /\ msgs' = {IF m.type \in {"vote", "append"} /\ m.from = n
                THEN [m EXCEPT !.live = FALSE] ELSE m :
                  m \in {x \in msgs : ~(x.type \in {"voted", "appended"} /\ x.to = n)}}
    /\ UNCHANGED <<currentTerm, votedFor, log, confirmed>>

------------------------------------------------------------------------------
(* The specification *)

Init ==
    /\ currentTerm = [n \in Nodes |-> 0]
    /\ votedFor = [n \in Nodes |-> Nil]
    /\ log = [n \in Nodes |-> <<>>]
    /\ state = [n \in Nodes |-> "Follower"]
    /\ commitIndex = [n \in Nodes |-> 0]
    /\ nextIndex = [n \in Nodes |-> [p \in Nodes |-> 1]]
    /\ matchIndex = [n \in Nodes |-> [p \in Nodes |-> 0]]
    /\ votes = [n \in Nodes |-> {}]
    /\ proposals = [n \in Nodes |-> {}]
    /\ msgs = {} /\ confirmed = {}
    /\ restarts = 0

Next ==
    \/ \E n \in Nodes :
          \/ StartElection(n)
          \/ Propose(n)
          \/ Restart(n)
          \/ \E p \in Nodes : ReplicateTo(n, p)
          \/ \E m \in msgs : \/ HandleRequestVote(n, m)
                             \/ HandleVoteReply(n, m)
                             \/ HandleAppendEntries(n, m)
                             \/ HandleAppendReply(n, m)
    \/ \E m \in msgs : RpcFail(m)

Spec == Init /\ [][Next]_vars

------------------------------------------------------------------------------
(* Properties *)

\* Two logs that have an entry of the same term at the same index are equal
\* up to that index.
LogMatching ==
    \A i, j \in Nodes :
        \A k \in 1 .. Len(log[i]) :
            k <= Len(log[j]) /\ log[i][k].term = log[j][k].term
                => SubSeq(log[i], 1, k) = SubSeq(log[j], 1, k)

\* Entry k is committed, as far as n knows.
Committed(n, k) == k <= commitIndex[n]

\* Nodes i and j have the same entry at index k.
SameEntry(i, j, k) ==
    k \in DOMAIN log[i] /\ k \in DOMAIN log[j] /\ log[i][k] = log[j][k]

\* A leader has every entry that a node of its term or of an earlier one
\* knows to be committed: the election restriction of handleRequestVote and
\* the own-term rule of advanceCommitIndexLocked together see to it.
LeaderCompleteness ==
    \A n, m \in Nodes : \A k \in 1 .. commitIndex[m] :
        state[n] = "Leader" /\ currentTerm[m] <= currentTerm[n] => SameEntry(n, m, k)

\* The entries two nodes hand to their engines (applyCommitted) do not differ.
StateMachineSafety ==
    \A i, j \in Nodes : \A k \in 1 .. commitIndex[i] :
        Committed(j, k) => SameEntry(i, j, k)

\* TruncateFrom never takes an entry away that the node knows to be committed,
\* also when a delayed AppendEntries triggers it.
CommittedKept ==
    [][\A n \in Nodes : \A k \in 1 .. commitIndex[n] :
          k <= Len(log'[n]) /\ log'[n][k] = log[n][k]]_vars

\* The entry of node n at the index of the confirmed proposal c is that proposal.
IsProposal(n, c) ==
    c.index \in DOMAIN log[n] /\ log[n][c.index] = [term |-> c.term, by |-> c.by]

\* A proposal that is confirmed in the term it was made in is committed: no
\* node ever commits another entry at its index.
ConfirmedKept ==
    \A c \in confirmed : \A n \in Nodes :
        c.at = c.term /\ Committed(n, c.index) => IsProposal(n, c)

(* What comments say and the code does not do. *)

\* Propose "blocks until committed or timeout": success means committed.
ProposeBlocksUntilCommitted ==
    \A c \in confirmed : \A n \in Nodes :
        Committed(n, c.index) => IsProposal(n, c)
==============================================================================
