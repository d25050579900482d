-------------------------------- MODULE Node ---------------------------------
(***************************************************************************)
(* One node of the cluster as a process (raft/node.go): the file of the    *)
(* Raft log (raft/log.go), the handler of AppendEntries that writes it,    *)
(* the two goroutines that carry committed entries into the engine, the    *)
(* main loop as far as Stop waits for it, Stop, a kill at any point and    *)
(* the start that follows it.                                              *)
(*                                                                         *)
(* The rest of the cluster is the environment: a log that leaders of       *)
(* rising terms extend, of which a growing prefix is committed.  What the  *)
(* cluster guarantees of that log is checked in Raft.                      *)
(***************************************************************************)
EXTENDS Protocol, FiniteSets, FiniteSetsExt

CONSTANTS
    Keys,       \* keys and values are sequences of bytes
    Commands,   \* the commands that clients propose
    ApplyCap,   \* capacity of applyCh (256 in the code)
    MaxTerm,    \* bounds on leaders, entries and kills
    MaxLog,
    MaxKills

VARIABLES
    term,       \* the term of the present leader
    leaderLog,  \* its log: terms, commands and their encodings
    committed,  \* how many of its entries are committed
    file,       \* the log file, see Cells
    fileOpen,   \* FALSE once log.Close has run
    log,        \* l.entries
    commitIndex,
    commitCh,   \* how many signals the channel holds (its capacity is 1)
    lastApplied,
    applier,    \* applyLoop: where it is, the next index, the last one
    applyCh,
    engineLoop, \* engineApplyLoop: where it is, the entry it holds
    eng,        \* contents of the engine, which survive a kill (see Engine)
    mainLoop,   \* in its select, waiting for the peers' answers, or returned
    status,     \* of the process: running, a step of Stop, or gone
    kills,
    acked,      \* history: the entries the node has told a leader it stores
    applied,    \* history: entries applied to the engine since the start
    high,       \* history: the most entries ever applied
    lost        \* history: the windows in which entries have been lost

envVars  == <<term, leaderLog, committed>>
diskVars == <<file, fileOpen, log, acked, lost>>
loopVars == <<lastApplied, applier, applyCh, engineLoop, eng, applied, high>>
vars == <<envVars, diskVars, commitIndex, commitCh, loopVars, status, kills, mainLoop>>

\* No bytes of a client: an absent value, and the data of a torn record.
NoValue == <<-1>>
Garbled == <<-2>>

\* "closing": n.closeCh is closed; "draining": r.closeCh is, too; "unlogged":
\* log.Close has run; "stopped": the engine is closed; "down": no process.
Statuses == {"up", "closing", "draining", "unlogged", "stopped", "down"}

------------------------------------------------------------------------------
(* Commands *)

Put(key, value) == [type |-> "put", key |-> key, value |-> value]

Delete(key) == [type |-> "delete", key |-> key]

BatchPut(keys, values) == [type |-> "batch", keys |-> keys, values |-> values]

\* EncodePutCommand, EncodeDeleteCommand and EncodeBatchPutCommand lay out
\* their arguments as the payloads of the TCP protocol.
EncodeCommand(cmd) ==
    CASE cmd.type = "put"    -> EncodePut(cmd.key, cmd.value)
      [] cmd.type = "delete" -> EncodeKey(cmd.key)
      [] cmd.type = "batch"  -> EncodeBatchPut(cmd.keys, cmd.values)

\* Mutant: an earlier pair of the same key prevails.
WrittenFirst(contents, keys, values) ==
    [k \in Keys |->
        LET at == {i \in DOMAIN keys : keys[i] = k}
        IN  IF at = {} THEN contents[k] ELSE values[Min(at)]]

\* The pairs of a write, in order: a later one of the same key prevails.
Written(contents, keys, values) ==
    [k \in Keys |->
        LET at == {i \in DOMAIN keys : keys[i] = k}
        IN  IF at = {} THEN contents[k] ELSE values[Max(at)]]

DecodeCommand(e) ==
    CASE e.type = "put" ->
            LET put == DecodePut(e.data) IN [keys |-> <<put.key>>, values |-> <<put.value>>]
      [] e.type = "delete" ->
            [keys |-> <<DecodeKey(e.data).bytes>>, values |-> <<NoValue>>]
      [] e.type = "batch" ->
            LET batch == DecodeBatchPut(e.data)
            IN  [keys |-> batch.keys, values |-> batch.values]

\* What an entry makes of the contents.
applyEntry(contents, e) ==
    LET write == DecodeCommand(e) IN Written(contents, write.keys, write.values)

\* The entries that a leader sends for its log.
EntriesOf(terms) ==
    [i \in DOMAIN terms |->
        [term |-> terms[i].term, index |-> i, type |-> terms[i].cmd.type,
         data |-> terms[i].data]]

------------------------------------------------------------------------------
(* The log file.  writeEntry makes two writes, of the header and of the     *)
(* data, and a kill may fall between them; the file is the sequence of      *)
(* these pieces.                                                            *)

CellsOf(e) == <<[kind |-> "header", entry |-> e], [kind |-> "data", entry |-> e]>>

Cells(es) == FlattenSeq([i \in DOMAIN es |-> CellsOf(es[i])])

\* How many entries can be read before the file ends or a header without its
\* data is met.
Intact(f) ==
    Max({0} \cup {n \in 1 .. Len(f) \div 2 : \A i \in 1 .. n : f[2 * i].kind = "data"})

\* What replay may read.  The data of a header that has lost it are taken from
\* the record behind it, if that is long enough; after that the file ends
\* inside whatever is taken for the next record.
Replays(f) ==
    LET n    == Intact(f)
        read == [i \in 1 .. n |-> f[2 * i].entry]
    IN  {read} \cup (IF Len(f) < 2 * n + 2 THEN {}
                     ELSE {Append(read, [f[2 * n + 1].entry EXCEPT !.data = Garbled])})

HasEntry(i) == i \in DOMAIN log

------------------------------------------------------------------------------
(* The cluster *)

ClientProposes ==
    /\ Len(leaderLog) < MaxLog
    /\ \E cmd \in Commands :
        leaderLog' = Append(leaderLog,
                            [term |-> term, cmd |-> cmd, data |-> EncodeCommand(cmd)])
    /\ UNCHANGED <<term, committed, diskVars, commitIndex, commitCh, loopVars, status, kills, mainLoop>>

\* A leader commits an entry of its own term and all before it.
LeaderCommits ==
    /\ \E n \in committed + 1 .. Len(leaderLog) :
        leaderLog[n].term = term /\ committed' = n
    /\ UNCHANGED <<term, leaderLog, diskVars, commitIndex, commitCh, loopVars, status, kills, mainLoop>>

\* The next leader has every committed entry, and perhaps no others.
NewLeader ==
    /\ term < MaxTerm
    /\ term' = term + 1
    /\ \E n \in committed .. Len(leaderLog) : leaderLog' = SubSeq(leaderLog, 1, n)
    /\ UNCHANGED <<committed, diskVars, commitIndex, commitCh, loopVars, status, kills, mainLoop>>

\* What the leader sends now, or has sent when its log was shorter: all
\* entries behind prev, and a commit index within them.
Messages ==
    UNION {[prev : 0 .. last, last : {last}, commit : 0 .. Min({last, committed})] :
             last \in 0 .. Len(leaderLog)}

------------------------------------------------------------------------------
(* handleAppendEntries *)

\* Mutant: an entry whose term differs is taken for the leader's.
FirstNewMissing(m) ==
    Min({i \in m.prev + 1 .. m.last : ~HasEntry(i)} \cup {m.last + 1})

\* The first entry of the message that the log does not hold yet.
FirstNew(m) ==
    Min({i \in m.prev + 1 .. m.last :
            ~HasEntry(i) \/ log[i].term # leaderLog[i].term} \cup {m.last + 1})

PrevMissing(m) == m.prev > 0 /\ ~HasEntry(m.prev)

PrevConflicts(m) ==
    m.prev > 0 /\ HasEntry(m.prev) /\ log[m.prev].term # leaderLog[m.prev].term

\* The index given to TruncateFrom; behind the log if it is not called.
Cut(m) == CASE PrevMissing(m)   -> Len(log) + 1
            [] PrevConflicts(m) -> m.prev
            [] OTHER            -> IF FirstNew(m) <= m.last /\ HasEntry(FirstNew(m))
                                   THEN FirstNew(m) ELSE Len(log) + 1

\* TruncateFrom writes the file from scratch, and opens it again to do so.
Rewrites(m) == Cut(m) <= Len(log)

\* The arguments of log.Append.
NewEntries(m) ==
    IF PrevMissing(m) \/ PrevConflicts(m) THEN <<>>
    ELSE SubSeq(EntriesOf(leaderLog), FirstNew(m), m.last)

Success(m) == ~PrevMissing(m) /\ ~PrevConflicts(m)

Kept(m) == SubSeq(log, 1, Cut(m) - 1)

\* Mutant: TruncateFrom shortens the entries in memory only.
WrittenToNoRewrite(m) ==
    [base |-> file, cells |-> Cells(NewEntries(m))]

\* The file that the handler's writes start from, and the pieces it writes.
WrittenTo(m) ==
    IF Rewrites(m) THEN [base |-> <<>>, cells |-> Cells(Kept(m) \o NewEntries(m))]
                   ELSE [base |-> file, cells |-> Cells(NewEntries(m))]

\* An append behind a record without its data.
BehindTorn(m) ==
    ~Rewrites(m) /\ NewEntries(m) # <<>> /\ Len(file) > 2 * Intact(file)

\* Mutant: the leader's word is taken for it.
KnownCommittedUnbounded(m, lastIdx) == m.commit

\* The new commit index, of a log that ends at lastIdx.
KnownCommitted(m, lastIdx) == Min({m.commit, lastIdx})

\* Mutant: nobody is told while applyLoop is busy (an unbuffered channel).
SignalUnbuffered == commitCh' = IF applier.pc = "wait" THEN 1 ELSE commitCh

\* A send to commitCh that does not wait.
Signal == commitCh' = 1

\* The acknowledged entries that the leader's message does not overrule.
Upheld(m) == IF Rewrites(m) THEN SubSeq(acked, 1, Min({Cut(m) - 1, Len(acked)})) ELSE acked

\* The whole handler.  A process whose Stop has run still serves the
\* connections it had accepted; its log file is closed, log.Append fails and
\* the error is dropped.
HandleAppendEntries(m) ==
    LET stores == fileOpen \/ Rewrites(m)
        writes == WrittenTo(m)
        upheld == Upheld(m)
        log1   == Kept(m) \o (IF stores THEN NewEntries(m) ELSE <<>>)
    IN  /\ status # "down"
        /\ log' = log1
        /\ fileOpen' = stores
        /\ file' = IF stores THEN writes.base \o writes.cells ELSE file
        /\ acked' = IF Success(m)
                    THEN SubSeq(EntriesOf(leaderLog), 1, m.last)
                         \o SubSeq(upheld, m.last + 1, Len(upheld))
                    ELSE upheld
        /\ lost' = lost \cup (IF stores /\ BehindTorn(m) THEN {"torn"} ELSE {})
                        \cup (IF ~stores /\ NewEntries(m) # <<>> THEN {"closed"} ELSE {})
        /\ IF Success(m) /\ m.commit > commitIndex
           THEN commitIndex' = KnownCommitted(m, Len(log1)) /\ Signal
           ELSE UNCHANGED <<commitIndex, commitCh>>
        /\ UNCHANGED <<envVars, loopVars, status, kills, mainLoop>>

------------------------------------------------------------------------------
(* Kills and restarts *)

\* What the end of the process leaves of it.
Gone ==
    /\ status' = "down"
    /\ mainLoop' = "wait"
    /\ fileOpen' = FALSE
    /\ log' = <<>> /\ commitIndex' = 0 /\ commitCh' = 0 /\ lastApplied' = 0
    /\ applier' = [pc |-> "wait", idx |-> 0, to |-> 0]
    /\ applyCh' = <<>>
    /\ engineLoop' = [pc |-> "wait", holds |-> <<>>]
    /\ applied' = 0
    /\ UNCHANGED <<envVars, eng, high>>

Kill ==
    /\ status # "down" /\ kills < MaxKills
    /\ kills' = kills + 1
    /\ Gone
    /\ UNCHANGED <<file, acked, lost>>

\* A kill between two writes of the handler: a part of them is in the file.
\* Until rewriteFile has written them again, the entries it keeps are lost.
KillInHandler(m) ==
    /\ status # "down" /\ kills < MaxKills
    /\ fileOpen \/ Rewrites(m)
    /\ LET writes == WrittenTo(m)
           kept   == IF Rewrites(m) THEN Len(Cells(Kept(m))) ELSE 0
           torn   == BehindTorn(m)
       IN  \E n \in 0 .. Len(writes.cells) - 1 :
            /\ file' = writes.base \o SubSeq(writes.cells, 1, n)
            /\ lost' = lost \cup (IF n < kept THEN {"rewrite"} ELSE {})
                            \cup (IF torn /\ n > 0 THEN {"torn"} ELSE {})
    /\ acked' = Upheld(m)
    /\ kills' = kills + 1
    /\ Gone

\* NewNodeWithConfig and Start: replay leaves the position for the next write
\* at the end of the file, behind whatever it could not read.
Restart ==
    /\ status = "down"
    /\ status' = "up"
    /\ log' \in Replays(file)
    /\ fileOpen' = TRUE
    /\ UNCHANGED <<envVars, file, acked, lost, commitIndex, commitCh, loopVars, kills, mainLoop>>

------------------------------------------------------------------------------
(* applyLoop and applyCommitted *)

Running == status # "down"

\* The loop takes the signal and reads commitIndex and lastApplied once.
ApplierWake ==
    /\ Running /\ applier.pc = "wait" /\ commitCh = 1
    /\ commitCh' = 0
    /\ applier' = [pc |-> "apply", idx |-> lastApplied + 1, to |-> commitIndex]
    /\ UNCHANGED <<envVars, diskVars, commitIndex, lastApplied, applyCh, engineLoop, eng,
                   applied, high, status, kills, mainLoop>>

\* One entry goes into the channel, unless that is full.
ApplierSend ==
    /\ Running /\ applier.pc = "apply" /\ applier.idx <= applier.to
    /\ HasEntry(applier.idx) /\ Len(applyCh) < ApplyCap
    /\ applyCh' = Append(applyCh, log[applier.idx])
    /\ lastApplied' = applier.idx
    /\ applier' = [applier EXCEPT !.idx = @ + 1]
    /\ UNCHANGED <<envVars, diskVars, commitIndex, commitCh, engineLoop, eng,
                   applied, high, status, kills, mainLoop>>

ApplierEnd ==
    /\ Running /\ applier.pc = "apply"
    /\ applier.idx > applier.to \/ ~HasEntry(applier.idx)
    /\ applier' = [applier EXCEPT !.pc = "wait"]
    /\ UNCHANGED <<envVars, diskVars, commitIndex, commitCh, lastApplied, applyCh, engineLoop,
                   eng, applied, high, status, kills, mainLoop>>

\* Mutant: a send that finds the channel full waits for room only.
ApplierExitIdle ==
    /\ status = "draining" /\ applier.pc = "wait"
    /\ applier' = [applier EXCEPT !.pc = "done"]
    /\ UNCHANGED <<envVars, diskVars, commitIndex, commitCh, lastApplied, applyCh, engineLoop,
                   eng, applied, high, status, kills, mainLoop>>

\* r.closeCh is closed: both selects may take that branch.
ApplierExit ==
    /\ status = "draining"
    /\ \/ applier.pc = "wait"
       \/ applier.pc = "apply" /\ applier.idx <= applier.to /\ HasEntry(applier.idx)
    /\ applier' = [applier EXCEPT !.pc = "done"]
    /\ UNCHANGED <<envVars, diskVars, commitIndex, commitCh, lastApplied, applyCh, engineLoop,
                   eng, applied, high, status, kills, mainLoop>>

------------------------------------------------------------------------------
(* mainLoop.  A leader sends to its peers at each tick and waits for all    *)
(* answers; what it sends and what it makes of the answers is in Raft.      *)

\* The node may take itself for the leader at any time.
MainSends ==
    /\ Running /\ mainLoop = "wait"
    /\ mainLoop' = "sending"
    /\ UNCHANGED <<envVars, diskVars, commitIndex, commitCh, loopVars, status, kills>>

\* The last RPC has returned.  An RPC has no timeout, so it may never do so.
MainAnswered ==
    /\ Running /\ mainLoop = "sending"
    /\ mainLoop' = "wait"
    /\ UNCHANGED <<envVars, diskVars, commitIndex, commitCh, loopVars, status, kills>>

\* r.closeCh is closed.
MainExit ==
    /\ status = "draining" /\ mainLoop = "wait"
    /\ mainLoop' = "done"
    /\ UNCHANGED <<envVars, diskVars, commitIndex, commitCh, loopVars, status, kills>>

------------------------------------------------------------------------------
(* engineApplyLoop; nobody waits for its end *)

EngineTake ==
    /\ Running /\ engineLoop.pc = "wait" /\ applyCh # <<>>
    /\ engineLoop' = [pc |-> "apply", holds |-> <<Head(applyCh)>>]
    /\ applyCh' = Tail(applyCh)
    /\ UNCHANGED <<envVars, diskVars, commitIndex, commitCh, lastApplied, applier, eng,
                   applied, high, status, kills, mainLoop>>

\* applyEntry returns and the loop goes back to its select.
EngineReturns ==
    /\ Running /\ engineLoop.pc = "apply"
    /\ engineLoop' = [pc |-> "wait", holds |-> <<>>]

\* The engine's error is dropped; a closed engine changes nothing.  If the
\* lengths in a garbled command fit its size, its bytes are written, under any
\* key.
EngineApply ==
    /\ EngineReturns
    /\ LET e == engineLoop.holds[1]
       IN  IF status = "stopped" THEN UNCHANGED <<eng, applied, high>>
           ELSE /\ applied' = applied + 1
                /\ high' = Max({high, applied + 1})
                /\ IF e.data = Garbled
                   THEN \E k \in Keys : eng' = [eng EXCEPT ![k] = Garbled]
                   ELSE eng' = applyEntry(eng, e)
    /\ UNCHANGED <<envVars, diskVars, commitIndex, commitCh, lastApplied, applier, applyCh,
                   status, kills, mainLoop>>

\* The decoders check no length: others make them slice out of range, and the
\* panic of a goroutine ends the process.  It counts as a kill, of which one may
\* follow the last.
EnginePanics ==
    /\ EngineReturns
    /\ engineLoop.holds[1].data = Garbled
    /\ kills <= MaxKills
    /\ kills' = kills + 1
    /\ Gone
    /\ UNCHANGED <<file, acked, lost>>

\* n.closeCh is closed.
EngineExit ==
    /\ status \in {"closing", "draining", "unlogged", "stopped"}
    /\ engineLoop.pc = "wait"
    /\ engineLoop' = [engineLoop EXCEPT !.pc = "done"]
    /\ UNCHANGED <<envVars, diskVars, commitIndex, commitCh, lastApplied, applier, applyCh,
                   eng, applied, high, status, kills, mainLoop>>

------------------------------------------------------------------------------
(* Node.Stop *)

StopBegins ==
    /\ status = "up"
    /\ status' = "closing"
    /\ UNCHANGED <<envVars, diskVars, commitIndex, commitCh, loopVars, kills, mainLoop>>

RaftStopBegins ==
    /\ status = "closing"
    /\ status' = "draining"
    /\ UNCHANGED <<envVars, diskVars, commitIndex, commitCh, loopVars, kills, mainLoop>>

\* r.wg.Wait, for applyLoop and mainLoop, transport.Close and log.Close.
RaftStopEnds ==
    /\ status = "draining" /\ applier.pc = "done" /\ mainLoop = "done"
    /\ status' = "unlogged"
    /\ fileOpen' = FALSE
    /\ UNCHANGED <<envVars, file, log, acked, lost, commitIndex, commitCh, loopVars, kills, mainLoop>>

EngineCloses ==
    /\ status = "unlogged"
    /\ status' = "stopped"
    /\ UNCHANGED <<envVars, diskVars, commitIndex, commitCh, loopVars, kills, mainLoop>>

------------------------------------------------------------------------------

Init ==
    /\ term = 1 /\ leaderLog = <<>> /\ committed = 0
    /\ file = <<>> /\ fileOpen = TRUE /\ log = <<>>
    /\ commitIndex = 0 /\ commitCh = 0 /\ lastApplied = 0
    /\ applier = [pc |-> "wait", idx |-> 0, to |-> 0]
    /\ applyCh = <<>>
    /\ engineLoop = [pc |-> "wait", holds |-> <<>>]
    /\ eng = [k \in Keys |-> NoValue]
    /\ mainLoop = "wait" /\ status = "up" /\ kills = 0
    /\ acked = <<>> /\ applied = 0 /\ high = 0 /\ lost = {}

ApplierStep == ApplierWake \/ ApplierSend \/ ApplierEnd \/ ApplierExit

MainStep == MainSends \/ MainAnswered \/ MainExit

EngineStep == EngineTake \/ EngineApply \/ EnginePanics \/ EngineExit

StopStep == RaftStopBegins \/ RaftStopEnds \/ EngineCloses

Next ==
    \/ ClientProposes \/ LeaderCommits \/ NewLeader
    \/ \E m \in Messages : HandleAppendEntries(m) \/ KillInHandler(m)
    \/ Kill \/ Restart \/ StopBegins
    \/ ApplierStep \/ MainStep \/ EngineStep \/ StopStep

\* A goroutine that can go on does so, and so does the caller of Stop: a call
\* of the engine returns, and no select waits for ever on a ready channel.  A
\* select with several ready channels takes one at random, so mainLoop does
\* not meet the closed channel again and again without taking it.  Nothing
\* makes a peer answer.
Fairness ==
    /\ WF_vars(ApplierStep \/ EngineTake \/ EngineExit \/ StopStep)
    /\ WF_engineLoop(EngineReturns)
    /\ SF_mainLoop(MainExit)

Spec == Init /\ [][Next]_vars /\ Fairness

------------------------------------------------------------------------------
(* Properties *)

\* The state of a node: entries sit in the log at their index, so that
\* GetEntry may compute a position from it (log.go:218-234), the commit index
\* stays within the log and what was applied within the commit index.
TypeOK ==
    /\ term \in 1 .. MaxTerm /\ committed \in 0 .. Len(leaderLog)
    /\ \A i \in DOMAIN log : log[i].index = i
    /\ commitIndex \in 0 .. Len(log) /\ commitCh \in {0, 1}
    /\ lastApplied \in 0 .. commitIndex /\ applied \in 0 .. lastApplied
    /\ Len(applyCh) <= ApplyCap
    /\ applier.pc \in {"wait", "apply", "done"}
    /\ engineLoop.pc \in {"wait", "apply", "done"}
    /\ mainLoop \in {"wait", "sending", "done"}
    /\ DOMAIN eng = Keys /\ status \in Statuses
    /\ lost \subseteq {"torn", "rewrite", "closed"}

\* An entry that the node has told a leader it stores, and that no leader has
\* overruled since, is read back by a restart at any moment, running or killed
\* (log.go:119-216, 279-319; raft.go:654-685) - except after an append behind
\* a torn record, a kill inside rewriteFile, or an answer of a stopped node
\* whose log file is closed.
AckedOnDisk ==
    lost = {} =>
        \A read \in Replays(file) :
            Len(acked) <= Len(read) /\ SubSeq(read, 1, Len(acked)) = acked

\* Only committed entries are on their way to the engine, each once and in the
\* order of the log, also while the log's tail is overwritten and after
\* restarts (applyCommitted, raft.go:573-593; engineApplyLoop, node.go:59-70).
AppliesCommitted ==
    lost = {} =>
        /\ commitIndex <= committed
        /\ SubSeq(log, 1, commitIndex) = SubSeq(EntriesOf(leaderLog), 1, commitIndex)
        /\ engineLoop.holds \o applyCh =
              SubSeq(log, lastApplied + 1 - Len(engineLoop.holds \o applyCh), lastApplied)

\* Once the node has applied as much as it ever had, its engine holds what the
\* committed commands make of an empty store: the entries that a restart
\* applies a second time leave no trace (node.go:72-84, raft.go:573-593).
EngineCaughtUp ==
    (lost = {} /\ applied = high) =>
        LET state[n \in 0 .. high] ==
                IF n = 0 THEN [k \in Keys |-> NoValue]
                ELSE LET cmd == leaderLog[n].cmd
                     IN  CASE cmd.type = "put" -> [state[n - 1] EXCEPT ![cmd.key] = cmd.value]
                           [] cmd.type = "delete" -> [state[n - 1] EXCEPT ![cmd.key] = NoValue]
                           [] cmd.type = "batch" ->
                                [state[n - 1] EXCEPT ![cmd.keys[1]] = cmd.values[1],
                                                     ![cmd.keys[2]] = cmd.values[2]]
        IN  eng = state[high]

\* No wake-up is lost: what a running node knows to be committed is applied in
\* the end, although a signal that finds commitCh full is dropped
\* (raft.go:687-699, 561-593).
CommittedApplied ==
    \A i \in 1 .. MaxLog :
        (status = "up" /\ commitIndex >= i) ~> (applied >= i \/ status # "up")

\* Stop of a node returns, also when applyLoop waits for room in applyCh and
\* engineApplyLoop has left already (node.go:86-99, raft.go:178-202) - unless
\* mainLoop waits for ever for a peer that does not answer: sendHeartbeats
\* waits for RPCs without a timeout (raft.go:451, transport.go:176), and Stop
\* for mainLoop before it closes the connections.
NodeStopReturns ==
    [](status = "closing" =>
        <>(status \in {"stopped", "down"}) \/ <>[](mainLoop = "sending"))
==============================================================================
