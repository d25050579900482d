--------------------------- MODULE EngineCompaction --------------------------
(***************************************************************************)
(* The engine with its compaction goroutine (engine/compaction.go).        *)
(*                                                                         *)
(* A compaction reads the levels under the read lock, merges and writes    *)
(* its output without a lock, and then holds e.mu while it edits the       *)
(* manifest record by record and swaps the readers.  While it holds e.mu   *)
(* no client call and no critical section of a flush or of Close runs,     *)
(* but a flush may add to the manifest, which has a lock of its own.       *)
(*                                                                         *)
(* The size of an SSTable is the number of its keys.  Levels 1 and up are  *)
(* written by this goroutine only, so the steps between its first read     *)
(* lock and the end of writeCompactionOutput are one action.               *)
(***************************************************************************)
EXTENDS Engine

CONSTANTS
    L0CompactTrigger,  \* Options.L0CompactTrigger (4 by default)
    L1TargetSize,      \* l1TargetSize, in keys
    TargetFileSize     \* targetFileSize, in keys

ASSUME CompactionAssumption ==
    /\ MaxLevels > 1
    /\ L0CompactTrigger \in Nat \ {0}
    /\ L1TargetSize \in Nat
    /\ TargetFileSize \in Nat \ {0}

VARIABLES
    compactCh,   \* a signal is pending in compactCh (capacity 1)
    cp,          \* the compaction goroutine
    lost         \* history: a crash hit a half-edited manifest, or a flush
                 \* that was listed but not installed was compacted away

compactVars == <<compactCh, cp, lost>>
allVars == <<vars, compactVars>>

\* pc "check": about to look at level lvl; "merged": output written, e.mu not
\* yet taken; "editing": e.mu held.  The rest describes the change to make:
\* manifest records, readers to drop and to add, files to delete.
Edit == [op : {"remove", "add"}, level : Level, meta : Meta]
Compaction ==
    [pc : {"idle", "check", "merged", "editing", "exited"}, lvl : Nat,
     edits : Seq(Edit), old : SUBSET Nat, new : Seq(Reader), files : SUBSET Nat]

Resting(pc, l) ==
    [pc |-> pc, lvl |-> l, edits |-> <<>>, old |-> {}, new |-> <<>>, files |-> {}]

muFree == cp.pc # "editing"

CompactionTypeOK ==
    /\ TypeOK
    /\ compactCh \in BOOLEAN /\ lost \in BOOLEAN
    /\ cp \in Compaction

------------------------------------------------------------------------------
(* Merging *)

\* What the merge iterator yields for sources in the order of priority: the
\* entry of the first source that holds the key.
MergeImage(rs) ==
    [k \in Keys |->
        LET I == {i \in DOMAIN rs : Has(rs[i].data, k)}
        IN  IF I = {} THEN Absent ELSE rs[Least(I)].data[k]]

\* The priority of an L0 reader in compactL0 is its index in the slice, so
\* the order of priority is the order of the slice, the oldest file first.
L0Order(rs) == rs

\* writeCompactionOutput: the merged entries in key order, cut when a file
\* has reached its target size.  The files get numbers from n on.
WriteCompactionOutput(img, n) ==
    LET S       == KeysOf(img)
        file(k) == Cardinality({j \in S : j < k}) \div TargetFileSize + 1
        count   == (Cardinality(S) + TargetFileSize - 1) \div TargetFileSize
    IN  [i \in 1 .. count |->
            [num  |-> n + i - 1,
             data |-> [k \in Keys |->
                          IF k \in S /\ file(k) = i THEN img[k] ELSE Absent]]]

KeyRange(r) == MetaOf(r.num, r.data)

SameRange(r, m) ==
    MinKey(KeyRange(r)) = MinKey(m) /\ MaxKey(KeyRange(r)) = MaxKey(m)

\* Mutant: files that only touch the range do not count as overlapping.
OverlappingStrict(l, lo, hi) ==
    SelectSeq(manifest[l],
        LAMBDA m : /\ MinKey(m) < hi /\ MaxKey(m) > lo
                   /\ \E i \in DOMAIN levels[l] : SameRange(levels[l][i], m))

\* findOverlapping: the manifest entries of level l that meet lo .. hi and
\* have a reader with the same key range, and those readers.
OverlappingMetas(l, lo, hi) ==
    SelectSeq(manifest[l],
        LAMBDA m : /\ MinKey(m) <= hi /\ MaxKey(m) >= lo
                   /\ \E i \in DOMAIN levels[l] : SameRange(levels[l][i], m))

ReaderOf(l, m) ==
    levels[l][Least({i \in DOMAIN levels[l] : SameRange(levels[l][i], m)})]

FindOverlapping(l, lo, hi) ==
    LET ms == OverlappingMetas(l, lo, hi)
    IN  [metas   |-> ms,
         readers |-> [i \in DOMAIN ms |-> ReaderOf(l, ms[i])]]

Nums(s) == {s[i].num : i \in DOMAIN s}

Edits(op, l, ms) ==
    [i \in DOMAIN ms |-> [op |-> op, level |-> l, meta |-> ms[i]]]

\* Mutant: the files of the source level stay in the manifest.
MergedKeepSource(sources, from, fromMetas, l, targetMetas) ==
    LET out == WriteCompactionOutput(MergeImage(sources), nextFile)
    IN  /\ cp' = [pc |-> "merged", lvl |-> from,
                  edits |-> Edits("remove", l, targetMetas)
                            \o Edits("add", l, [i \in DOMAIN out |-> KeyRange(out[i])]),
                  old |-> Nums(sources), new |-> out,
                  files |-> Nums(fromMetas) \cup Nums(targetMetas)]
        /\ ssts' = [n \in DOMAIN ssts \cup Nums(out) |->
                       IF n \in Nums(out) THEN out[n - nextFile + 1].data
                       ELSE ssts[n]]
        /\ nextFile' = nextFile + Len(out)

\* The output of merging sources into level l is on disk; what remains to be
\* done under e.mu: take the metas of level from and of level l out of the
\* manifest, add the new ones, swap the readers, delete the files.
Merged(sources, from, fromMetas, l, targetMetas) ==
    LET out == WriteCompactionOutput(MergeImage(sources), nextFile)
    IN  /\ cp' = [pc |-> "merged", lvl |-> from,
                  edits |-> Edits("remove", from, fromMetas)
                            \o Edits("remove", l, targetMetas)
                            \o Edits("add", l, [i \in DOMAIN out |-> KeyRange(out[i])]),
                  old |-> Nums(sources), new |-> out,
                  files |-> Nums(fromMetas) \cup Nums(targetMetas)]
        /\ ssts' = [n \in DOMAIN ssts \cup Nums(out) |->
                       IF n \in Nums(out) THEN out[n - nextFile + 1].data
                       ELSE ssts[n]]
        /\ nextFile' = nextFile + Len(out)

------------------------------------------------------------------------------
(* The compaction goroutine *)

\* Mutant: only the newest L0 file is merged down.
RunCompactionNewest ==
    LET n     == Len(levels[0])
        l0    == SubSeq(levels[0], n, n)
        metas == SelectSeq(manifest[0], LAMBDA m : m.num \in Nums(l0))
        lo    == Least(KeysOf(l0[1].data))
        hi    == Greatest(KeysOf(l0[1].data))
        l1    == FindOverlapping(1, lo, hi)
    IN  /\ cp.pc = "idle"
        /\ compactCh
        /\ phase \in {"up", "draining", "drained"}
        /\ compactCh' = FALSE
        /\ \/ /\ n >= L0CompactTrigger
              /\ Merged(l0 \o l1.readers, 0, metas, 1, l1.metas)
           \/ /\ n < L0CompactTrigger
              /\ cp' = Resting("check", 1)
              /\ UNCHANGED <<ssts, nextFile>>
        /\ UNCHANGED <<wal, manifest, phase, mem, frozen, imms, walID, levels,
                       flushCh, fl, histVars, lost>>

\* runCompaction, up to the end of the merge of compactL0 when L0 has reached
\* the trigger.  The L0 metadata come from the manifest, the L0 readers from
\* e.levels: a flush between AddFile and its installation is in one only.
RunCompaction ==
    LET l0    == levels[0]
        metas == manifest[0]
        lo    == Least(UNION {KeysOf(l0[i].data) : i \in DOMAIN l0})
        hi    == Greatest(UNION {KeysOf(l0[i].data) : i \in DOMAIN l0})
        l1    == FindOverlapping(1, lo, hi)
    IN  /\ cp.pc = "idle"
        /\ compactCh
        /\ phase \in {"up", "draining", "drained"}
        /\ compactCh' = FALSE
        /\ \/ /\ Len(l0) >= L0CompactTrigger
              /\ Merged(L0Order(l0) \o l1.readers, 0, metas, 1, l1.metas)
              /\ lost' = (lost \/ Nums(metas) # Nums(l0))
           \/ /\ Len(l0) < L0CompactTrigger
              /\ cp' = Resting("check", 1)
              /\ UNCHANGED <<ssts, nextFile, lost>>
        /\ UNCHANGED <<wal, manifest, phase, mem, frozen, imms, walID, levels,
                       flushCh, fl, histVars>>

\* One manifest record, with e.mu held from the first to the last.
CompactEdit ==
    /\ cp.pc \in {"merged", "editing"}
    /\ cp.edits # <<>>
    /\ LET e == Head(cp.edits)
       IN  manifest' = [manifest EXCEPT ![e.level] =
               IF e.op = "add" THEN Append(@, e.meta)
               ELSE SelectSeq(@, LAMBDA m : m.num # e.meta.num)]
    /\ cp' = [cp EXCEPT !.pc = "editing", !.edits = Tail(@)]
    /\ UNCHANGED <<wal, ssts, memVars, histVars, compactCh, lost>>

\* Mutant: the loop goes on with the level above.
CompactInstallBack ==
    LET kept(l) == SelectSeq(levels[l], LAMBDA r : r.num \notin cp.old)
    IN  /\ cp.pc = "editing"
        /\ cp.edits = <<>>
        /\ levels' = [levels EXCEPT ![cp.lvl] = kept(cp.lvl),
                                    ![cp.lvl + 1] = kept(cp.lvl + 1) \o cp.new]
        /\ ssts' = [n \in DOMAIN ssts \ cp.files |-> ssts[n]]
        /\ cp' = Resting("check", cp.lvl - 1)
        /\ UNCHANGED <<wal, manifest, phase, mem, frozen, imms, walID,
                       nextFile, flushCh, fl, histVars, compactCh, lost>>

\* Mutant: the new readers are not kept.
CompactInstallForgets ==
    LET kept(l) == SelectSeq(levels[l], LAMBDA r : r.num \notin cp.old)
    IN  /\ cp.pc = "editing"
        /\ cp.edits = <<>>
        /\ levels' = [levels EXCEPT ![cp.lvl] = kept(cp.lvl),
                                    ![cp.lvl + 1] = kept(cp.lvl + 1)]
        /\ ssts' = [n \in DOMAIN ssts \ cp.files |-> ssts[n]]
        /\ cp' = Resting("check", cp.lvl + 1)
        /\ UNCHANGED <<wal, manifest, phase, mem, frozen, imms, walID,
                       nextFile, flushCh, fl, histVars, compactCh, lost>>

\* The readers are swapped, the old files deleted, e.mu released.
CompactInstall ==
    LET kept(l) == SelectSeq(levels[l], LAMBDA r : r.num \notin cp.old)
    IN  /\ cp.pc = "editing"
        /\ cp.edits = <<>>
        /\ levels' = [levels EXCEPT ![cp.lvl] = kept(cp.lvl),
                                    ![cp.lvl + 1] = kept(cp.lvl + 1) \o cp.new]
        /\ ssts' = [n \in DOMAIN ssts \ cp.files |-> ssts[n]]
        /\ cp' = Resting("check", cp.lvl + 1)
        /\ UNCHANGED <<wal, manifest, phase, mem, frozen, imms, walID,
                       nextFile, flushCh, fl, histVars, compactCh, lost>>

\* needsCompaction: more keys at level l than its target.
LevelSize(l) ==
    Cardinality(UNION {{i} \X manifest[l][i].keys : i \in DOMAIN manifest[l]})

LevelTargetSize(l) == L1TargetSize * 10 ^ (l - 1)

\* The loop of runCompaction at level l, and the merge of compactLevel: the
\* first file of the level goes into the next level.
CheckLevel ==
    LET l      == cp.lvl
        src    == levels[l][1]
        metas  == SelectSeq(manifest[l], LAMBDA m : SameRange(src, m))
        target == FindOverlapping(l + 1, MinKey(KeyRange(src)), MaxKey(KeyRange(src)))
        needed == /\ l < MaxLevels - 1
                  /\ LevelSize(l) > LevelTargetSize(l)
                  /\ levels[l] # <<>>
                  /\ metas # <<>>
    IN  /\ cp.pc = "check"
        /\ \/ /\ l >= MaxLevels - 1
              /\ cp' = Resting("idle", 0)
              /\ UNCHANGED <<ssts, nextFile>>
           \/ /\ l < MaxLevels - 1 /\ ~needed
              /\ cp' = Resting("check", l + 1)
              /\ UNCHANGED <<ssts, nextFile>>
           \/ /\ needed
              /\ Merged(<<src>> \o target.readers, l, SubSeq(metas, 1, 1),
                        l + 1, target.metas)
        /\ UNCHANGED <<wal, manifest, phase, mem, frozen, imms, walID, levels,
                       flushCh, fl, histVars, compactCh, lost>>

\* compactionLoop finds closeCh closed.
CompactionLoopExit ==
    /\ cp.pc = "idle"
    /\ phase \in {"draining", "drained"}
    /\ cp' = Resting("exited", 0)
    /\ UNCHANGED <<vars, compactCh, lost>>

CompactionStep ==
    \/ RunCompaction
    \/ CompactEdit
    \/ CompactInstall
    \/ CheckLevel
    \/ CompactionLoopExit

------------------------------------------------------------------------------
(* Composition with the engine *)

\* Steps of the engine that take e.mu, and those that do not.
LockedStep == ClientStep \/ FlushInstall \/ RemoveImmutable \/ CloseBegin

UnlockedStep == FlushTake \/ FlushAddFile \/ PurgeOlderThan \/ FlushLoopExit

\* Mutant: no signal.
FlushDoneSilent == FlushDone /\ UNCHANGED compactVars

\* flushMemtable ends with a signal on compactCh, unless one is pending.
FlushDoneSignal == FlushDone /\ compactCh' = TRUE /\ UNCHANGED <<cp, lost>>

\* wg.Wait: Close goes on when both goroutines have returned.
CloseLockedStep ==
    /\ cp.pc = "exited"
    /\ CloseFlushActive \/ CloseFlushImmutable \/ CloseFlushed
    /\ UNCHANGED compactVars

Reset == compactCh' = FALSE /\ cp' = Resting("idle", 0)

CloseEndReset == CloseEnd /\ Reset /\ UNCHANGED lost

\* A crash may hit a half-edited manifest.
CrashReset ==
    /\ Crash
    /\ Reset
    /\ lost' = (lost \/ (cp.pc = "editing" /\ cp.edits # <<>>))

CrashInWriteReset ==
    /\ muFree
    /\ \E b \in BatchesUpTo(MaxBatch), n \in 0 .. MaxBatch, torn \in BOOLEAN :
          CrashInWrite(b, n, torn)
    /\ Reset
    /\ UNCHANGED lost

CompactionInit ==
    /\ Init
    /\ compactCh = FALSE
    /\ cp = Resting("idle", 0)
    /\ lost = FALSE

CompactionNext ==
    \/ muFree /\ LockedStep /\ UNCHANGED compactVars
    \/ UnlockedStep /\ UNCHANGED compactVars
    \/ FlushDoneSignal
    \/ CloseLockedStep
    \/ CloseEndReset
    \/ CrashReset
    \/ CrashInWriteReset
    \/ Open /\ UNCHANGED compactVars
    \/ CompactionStep

CompactionSpec == CompactionInit /\ [][CompactionNext]_allVars

\* The flush and the compaction goroutine and a Close in progress are
\* scheduled by the Go runtime; nothing obliges a client to call.
CompactionFairSpec ==
    /\ CompactionSpec
    /\ WF_allVars((muFree /\ (FlushInstall \/ RemoveImmutable) /\ UNCHANGED compactVars)
                   \/ ((FlushTake \/ FlushAddFile \/ PurgeOlderThan) /\ UNCHANGED compactVars)
                   \/ FlushDoneSignal)
    /\ WF_allVars((FlushLoopExit /\ UNCHANGED compactVars)
                   \/ CloseLockedStep \/ CloseEndReset)
    /\ WF_allVars(CompactionStep)

------------------------------------------------------------------------------
(* Properties *)

\* The files of a level above 0 do not overlap, neither in the manifest (even
\* while it is being edited, so also after a crash) nor among the readers:
\* Get opens one file per level only.
LevelsDisjoint ==
    \A l \in Level \ {0} :
        /\ \A i, j \in DOMAIN manifest[l] :
              i # j => \/ MaxKey(manifest[l][i]) < MinKey(manifest[l][j])
                       \/ MaxKey(manifest[l][j]) < MinKey(manifest[l][i])
        /\ \A i, j \in DOMAIN levels[l] :
              i # j => LET a == KeyRange(levels[l][i])
                           b == KeyRange(levels[l][j])
                       IN  MaxKey(a) < MinKey(b) \/ MaxKey(b) < MinKey(a)

\* Get, which finds its file through the manifest, and ReadRange, which merges
\* all readers, agree on every key whose value is not of length 0.
RangeMatchesGet ==
    phase # "down" /\ muFree =>
        \A lo, hi \in Keys : \A k \in Keys :
            acked[k].kind # "empty" =>
                IF lo <= k /\ k <= hi /\ Get(k) # NotFound
                THEN k \in DOMAIN ReadRange(lo, hi) /\ ReadRange(lo, hi)[k] = Get(k)
                ELSE k \notin DOMAIN ReadRange(lo, hi)

\* With clients that only put: a key once acknowledged is found, now and after
\* a restart, whatever has been merged, listed and deleted since, as long as
\* neither of the events recorded by lost has happened.
KeysSurvive ==
    Intact /\ ~lost /\ muFree =>
        \A k \in Keys :
            /\ phase # "down" /\ Has(acked, k) => Get(k) # NotFound
            /\ Has(logged, k) => Recovered(k) # NotFound

\* Data moves down in age order: what a file of a level holds of a key, each
\* file of L0 included, is not older than what a deeper level holds of it.
DeeperIsOlder ==
    Intact /\ ~lost =>
        \A l, m \in Level :
            l < m =>
                \A i \in DOMAIN levels[l], j \in DOMAIN levels[m], k \in Keys :
                    /\ Has(levels[l][i].data, k)
                    /\ Has(levels[m][j].data, k)
                    => levels[l][i].data[k].seq >= levels[m][j].data[k].seq

\* L0 gets below its trigger again after every flush, unless the process is
\* killed or closed: the signal that a flush sends is not lost, even when
\* compactCh already holds one.
L0Drains ==
    Len(levels[0]) >= L0CompactTrigger
        ~> (restarts > 0 \/ Len(levels[0]) < L0CompactTrigger)

(* What comments and documents say and the code does not do. *)

\* compactL0: "lower index in reversed order = newer"; README: when two
\* sources have the same key, the newer version wins.
NewerVersionWins ==
    phase # "down" /\ muFree => \A k \in Keys : Get(k) = Answer(acked[k])

\* README: zero data loss.  A restart at a moment when no compaction edits
\* the manifest finds every key again.
FlushedKeysKept ==
    muFree => \A k \in Keys : Has(logged, k) => Recovered(k) # NotFound
==============================================================================
