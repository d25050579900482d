------------------------------- MODULE Engine --------------------------------
(***************************************************************************)
(* The storage engine's write, flush, read, close and recovery paths       *)
(* (engine/engine.go, with wal/wal.go, engine/manifest.go and memtable/).  *)
(* Compaction is added by EngineCompaction.                                *)
(*                                                                         *)
(* Processes: any number of clients, whose calls hold e.mu from beginning  *)
(* to end and are therefore one step each; the flush goroutine, which      *)
(* takes e.mu only in two of the steps of flushMemtable; the goroutine     *)
(* that calls Close.  The process may be killed between any two steps, and *)
(* inside a WAL append.                                                    *)
(*                                                                         *)
(* A memtable is identified by the number of the WAL file that was active  *)
(* when it was frozen.  A write may or may not fill the memtable: sizes    *)
(* are not modelled.  System calls do not fail, except by the crash.       *)
(***************************************************************************)
EXTENDS Entries, Sequences, FiniteSets

CONSTANTS
    Kinds,       \* the kinds of entry the clients write
    MaxBatch,    \* bound on the records of one BatchPut
    MaxWrites,   \* bound on the write calls of a behaviour
    MaxRestarts, \* bound on the crashes and calls of Close
    MaxTears,    \* bound on the crashes that leave a torn WAL record
    FlushCap,    \* capacity of flushCh (16 in the code)
    MaxLevels    \* Options.MaxLevels (7 by default)

ASSUME EngineAssumption ==
    /\ Kinds \subseteq Kind
    /\ MaxBatch \in Nat /\ MaxWrites \in Nat
    /\ MaxRestarts \in Nat /\ MaxTears \in Nat
    /\ FlushCap \in Nat \ {0}
    /\ MaxLevels \in Nat \ {0}

Level == 0 .. MaxLevels - 1

VARIABLES
    (* on disk *)
    wal,         \* WAL files: file number -> what replaying the file yields
    manifest,    \* the levels that replaying the MANIFEST yields
    ssts,        \* SSTable files: file number -> content
    (* in memory *)
    phase,       \* where the engine is between Open and the end of Close
    mem,         \* e.memtable
    frozen,      \* e.memtable has been frozen (only Close freezes it in place)
    imms,        \* e.immutableMems, newest first
    walID,       \* number of the active WAL file
    levels,      \* e.levels: readers, with the content they have mapped
    nextFile,    \* e.nextFileNum
    flushCh,     \* the memtables queued for the flush goroutine
    fl,          \* the call of flushMemtable in progress
    (* history *)
    writes,      \* number of write calls so far
    acked,       \* last write to each key that was acknowledged
    logged,      \* last write to each key whose WAL record was appended
    dropped,     \* a full flushCh has dropped a flush task
    unread,      \* a record was appended behind a torn one
    restarts,    \* crashes and calls of Close so far
    tears        \* crashes that left a torn record so far

diskVars == <<wal, manifest, ssts>>
memVars  == <<phase, mem, frozen, imms, walID, levels, nextFile, flushCh, fl>>
histVars == <<writes, acked, logged, dropped, unread, restarts, tears>>
vars     == <<diskVars, memVars, histVars>>

------------------------------------------------------------------------------
(* Types *)

WalFile  == [img : Image, torn : BOOLEAN]
Memtable == [id : Nat, data : Image]
Meta     == [num : Nat, keys : SUBSET Keys]
Reader   == [num : Nat, data : Image]
Phase    == {"up", "draining", "drained", "flushing", "flushed", "down"}
Flush    == [pc : {"idle", "written", "listed", "installed", "purging"},
             id : Nat, num : Nat, data : Image, walID : Nat]

Idle == [pc |-> "idle", id |-> 0, num |-> 0, data |-> EmptyImage, walID |-> 0]

EmptyWalFile == [img |-> EmptyImage, torn |-> FALSE]

\* Each variable ranges over the values the Go declarations give it.
TypeOK ==
    /\ DOMAIN wal \subseteq Nat /\ wal \in [DOMAIN wal -> WalFile]
    /\ manifest \in [Level -> Seq(Meta)]
    /\ DOMAIN ssts \subseteq Nat /\ ssts \in [DOMAIN ssts -> Image]
    /\ phase \in Phase
    /\ mem \in Image
    /\ frozen \in BOOLEAN
    /\ imms \in Seq(Memtable)
    /\ walID \in Nat
    /\ levels \in [Level -> Seq(Reader)]
    /\ nextFile \in Nat
    /\ flushCh \in Seq(Nat)
    /\ fl \in Flush
    /\ writes \in Nat
    /\ acked \in Image
    /\ logged \in Image
    /\ dropped \in BOOLEAN /\ unread \in BOOLEAN
    /\ restarts \in Nat /\ tears \in Nat

------------------------------------------------------------------------------
(* Helpers *)

Greatest(S) == CHOOSE x \in S : \A y \in S : x >= y
Least(S)    == CHOOSE x \in S : \A y \in S : x <= y

\* The function f with f[x] = v, x in its domain or not.
Put1(f, x, v) == [y \in DOMAIN f \cup {x} |-> IF y = x THEN v ELSE f[y]]

Without(s, i) == [j \in 1 .. Len(s) - 1 |-> IF j < i THEN s[j] ELSE s[j + 1]]

MetaOf(n, img) == [num |-> n, keys |-> KeysOf(img)]

MinKey(m) == Least(m.keys)
MaxKey(m) == Greatest(m.keys)

\* A call writes a batch b of records (one record for Put and Delete), all
\* numbered with the call.  The image of its first n records: a later record
\* for a key overwrites an earlier one.
NewImage(b, n) ==
    [k \in Keys |->
        LET I == {i \in 1 .. n : b[i].key = k}
        IN  IF I = {} THEN Absent
            ELSE [seq |-> writes + 1, kind |-> b[Greatest(I)].kind]]

BatchesUpTo(max) == UNION {[1 .. n -> [key : Keys, kind : Kinds]] : n \in 1 .. max}

------------------------------------------------------------------------------
(* The read path *)

\* Mutant: the search stops at the first file that may hold k, not the last.
FindFirstForKey(lv, l, k) ==
    LET below == {i \in DOMAIN manifest[l] : MinKey(manifest[l][i]) <= k}
        m     == manifest[l][CHOOSE i \in below :
                     \A j \in below : MinKey(manifest[l][i]) <= MinKey(manifest[l][j])]
    IN  IF lv[l] = <<>> \/ below = {} THEN EmptyImage
        ELSE IF k > MaxKey(m) THEN EmptyImage
        ELSE lv[l][CHOOSE i \in DOMAIN lv[l] : KeysOf(lv[l][i].data) = m.keys].data

\* findSSTableForKey: the image of the one SSTable of a level >= 1 whose key
\* range holds k, found through the manifest's metadata among the readers lv.
FindSSTableForKey(lv, l, k) ==
    LET below   == {i \in DOMAIN manifest[l] : MinKey(manifest[l][i]) <= k}
        m       == manifest[l][CHOOSE i \in below :
                        \A j \in below : MinKey(manifest[l][i]) >= MinKey(manifest[l][j])]
        lo(i)   == Least(KeysOf(lv[l][i].data))
        hi(i)   == Greatest(KeysOf(lv[l][i].data))
        same    == {i \in DOMAIN lv[l] : lo(i) = MinKey(m) /\ hi(i) = MaxKey(m)}
        around  == {i \in DOMAIN lv[l] : lo(i) <= k /\ k <= hi(i)}
    IN  IF lv[l] = <<>> \/ below = {} THEN EmptyImage
        ELSE IF k > MaxKey(m) THEN EmptyImage
        ELSE IF same # {} THEN lv[l][Least(same)].data
        ELSE IF around # {} THEN lv[l][Least(around)].data
        ELSE EmptyImage

\* The body of Get, for a memtable m, immutable memtables is and readers lv:
\* active memtable, immutable memtables newest first, every L0 SSTable newest
\* first, then one SSTable per level.
Lookup(m, is, lv, k) ==
    LET inImms == {i \in DOMAIN is : Has(is[i].data, k)}
        inL0   == {i \in DOMAIN lv[0] : Has(lv[0][i].data, k)}
        below  == {l \in Level \ {0} : Has(FindSSTableForKey(lv, l, k), k)}
    IN  IF Has(m, k)          THEN MemAnswer(m[k])
        ELSE IF inImms # {}   THEN MemAnswer(is[Least(inImms)].data[k])
        ELSE IF inL0 # {}     THEN SSTAnswer(lv[0][Greatest(inL0)].data[k])
        ELSE IF below # {}    THEN SSTAnswer(FindSSTableForKey(lv, Least(below), k)[k])
        ELSE NotFound

Get(k) == Lookup(mem, imms, levels, k)

\* The entry of k that the merge iterator of ReadRange yields: the sources in
\* the order of their priorities are the active memtable, the immutable ones,
\* the L0 readers newest first, then every reader of every level in turn.
MergedEntry(k) ==
    LET inImms == {i \in DOMAIN imms : Has(imms[i].data, k)}
        inL0   == {i \in DOMAIN levels[0] : Has(levels[0][i].data, k)}
        in(l)  == {i \in DOMAIN levels[l] : Has(levels[l][i].data, k)}
        below  == {l \in Level \ {0} : in(l) # {}}
    IN  IF Has(mem, k)        THEN mem[k]
        ELSE IF inImms # {}   THEN imms[Least(inImms)].data[k]
        ELSE IF inL0 # {}     THEN levels[0][Greatest(inL0)].data[k]
        ELSE IF below # {}    THEN levels[Least(below)][Least(in(Least(below)))].data[k]
        ELSE Absent

\* ReadRange: the keys of lo .. hi that are not deleted, with their values.
ReadRange(lo, hi) ==
    [k \in {j \in Keys : /\ lo <= j /\ j <= hi
                         /\ Answer(MergedEntry(j)) # NotFound} |->
        Answer(MergedEntry(k))]

------------------------------------------------------------------------------
(* Recovery, as functions of what is on disk *)

\* Mutant: replay in descending order.
ReplayDescending ==
    [k \in Keys |->
        LET I == {i \in DOMAIN wal : Has(wal[i].img, k)}
        IN  IF I = {} THEN Absent ELSE DecodeRecord(wal[Least(I)].img[k])]

\* Replay of every WAL file in ascending order into a new memtable.
ReplayImage ==
    [k \in Keys |->
        LET I == {i \in DOMAIN wal : Has(wal[i].img, k)}
        IN  IF I = {} THEN Absent ELSE DecodeRecord(wal[Greatest(I)].img[k])]

\* The readers Open creates from the manifest.
OpenLevels ==
    [l \in Level |-> [i \in 1 .. Len(manifest[l]) |->
        [num |-> manifest[l][i].num, data |-> ssts[manifest[l][i].num]]]]

ListedFiles ==
    UNION {{manifest[l][i].num : i \in DOMAIN manifest[l]} : l \in Level}

\* What Get would answer if the process were killed now and restarted.
Recovered(k) == Lookup(ReplayImage, <<>>, OpenLevels, k)

OpenWalID == IF DOMAIN wal = {} THEN 1 ELSE Greatest(DOMAIN wal)

------------------------------------------------------------------------------
(* Client calls *)

\* The active WAL file after appending an image.  Replay stops at a torn
\* record, so what is appended behind one is never seen again.
WalAppend(new) ==
    [wal EXCEPT ![walID].img = IF wal[walID].torn THEN @ ELSE Overlay(new, @)]

\* The WAL files w after Rotate: the active file stays, a new one follows it.
Rotate(w) == Put1(w, walID + 1, EmptyWalFile)

\* Mutant: the frozen memtable goes to the end of the list.
ScheduleFlushAppend(m, w) ==
    /\ wal' = Rotate(w)
    /\ walID' = walID + 1
    /\ imms' = Append(imms, [id |-> walID, data |-> m])
    /\ mem' = EmptyImage
    /\ \/ /\ Len(flushCh) < FlushCap
          /\ flushCh' = Append(flushCh, walID)
          /\ UNCHANGED dropped
       \/ /\ Len(flushCh) >= FlushCap
          /\ dropped' = TRUE
          /\ UNCHANGED flushCh

\* Mutant: the flush task is not sent.
ScheduleFlushSilent(m, w) ==
    /\ wal' = Rotate(w)
    /\ walID' = walID + 1
    /\ imms' = <<[id |-> walID, data |-> m]>> \o imms
    /\ mem' = EmptyImage
    /\ UNCHANGED <<flushCh, dropped>>

\* maybeScheduleFlush once the memtable, holding m, has reached its size and
\* the log is w: freeze, rotate the WAL, queue the frozen memtable unless the
\* channel is full.
ScheduleFlush(m, w) ==
    /\ wal' = Rotate(w)
    /\ walID' = walID + 1
    /\ imms' = <<[id |-> walID, data |-> m]>> \o imms
    /\ mem' = EmptyImage
    /\ \/ /\ Len(flushCh) < FlushCap
          /\ flushCh' = Append(flushCh, walID)
          /\ UNCHANGED dropped
       \/ /\ Len(flushCh) >= FlushCap
          /\ dropped' = TRUE
          /\ UNCHANGED flushCh

\* The body of Put, Delete and BatchPut: append to the WAL, insert into the
\* memtable, schedule a flush if that filled it (full).  A memtable that Close
\* has frozen refuses the insertion: the call fails with the record logged.
Write(b, full) ==
    LET new == NewImage(b, Len(b))
    IN  /\ phase # "down"
        /\ writes < MaxWrites
        /\ writes' = writes + 1
        /\ logged' = Overlay(new, logged)
        /\ unread' = (unread \/ wal[walID].torn)
        /\ \/ /\ frozen /\ ~full
              /\ wal' = WalAppend(new)
              /\ UNCHANGED <<mem, imms, walID, flushCh, acked, dropped>>
           \/ /\ ~frozen /\ ~full
              /\ wal' = WalAppend(new)
              /\ mem' = Overlay(new, mem)
              /\ acked' = Overlay(new, acked)
              /\ UNCHANGED <<imms, walID, flushCh, dropped>>
           \/ /\ ~frozen /\ full
              /\ ScheduleFlush(Overlay(new, mem), WalAppend(new))
              /\ acked' = Overlay(new, acked)
        /\ UNCHANGED <<manifest, ssts, phase, frozen, levels, nextFile, fl,
                       restarts, tears>>

Put(k, kind, full) ==
    kind # "delete" /\ Write(<<[key |-> k, kind |-> kind]>>, full)

Delete(k, full) ==
    "delete" \in Kinds /\ Write(<<[key |-> k, kind |-> "delete"]>>, full)

BatchPut(b, full) == Len(b) > 1 /\ Write(b, full)

------------------------------------------------------------------------------
(* flushMemtable, called by the flush goroutine and by Close *)

\* Mutant: the file is created only after it has been listed.
WriteSSTableLate(id, data, wid) ==
    /\ fl' = [pc |-> "written", id |-> id, num |-> nextFile,
              data |-> data, walID |-> wid]
    /\ nextFile' = nextFile + 1
    /\ UNCHANGED ssts

\* From allocFileNum to OpenReader: the SSTable is complete and synced, and
\* nothing refers to it yet.  NewWriter truncates a file of the same number.
WriteSSTable(id, data, wid) ==
    /\ fl' = [pc |-> "written", id |-> id, num |-> nextFile,
              data |-> data, walID |-> wid]
    /\ ssts' = Put1(ssts, nextFile, data)
    /\ nextFile' = nextFile + 1

\* The flush goroutine takes the next task.  After closeCh is closed it goes
\* on until the channel is empty.
FlushTake ==
    /\ phase \in {"up", "draining"}
    /\ fl.pc = "idle"
    /\ flushCh # <<>>
    /\ \E i \in DOMAIN imms :
          /\ imms[i].id = Head(flushCh)
          /\ WriteSSTable(imms[i].id, imms[i].data, imms[i].id)
    /\ flushCh' = Tail(flushCh)
    /\ UNCHANGED <<wal, manifest, phase, mem, frozen, imms, walID, levels,
                   histVars>>

\* manifest.AddFile: takes the manifest's mutex, not e.mu.
FlushAddFile ==
    /\ fl.pc = "written"
    /\ manifest' = [manifest EXCEPT ![0] = Append(@, MetaOf(fl.num, fl.data))]
    /\ fl' = [fl EXCEPT !.pc = "listed"]
    /\ UNCHANGED <<wal, ssts, phase, mem, frozen, imms, walID, levels,
                   nextFile, flushCh, histVars>>

\* Mutant: the new reader is not kept.
FlushInstallForgotten ==
    /\ fl.pc = "listed"
    /\ fl' = [fl EXCEPT !.pc = "installed"]
    /\ UNCHANGED <<diskVars, phase, mem, frozen, imms, walID, levels, nextFile,
                   flushCh, histVars>>

\* The reader joins e.levels[0] under e.mu.
FlushInstall ==
    /\ fl.pc = "listed"
    /\ levels' = [levels EXCEPT ![0] =
                     Append(@, [num |-> fl.num, data |-> fl.data])]
    /\ fl' = [fl EXCEPT !.pc = "installed"]
    /\ UNCHANGED <<diskVars, phase, mem, frozen, imms, walID, nextFile,
                   flushCh, histVars>>

\* removeImmutable under e.mu.  The active memtable, which Close flushes, is
\* not in the list.
RemoveImmutable ==
    /\ fl.pc = "installed"
    /\ \/ \E i \in DOMAIN imms : /\ imms[i].id = fl.id
                                 /\ imms' = Without(imms, i)
       \/ /\ \A i \in DOMAIN imms : imms[i].id # fl.id
          /\ UNCHANGED imms
    /\ fl' = [fl EXCEPT !.pc = "purging"]
    /\ UNCHANGED <<diskVars, phase, mem, frozen, walID, levels, nextFile,
                   flushCh, histVars>>

\* PurgeOlderThan removes the files one by one in ascending order.
PurgeOlderThan ==
    /\ fl.pc = "purging"
    /\ \E i \in DOMAIN wal :
          /\ i <= fl.walID
          /\ \A j \in DOMAIN wal : i <= j
          /\ wal' = [j \in DOMAIN wal \ {i} |-> wal[j]]
    /\ UNCHANGED <<manifest, ssts, memVars, histVars>>

\* flushMemtable returns.
FlushDone ==
    /\ fl.pc = "purging"
    /\ \A j \in DOMAIN wal : j > fl.walID
    /\ fl' = Idle
    /\ UNCHANGED <<diskVars, phase, mem, frozen, imms, walID, levels,
                   nextFile, flushCh, histVars>>

------------------------------------------------------------------------------
(* Close *)

\* The first critical section of Close, and close(closeCh).
CloseBegin ==
    /\ phase = "up"
    /\ restarts < MaxRestarts
    /\ restarts' = restarts + 1
    /\ phase' = "draining"
    /\ UNCHANGED <<diskVars, mem, frozen, imms, walID, levels, nextFile,
                   flushCh, fl, writes, acked, logged, dropped, unread, tears>>

\* Mutant: the flush goroutine waits until every memtable has been flushed.
FlushLoopExitWaits ==
    /\ phase = "draining"
    /\ fl.pc = "idle"
    /\ flushCh = <<>>
    /\ imms = <<>>
    /\ phase' = "drained"
    /\ UNCHANGED <<diskVars, mem, frozen, imms, walID, levels, nextFile,
                   flushCh, fl, histVars>>

\* flushLoop finds closeCh closed and flushCh empty, and returns.
FlushLoopExit ==
    /\ phase = "draining"
    /\ fl.pc = "idle"
    /\ flushCh = <<>>
    /\ phase' = "drained"
    /\ UNCHANGED <<diskVars, mem, frozen, imms, walID, levels, nextFile,
                   flushCh, fl, histVars>>

\* After wg.Wait, Close freezes the active memtable and flushes it itself.
\* The task has no WAL number, so no WAL file is purged.
CloseFlushActive ==
    /\ phase = "drained"
    /\ phase' = "flushing"
    /\ \/ /\ KeysOf(mem) # {}
          /\ frozen' = TRUE
          /\ WriteSSTable(0, mem, 0)
       \/ /\ KeysOf(mem) = {}
          /\ UNCHANGED <<frozen, fl, ssts, nextFile>>
    /\ UNCHANGED <<wal, manifest, mem, imms, walID, levels, flushCh, histVars>>

\* The loop over the immutable memtables that are left, oldest first.
CloseFlushImmutable ==
    /\ phase = "flushing"
    /\ fl.pc = "idle"
    /\ imms # <<>>
    /\ WriteSSTable(imms[Len(imms)].id, imms[Len(imms)].data, 0)
    /\ UNCHANGED <<wal, manifest, phase, mem, frozen, imms, walID, levels,
                   flushCh, histVars>>

\* What was in memory is gone.  From now on the clients can expect what was
\* logged, lg.
Stop(lg) ==
    /\ phase' = "down"
    /\ mem' = EmptyImage
    /\ frozen' = FALSE
    /\ imms' = <<>>
    /\ walID' = 0
    /\ levels' = [l \in Level |-> <<>>]
    /\ nextFile' = 0
    /\ flushCh' = <<>>
    /\ fl' = Idle
    /\ logged' = lg
    /\ acked' = lg

\* The loop ends and e.mu is released.
CloseFlushed ==
    /\ phase = "flushing"
    /\ fl.pc = "idle"
    /\ imms = <<>>
    /\ phase' = "flushed"
    /\ UNCHANGED <<diskVars, mem, frozen, imms, walID, levels, nextFile, flushCh,
                   fl, histVars>>

\* The end of Close: the WAL, the readers and the manifest are closed.  A late
\* write may have left another memtable, which is in the WAL only.
CloseEnd ==
    /\ phase = "flushed"
    /\ Stop(logged)
    /\ UNCHANGED <<diskVars, writes, dropped, unread, restarts, tears>>

------------------------------------------------------------------------------
(* Crash and recovery *)

\* The process is killed between two steps.  A kill inside a call of Write
\* after the last record was logged has the same effect as one after it.
Crash ==
    /\ phase # "down"
    /\ restarts < MaxRestarts
    /\ restarts' = restarts + 1
    /\ Stop(logged)
    /\ UNCHANGED <<diskVars, writes, dropped, unread, tears>>

\* The process is killed inside Append or AppendBatch, with n records of the
\* batch complete in the file and maybe a part of the next one (torn).
CrashInWrite(b, n, torn) ==
    LET new == IF wal[walID].torn THEN EmptyImage ELSE NewImage(b, n)
    IN  /\ phase # "down"
        /\ n < Len(b)
        /\ torn \/ n > 0
        /\ torn => tears < MaxTears
        /\ writes < MaxWrites
        /\ restarts < MaxRestarts
        /\ restarts' = restarts + 1
        /\ tears' = IF torn THEN tears + 1 ELSE tears
        /\ writes' = writes + 1
        /\ wal' = [WalAppend(new) EXCEPT ![walID].torn = @ \/ torn]
        /\ Stop(Overlay(new, logged))
        /\ UNCHANGED <<manifest, ssts, dropped, unread>>

\* Mutant: numbering starts at the last file.
OpenSameNumber ==
    /\ phase = "down"
    /\ ListedFiles \subseteq DOMAIN ssts
    /\ phase' = "up"
    /\ levels' = OpenLevels
    /\ nextFile' = Greatest(ListedFiles \cup {0})
    /\ walID' = OpenWalID
    /\ wal' = IF OpenWalID \in DOMAIN wal THEN wal
              ELSE Put1(wal, OpenWalID, EmptyWalFile)
    /\ mem' = ReplayImage
    /\ UNCHANGED <<manifest, ssts, frozen, imms, flushCh, fl, histVars>>

\* Open fails if an SSTable that the manifest lists cannot be opened.
Open ==
    /\ phase = "down"
    /\ ListedFiles \subseteq DOMAIN ssts
    /\ phase' = "up"
    /\ levels' = OpenLevels
    /\ nextFile' = Greatest(ListedFiles \cup {0}) + 1
    /\ walID' = OpenWalID
    /\ wal' = IF OpenWalID \in DOMAIN wal THEN wal
              ELSE Put1(wal, OpenWalID, EmptyWalFile)
    /\ mem' = ReplayImage
    /\ UNCHANGED <<manifest, ssts, frozen, imms, flushCh, fl, histVars>>

------------------------------------------------------------------------------
(* The specification *)

\* An engine that has been opened on an empty directory.
Init ==
    /\ wal = [i \in {1} |-> EmptyWalFile]
    /\ manifest = [l \in Level |-> <<>>]
    /\ ssts = [n \in {} |-> EmptyImage]
    /\ phase = "up"
    /\ mem = EmptyImage
    /\ frozen = FALSE
    /\ imms = <<>>
    /\ walID = 1
    /\ levels = [l \in Level |-> <<>>]
    /\ nextFile = 1
    /\ flushCh = <<>>
    /\ fl = Idle
    /\ writes = 0
    /\ acked = EmptyImage
    /\ logged = EmptyImage
    /\ dropped = FALSE /\ unread = FALSE
    /\ restarts = 0 /\ tears = 0

ClientStep ==
    \/ \E k \in Keys, kind \in Kinds, full \in BOOLEAN : Put(k, kind, full)
    \/ \E k \in Keys, full \in BOOLEAN : Delete(k, full)
    \/ \E b \in BatchesUpTo(MaxBatch), full \in BOOLEAN : BatchPut(b, full)

FlushStep ==
    \/ FlushTake
    \/ FlushAddFile
    \/ FlushInstall
    \/ RemoveImmutable
    \/ PurgeOlderThan
    \/ FlushDone

CloseStep ==
    \/ FlushLoopExit
    \/ CloseFlushActive
    \/ CloseFlushImmutable
    \/ CloseFlushed
    \/ CloseEnd

Next ==
    \/ ClientStep
    \/ FlushStep
    \/ CloseBegin
    \/ CloseStep
    \/ Crash
    \/ \E b \in BatchesUpTo(MaxBatch), n \in 0 .. MaxBatch, torn \in BOOLEAN :
          CrashInWrite(b, n, torn)
    \/ Open

Spec == Init /\ [][Next]_vars

\* The Go scheduler runs a goroutine that can proceed, and its mutex starves
\* nobody: the flush goroutine and a Close in progress take their steps.
FairSpec == Spec /\ WF_vars(FlushStep) /\ WF_vars(CloseStep)

------------------------------------------------------------------------------
(* Properties *)

\* Neither of the two things has happened that lose or reorder writes: a flush
\* task dropped on a full channel, a record appended behind a torn one.
Intact == ~dropped /\ ~unread

\* Get answers with the last acknowledged write to the key, at every point of
\* a flush, of Close and after every recovery.  (A value of length 0 reads as
\* deleted once it has been flushed or replayed, and is left out.)
ReadLatest ==
    Intact /\ phase # "down" =>
        \A k \in Keys :
            acked[k].kind # "empty" => Get(k) = Answer(acked[k])

\* A restart at any moment answers with the last write whose WAL record was
\* appended, whichever WAL files have been purged and SSTables listed since.
Durable ==
    Intact =>
        \A k \in Keys :
            logged[k].kind # "empty" => Recovered(k) = Answer(logged[k])

\* Open never fails: at every moment the manifest lists only complete files.
OpenSucceeds == ListedFiles \subseteq DOMAIN ssts

\* A file the manifest lists is never written again, although Open hands out
\* the numbers of unlisted files a second time.
ListedImmutable ==
    [][\A n \in ListedFiles :
          n \in DOMAIN ssts /\ n \in DOMAIN ssts' => ssts'[n] = ssts[n]]_vars

\* A frozen memtable leaves the list of immutable memtables in the end: the
\* flush goroutine or Close writes it to L0, or the process stops, unless a
\* full channel dropped a task.
FlushedInTheEnd ==
    \A i \in 1 .. MaxWrites + 1 :
        (\E j \in DOMAIN imms : imms[j].id = i)
            ~> (dropped \/ \A j \in DOMAIN imms : imms[j].id # i)

\* Close returns (or the process is killed first).
CloseReturns == phase = "draining" ~> phase = "down"

(* What the README says and the code does not do. *)

\* README: recovery with zero data loss.
ZeroDataLoss ==
    \A k \in Keys : acked[k].kind = "put" => Recovered(k) >= acked[k].seq
==============================================================================
