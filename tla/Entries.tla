------------------------------- MODULE Entries -------------------------------
(***************************************************************************)
(* The data every layer of the storage engine passes on: an entry is one   *)
(* write to one key, an image is a set of entries with at most one per     *)
(* key (a memtable, an SSTable, or what a WAL file replays to).            *)
(*                                                                         *)
(* Key and value bytes are abstracted away.  A key is a number, because    *)
(* the code compares keys.  A value is identified by the number of the     *)
(* write that wrote it (seq), so that two writes never look alike, and by  *)
(* its kind: "put" is a value of at least one byte, "empty" a value of no  *)
(* bytes, "delete" a tombstone (a nil slice in the code).                  *)
(***************************************************************************)
EXTENDS Naturals

CONSTANT Keys    \* the keys the clients use

ASSUME KeysAssumption == Keys \subseteq Nat /\ Keys # {}

Kind == {"put", "empty", "delete"}

Entry == [seq : Nat, kind : Kind]

\* No entry for the key: what a lookup that does not find the key returns.
Absent == [seq |-> 0, kind |-> "delete"]

Image == [Keys -> Entry]

EmptyImage == [k \in Keys |-> Absent]

\* The lookup of a key in one memtable, SSTable or WAL file finds something.
Has(img, k) == img[k].seq > 0

KeysOf(img) == {k \in Keys : Has(img, k)}

\* Inserting the entries of new into an image that holds old: the skip list
\* keeps one node per key and overwrites its value.
Overlay(new, old) == [k \in Keys |-> IF Has(new, k) THEN new[k] ELSE old[k]]

------------------------------------------------------------------------------
\* Decoding.  A WAL record whose value has length 0 decodes to a nil value,
\* which the memtable takes for a tombstone.
DecodeRecord(e) == IF e.kind = "empty" THEN [e EXCEPT !.kind = "delete"] ELSE e

\* What a reader is told of an entry: the number of the write whose value is
\* returned, or NotFound.
NotFound == 0

Answer(e) == IF e.kind = "delete" THEN NotFound ELSE e.seq

\* An entry found in a memtable: only a nil value is a tombstone.
MemAnswer(e) == Answer(e)

\* An entry found in an SSTable: decodeBlock leaves the value of a zero-length
\* entry nil, and Get takes a nil value for a tombstone.
SSTAnswer(e) == IF e.kind = "put" THEN e.seq ELSE NotFound
==============================================================================
