------------------------------ MODULE Protocol -------------------------------
(***************************************************************************)
(* The wire format of the TCP server (server/protocol.go).                 *)
(*                                                                         *)
(* A payload is a sequence of cells.  A cell is one byte, or the four      *)
(* bytes of a length, which are always written and read together.  Keys    *)
(* and values are sequences of bytes.  A decoder answers with a record     *)
(* whose field ok tells whether the payload was long enough.  A length is  *)
(* a number without bound: the ones that the encoders write do not exceed  *)
(* the frame, whose length is itself a uint32.                             *)
(***************************************************************************)
EXTENDS Integers, Sequences, SequencesExt

Failed == [ok |-> FALSE]

(* Encoders *)

Prefixed(bytes) == <<Len(bytes)>> \o bytes

EncodeKey(key) == Prefixed(key)

EncodeValue(value) == Prefixed(value)

EncodePut(key, value) == Prefixed(key) \o Prefixed(value)

EncodeRange(startKey, endKey) == Prefixed(startKey) \o Prefixed(endKey)

EncodeBatchPut(keys, values) ==
    <<Len(keys)>> \o FlattenSeq([i \in DOMAIN keys |-> EncodePut(keys[i], values[i])])

EncodeKVPairs(keys, values) == EncodeBatchPut(keys, values)

------------------------------------------------------------------------------
(* Decoders *)

\* The length-prefixed bytes behind the first off cells of p, and the offset
\* behind them.
FieldAt(p, off) ==
    IF Len(p) < off + 1 THEN Failed
    ELSE IF Len(p) < off + 1 + p[off + 1] THEN Failed
    ELSE [ok |-> TRUE, bytes |-> SubSeq(p, off + 2, off + 1 + p[off + 1]),
          next |-> off + 1 + p[off + 1]]

DecodeKey(p) == FieldAt(p, 0)

DecodeValue(p) == FieldAt(p, 0)

\* Mutant: the first field is returned twice.
PairAtTwice(p, off) ==
    LET first  == FieldAt(p, off)
        second == IF first.ok THEN FieldAt(p, first.next) ELSE Failed
    IN  IF second.ok
        THEN [ok |-> TRUE, key |-> first.bytes, value |-> first.bytes,
              next |-> second.next]
        ELSE Failed

\* Two fields in a row.
PairAt(p, off) ==
    LET first  == FieldAt(p, off)
        second == IF first.ok THEN FieldAt(p, first.next) ELSE Failed
    IN  IF second.ok
        THEN [ok |-> TRUE, key |-> first.bytes, value |-> second.bytes,
              next |-> second.next]
        ELSE Failed

DecodePut(p) == PairAt(p, 0)

DecodeRange(p) == PairAt(p, 0)

\* count pairs, one after the other; the result after i of them is read[i].
DecodeBatchPut(p) ==
    LET count == p[1]
        read[i \in 0 .. count] ==
            IF i = 0 THEN [ok |-> TRUE, keys |-> <<>>, values |-> <<>>, next |-> 1]
            ELSE LET got == IF read[i - 1].ok THEN PairAt(p, read[i - 1].next) ELSE Failed
                 IN  IF got.ok
                     THEN [ok |-> TRUE, next |-> got.next,
                           keys |-> Append(read[i - 1].keys, got.key),
                           values |-> Append(read[i - 1].values, got.value)]
                     ELSE Failed
    IN  IF Len(p) < 1 THEN Failed ELSE read[count]

DecodeKVPairs(p) == DecodeBatchPut(p)

------------------------------------------------------------------------------
(* Frames: a length, a command or status, and the payload *)

Frame(code, p) == <<Len(p) + 1, code>> \o p

WriteRequest(cmd, p) == Frame(cmd, p)

WriteResponse(status, p) == Frame(status, p)

\* Mutant: the length is taken to count the command byte twice.
ReadFrameShort(stream) ==
    [code |-> stream[2], payload |-> SubSeq(stream, 3, stream[1]),
     rest |-> SubSeq(stream, stream[1] + 2, Len(stream))]

\* The first frame of a stream that holds one, and the rest of the stream.
ReadFrame(stream) ==
    [code |-> stream[2], payload |-> SubSeq(stream, 3, stream[1] + 1),
     rest |-> SubSeq(stream, stream[1] + 2, Len(stream))]

ReadResponse(stream) == ReadFrame(stream)
==============================================================================
