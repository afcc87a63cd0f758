--------------------------- MODULE ChunkedReader ---------------------------
(***************************************************************************)
(* ChunkedReader (castore blobservice/chunked_reader.rs): one reader of a  *)
(* blob that is a list of chunks, reading and seeking in any order, on a   *)
(* blob service whose reads can fail.                                      *)
(*                                                                         *)
(* The bytes are put together by a flattened stream of one reader per      *)
(* chunk.  When a chunk cannot be opened, or its reader fails, the stream  *)
(* yields the error once and goes on with the next chunk.                  *)
(***************************************************************************)
EXTENDS Integers, Sequences, SequencesExt

CONSTANTS
    ChunkLists,     \* the lists of chunks considered: sequences of contents
    Offsets,        \* signed offsets a caller seeks by
    Reads           \* sizes of the buffers a caller reads into

VARIABLES
    chunks,     \* the chunks, as [start, size, data]; fixed
    pos,        \* the position the reader reports
    r,          \* what the inner reader will yield: rest of each chunk to come
    hurt,       \* a read has failed since the reader was last assembled
    out         \* outcome of the last call: an error, or the bytes and where they are from

vars == <<chunks, pos, r, hurt, out>>

Said(what) == [status |-> what, at |-> pos, bytes |-> <<>>]
Got(b) == [status |-> "read", at |-> pos, bytes |-> b]

Data == FlattenSeq([i \in DOMAIN chunks |-> chunks[i].data])

(* from_iter(): running offsets. *)
from_iter(list) ==
    [i \in DOMAIN list |->
        [start |-> Len(FlattenSeq(SubSeq(list, 1, i - 1))), size |-> Len(list[i]), data |-> list[i]]]

blob_length == Last(chunks).start + Last(chunks).size

(* binary_search_by(): any chunk its comparison calls equal. *)
get_chunk_idx_for_position(p) ==
    {i \in DOMAIN chunks : chunks[i].start <= p /\ p < chunks[i].start + chunks[i].size}

(* The chunk with the offset, without the bytes before it, and all later   *)
(* ones; at the end of the blob there is nothing to read.  Empty when no   *)
(* chunk has the offset: expect("outside of blob").                        *)
reader_skipped_offset(p) ==
    IF p = blob_length THEN {<<>>}
    ELSE {LET rest(j) == chunks[i + j - 1].data IN
          [j \in 1 .. Len(chunks) - i + 1 |->
              IF j = 1 THEN SubSeq(rest(1), p - chunks[i].start + 1, chunks[i].size) ELSE rest(j)] :
          i \in get_chunk_idx_for_position(p)}

(* from_chunks() *)
Init ==
    /\ \E list \in ChunkLists : chunks = from_iter(list)
    /\ pos = 0 /\ hurt = FALSE /\ out = Said("none")
    /\ r \in reader_skipped_offset(0)

Pieces == {i \in DOMAIN r : r[i] # <<>> /\ \A j \in 1 .. i - 1 : r[j] = <<>>}

(* poll_read(): at most what is left of one chunk. *)
poll_read(n) ==
    \/ /\ Pieces = {}
       /\ out' = Got(<<>>)
       /\ UNCHANGED <<pos, r>>
    \/ \E i \in Pieces : \E k \in 1 .. n :
          /\ k <= Len(r[i])
          /\ out' = Got(SubSeq(r[i], 1, k))
          /\ pos' = pos + k
          /\ r' = <<SubSeq(r[i], k + 1, Len(r[i]))>> \o SubSeq(r, i + 1, Len(r))

read(n) == poll_read(n) /\ UNCHANGED <<chunks, hurt>>

ReadFails ==
    /\ \E i \in Pieces : r' = SubSeq(r, i + 1, Len(r))
    /\ out' = Said("io error") /\ hurt' = TRUE
    /\ UNCHANGED <<chunks, pos>>

Absolute(whence, off) ==
    CASE whence = "Start" -> off
      [] whence = "End" -> blob_length + off
      [] whence = "Current" -> pos + off

(* start_seek(): a seek to where the reader already is keeps the inner     *)
(* reader as it is.                                                        *)
start_seek(whence, off) ==
    LET to == Absolute(whence, off) IN
    /\ whence = "Start" => off >= 0
    /\ CASE to < 0 -> out' = Said("underflow") /\ UNCHANGED <<pos, r, hurt>>
         [] to >= 0 /\ to = pos -> out' = Said("sought") /\ UNCHANGED <<pos, r, hurt>>
         [] to > blob_length /\ to # pos -> out' = Said("beyond EOF") /\ UNCHANGED <<pos, r, hurt>>
         [] to >= 0 /\ to # pos /\ to <= blob_length ->
              /\ pos' = to /\ hurt' = FALSE
              /\ IF reader_skipped_offset(to) = {} THEN out' = Said("panic") /\ UNCHANGED r
                 ELSE out' = Said("sought") /\ r' \in reader_skipped_offset(to)
    /\ UNCHANGED chunks

Next ==
    \/ \E n \in Reads : read(n)
    \/ ReadFails
    \/ \E w \in {"Start", "End", "Current"}, off \in Offsets : start_seek(w, off)

Spec == Init /\ [][Next]_vars

-----------------------------------------------------------------------------

TypeOK ==
    /\ pos \in Nat
    /\ hurt \in BOOLEAN
    /\ out.status \in {"none", "read", "io error", "underflow", "beyond EOF", "sought", "panic"}

(* "It's ok to panic here, we can only reach this by seeking, and seeking  *)
(* should already reject out-of-file seeking": with any chunk sizes, empty *)
(* chunks too, a position inside the blob always has a chunk.              *)
SeekFindsChunk == out.status # "panic"

(* As long as no read has failed, the bytes a read returns are the bytes   *)
(* of the blob at the position the reader reported, whatever seeks came    *)
(* before; and only the end of the blob reads as the end.                  *)
ReadsAtPosition ==
    ~hurt /\ out.status = "read" =>
        /\ out.bytes = SubSeq(Data, out.at + 1, out.at + Len(out.bytes))
        /\ out.bytes = <<>> => out.at = Len(Data)

=============================================================================
