----------------------------- MODULE BlobStore -----------------------------
(***************************************************************************)
(* ObjectStoreBlobService (blobservice/object_store/mod.rs): uploads that  *)
(* cut a blob into chunks, and readers that put it together again, all at  *)
(* the same time on one object store.                                      *)
(*                                                                         *)
(* A content is a sequence of atoms, and stands for its own digest.  How a *)
(* content is cut depends on the uploader's average chunk size, so any cut *)
(* into consecutive pieces is possible.  An object is written whole or not *)
(* at all; every request to the object store can fail, and every upload    *)
(* can be dropped or die between two of them.                              *)
(***************************************************************************)
EXTENDS Naturals, Sequences, FiniteSets, SequencesExt

CONSTANTS
    Blobs,          \* contents uploaded
    Cuts(_),        \* the ways to cut a content that are considered
    CONCURRENT_CHUNK_UPLOADS, Uploader, Reader

ASSUME BlobsAssumption == \A b \in Blobs : b \in Seq(Range(b))

VARIABLES
    chunks,     \* objects under chunks/: contents
    index,      \* objects under blobs/: digest -> list of chunk digests
    up,         \* per uploader: "chunks", "head_blob", "put_blob", "ok", "error"
    cut,        \* per uploader: the pieces its chunker yields
    missing,    \* per uploader: positions whose head() said NotFound
    done,       \* per uploader: positions uploaded or found
    pc,         \* per reader: where it is
    want,       \* per reader: the digest asked for
    checked,    \* per reader: has() said true before open_read()
    list,       \* per reader: chunk list still to be read
    data,       \* per reader: what it has read
    result      \* per reader: "none", "absent", "read", "broken", "failed", "panic"

upload == <<up, cut, missing, done>>
read == <<pc, want, checked, list, data, result>>
vars == <<chunks, index, upload, read>>

(* The members of s, one after the other, are what b has after its first  *)
(* n atoms: at[i] atoms are over at the end of the i-th.                   *)
Continues(s, b, n) ==
    \E at \in [0 .. Len(s) -> 0 .. Len(b)] :
        /\ at[0] = n /\ at[Len(s)] = Len(b)
        /\ \A i \in DOMAIN s :
              at[i - 1] <= at[i] /\ s[i] = SubSeq(b, at[i - 1] + 1, at[i])

(* What a chunker may yield for a content: consecutive pieces of it.  (That *)
(* they continue each other, that no piece is nothing and that one piece   *)
(* is all follows from the second line; it is spelled out.)                *)
Pieces(b) ==
    {c \in Cuts(b) :
        /\ c \in Seq(Range(c))
        /\ FlattenSeq(c) = b
        /\ Continues(c, b, 0)
        /\ Len(c) = 0 => b = <<>>
        /\ Len(c) = 1 => b = c[1]}

Init ==
    /\ chunks = {} /\ index = <<>>
    /\ cut \in [Uploader -> UNION {Pieces(b) : b \in Blobs}]
    /\ up = [u \in Uploader |-> "chunks"]
    /\ missing = [u \in Uploader |-> {}]
    /\ done = [u \in Uploader |-> {}]
    /\ want \in [Reader -> Blobs]
    /\ checked = [r \in Reader |-> FALSE]
    /\ pc = [r \in Reader |-> "start"]
    /\ list = [r \in Reader |-> <<>>]
    /\ data = [r \in Reader |-> <<>>]
    /\ result = [r \in Reader |-> "none"]

-----------------------------------------------------------------------------
(* upload_chunk(), for the pieces of the window try_buffered() keeps       *)
(* running; results are taken in order.                                    *)

InWindow(u, i) ==
    /\ up[u] = "chunks" /\ i \in DOMAIN cut[u] /\ i \notin done[u]
    /\ \E j \in 1 .. i : i - j < CONCURRENT_CHUNK_UPLOADS /\ \A k \in 1 .. j - 1 : k \in done[u]

HeadChunk(u, i) ==
    /\ InWindow(u, i) /\ i \notin missing[u]
    /\ IF cut[u][i] \in chunks
       THEN done' = [done EXCEPT ![u] = @ \cup {i}] /\ UNCHANGED missing
       ELSE missing' = [missing EXCEPT ![u] = @ \cup {i}] /\ UNCHANGED done
    /\ UNCHANGED <<chunks, index, up, cut, read>>

PutChunk(u, i) ==
    /\ InWindow(u, i) /\ i \in missing[u]
    /\ chunks' = chunks \cup {cut[u][i]}
    /\ done' = [done EXCEPT ![u] = @ \cup {i}]
    /\ UNCHANGED <<index, up, cut, missing, read>>

(* try_collect() is over when every piece is; then the index follows. *)
Collect_Eager(u) ==
    /\ up[u] = "chunks" /\ done[u] \cup missing[u] = DOMAIN cut[u]
    /\ up' = [up EXCEPT ![u] = "head_blob"]
    /\ UNCHANGED <<chunks, index, cut, missing, done, read>>

Collect(u) ==
    /\ up[u] = "chunks" /\ done[u] = DOMAIN cut[u]
    /\ up' = [up EXCEPT ![u] = "head_blob"]
    /\ UNCHANGED <<chunks, index, cut, missing, done, read>>

blob_digest(u) == FlattenSeq(cut[u])

HeadBlob_AnyAnswer(u) ==
    /\ up[u] = "head_blob"
    /\ up' = [up EXCEPT ![u] = "ok"]
    /\ UNCHANGED <<chunks, index, cut, missing, done, read>>

HeadBlob(u) ==
    /\ up[u] = "head_blob"
    /\ up' = [up EXCEPT ![u] = IF blob_digest(u) \in DOMAIN index THEN "ok" ELSE "put_blob"]
    /\ UNCHANGED <<chunks, index, cut, missing, done, read>>

(* A blob that was not split up has an empty list. *)
ChunkList(u) == IF Len(cut[u]) < 2 THEN <<>> ELSE cut[u]

PutBlob(u) ==
    /\ up[u] = "put_blob"
    /\ index' = [d \in DOMAIN index \cup {blob_digest(u)} |->
                    IF d = blob_digest(u) THEN ChunkList(u) ELSE index[d]]
    /\ up' = [up EXCEPT ![u] = "ok"]
    /\ UNCHANGED <<chunks, cut, missing, done, read>>

UploadFails(u) ==
    /\ up[u] \notin {"ok", "error"}
    /\ up' = [up EXCEPT ![u] = "error"]
    /\ UNCHANGED <<chunks, index, cut, missing, done, read>>

chunk_and_upload(u) ==
    \/ \E i \in 1 .. Len(cut[u]) : HeadChunk(u, i) \/ PutChunk(u, i)
    \/ Collect(u) \/ HeadBlob(u) \/ PutBlob(u) \/ UploadFails(u)

-----------------------------------------------------------------------------

Goto(r, label) == pc' = [pc EXCEPT ![r] = label]
Return(r, res) == Goto(r, "end") /\ result' = [result EXCEPT ![r] = res]
Writers == <<chunks, index, upload>>

(* has(), as the cache calls it before open_read(); open_read() alone      *)
(* starts at "get_chunk".                                                  *)
HasBlob(r) ==
    /\ pc[r] = "start"
    /\ IF want[r] \in DOMAIN index
       THEN Goto(r, "get_chunk") /\ checked' = [checked EXCEPT ![r] = TRUE]
       ELSE Goto(r, "has_chunk") /\ UNCHANGED checked
    /\ UNCHANGED <<Writers, want, list, data, result>>

HasChunk_Assumes(r) ==
    /\ pc[r] = "has_chunk"
    /\ Goto(r, "get_chunk") /\ checked' = [checked EXCEPT ![r] = TRUE]
    /\ UNCHANGED <<Writers, want, list, data, result>>

HasChunk(r) ==
    /\ pc[r] = "has_chunk"
    /\ IF want[r] \in chunks
       THEN /\ Goto(r, "get_chunk") /\ checked' = [checked EXCEPT ![r] = TRUE]
            /\ UNCHANGED result
       ELSE Return(r, "absent") /\ UNCHANGED checked
    /\ UNCHANGED <<Writers, want, list, data>>

OpenRead(r) ==
    /\ pc[r] = "start"
    /\ Goto(r, "get_chunk")
    /\ UNCHANGED <<Writers, want, checked, list, data, result>>

(* The empty blob needs no object; a blob of one chunk is that chunk. *)
GetChunk(r) ==
    /\ pc[r] = "get_chunk"
    /\ IF want[r] = <<>> \/ want[r] \in chunks
       THEN Return(r, "read") /\ data' = [data EXCEPT ![r] = want[r]]
       ELSE Goto(r, "get_index") /\ UNCHANGED <<data, result>>
    /\ UNCHANGED <<Writers, want, checked, list>>

(* ChunkedReader::from_chunks(): from_iter() asserts there are chunks. *)
FromChunks(r, l) ==
    IF l = <<>> THEN Return(r, "panic") /\ UNCHANGED list
    ELSE Goto(r, "read_chunks") /\ list' = [list EXCEPT ![r] = l] /\ UNCHANGED result

(* chunks() *)
GetIndex(r) ==
    /\ pc[r] = "get_index"
    /\ IF want[r] \in DOMAIN index
       THEN FromChunks(r, index[want[r]])
       ELSE Goto(r, "head_chunk") /\ UNCHANGED <<list, result>>
    /\ UNCHANGED <<Writers, want, checked, data>>

(* "If there's only a chunk, we must return the empty vec here" *)
HeadOwnChunk(r) ==
    /\ pc[r] = "head_chunk"
    /\ IF want[r] \in chunks
       THEN FromChunks(r, <<>>)
       ELSE Return(r, "absent") /\ UNCHANGED list
    /\ UNCHANGED <<Writers, want, checked, data>>

(* ChunkedReader over the list, one open_read() per chunk. *)
ReadChunk(r) ==
    /\ pc[r] = "read_chunks" /\ list[r] # <<>>
    /\ IF Head(list[r]) \in chunks
       THEN /\ data' = [data EXCEPT ![r] = @ \o Head(list[r])]
            /\ list' = [list EXCEPT ![r] = Tail(@)]
            /\ UNCHANGED <<pc, result>>
       ELSE Return(r, "broken") /\ UNCHANGED <<data, list>>
    /\ UNCHANGED <<Writers, want, checked>>

ReadEnds(r) ==
    /\ pc[r] = "read_chunks" /\ list[r] = <<>>
    /\ Return(r, "read")
    /\ UNCHANGED <<Writers, want, checked, list, data>>

ReadFails(r) ==
    /\ pc[r] # "end"
    /\ Return(r, "failed")
    /\ UNCHANGED <<Writers, want, checked, list, data>>

open_read(r) ==
    \/ HasBlob(r) \/ HasChunk(r) \/ OpenRead(r)
    \/ GetChunk(r) \/ GetIndex(r) \/ HeadOwnChunk(r)
    \/ ReadChunk(r) \/ ReadEnds(r) \/ ReadFails(r)

Next ==
    \/ \E u \in Uploader : chunk_and_upload(u)
    \/ \E r \in Reader : open_read(r)

Spec == Init /\ [][Next]_vars

(* Small instances: the empty blob, a chunk on its own, and two blobs that *)
(* share it, cut at any set of places.                                     *)
FewBlobs == {<<>>, <<1>>, <<1, 2>>, <<1, 1>>}
Anywhere(b) ==
    LET ends(S) == <<0>> \o SetToSortSeq(S \cup {Len(b)}, <)
    IN IF b = <<>> THEN {<<>>}
       ELSE {[i \in 1 .. Len(ends(S)) - 1 |-> SubSeq(b, ends(S)[i] + 1, ends(S)[i + 1])] :
             S \in SUBSET (1 .. Len(b) - 1)}
Symmetry == Permutations(Uploader)

-----------------------------------------------------------------------------

(* Every chunk object is a piece of an upload, every index entry is for a  *)
(* blob that was uploaded (chunk_and_upload).                              *)
TypeOK ==
    /\ \A c \in chunks : \E u \in Uploader : c \in Range(cut[u])
    /\ DOMAIN index \subseteq Blobs
    /\ up \in [Uploader -> {"chunks", "head_blob", "put_blob", "ok", "error"}]
    /\ \A u \in Uploader : done[u] \cup missing[u] \subseteq DOMAIN cut[u]
    /\ want \in [Reader -> Blobs]
    /\ checked \in [Reader -> BOOLEAN]
    /\ pc \in [Reader -> {"start", "has_chunk", "get_chunk", "get_index", "head_chunk",
                          "read_chunks", "end"}]
    /\ result \in [Reader -> {"none", "absent", "read", "broken", "failed", "panic"}]

(* A blob only becomes visible when all of it is there: its list names     *)
(* chunks that exist and add up to it, or it is a chunk itself.            *)
IndexedChunksExist ==
    \A d \in DOMAIN index :
        IF index[d] = <<>> THEN d = <<>> \/ d \in chunks
        ELSE FlattenSeq(index[d]) = d /\ Range(index[d]) \subseteq chunks

Readable(d) == d = <<>> \/ d \in chunks \/ (d \in DOMAIN index /\ index[d] # <<>>)

(* What a finished upload returned can be read from then on. *)
UploadReadable ==
    \A u \in Uploader : up[u] = "ok" =>
        blob_digest(u) \in DOMAIN index /\ Readable(blob_digest(u))

(* "near store has the blob, so we can assume it also has all chunks":     *)
(* after has() said true, open_read() neither answers None nor trips over  *)
(* an empty chunk list, whatever uploads are under way; no reader at all   *)
(* finds a chunk of a list missing; and what a reader got at its end is    *)
(* the blob, also when its list is replaced by another cut meanwhile.      *)
NeverStranded ==
    \A r \in Reader :
        /\ result[r] # "broken"
        /\ result[r] = "read" => data[r] = want[r]
        /\ checked[r] => result[r] \notin {"absent", "panic"}

(* "Chunks must be provided, don't use this for blobs without chunks": the *)
(* assertion of ChunkedBlob::from_iter() holds in open_read().  Does not   *)
(* hold without has(): a blob of one chunk uploaded between the lookup of  *)
(* the chunk and the lookup of the list has the empty list.                *)
ChunksProvided == \A r \in Reader : result[r] # "panic"
=============================================================================
