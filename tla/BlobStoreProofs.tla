-------------------------- MODULE BlobStoreProofs --------------------------
(***************************************************************************)
(* Proofs about BlobStore, for any blobs, any way of cutting them, any     *)
(* number of uploaders and readers and any size of the upload window.      *)
(***************************************************************************)
EXTENDS BlobStore, SequenceTheorems, TLAPS

AllCuts == UNION {Pieces(b) : b \in Blobs}

(* An upload has stored what it takes for done, and all of its pieces once *)
(* it is past them.                                                        *)
UInv(u) ==
    /\ cut[u] \in AllCuts
    /\ done[u] \subseteq DOMAIN cut[u]
    /\ \A i \in done[u] : cut[u][i] \in chunks
    /\ up[u] \in {"head_blob", "put_blob"} => done[u] = DOMAIN cut[u]
    /\ up[u] = "ok" => blob_digest(u) \in DOMAIN index

(* An index entry is a list of stored chunks that add up to the blob. *)
XInv ==
    \A d \in DOMAIN index :
        /\ index[d] \in Seq(chunks)
        /\ index[d] = <<>> => d = <<>> \/ d \in chunks
        /\ index[d] # <<>> => FlattenSeq(index[d]) = d /\ Continues(index[d], d, 0)

(* A reader's list is stored; one that asked has() can still find the blob *)
(* at each of its steps.                                                   *)
RInv(r) ==
    /\ list[r] \in Seq(chunks)
    /\ pc[r] # "end" => result[r] = "none"
    /\ pc[r] \in {"start", "has_chunk", "head_chunk"} => ~checked[r]
    /\ checked[r] => want[r] = <<>> \/ want[r] \in chunks \/ want[r] \in DOMAIN index
    /\ result[r] # "broken"
    /\ checked[r] => result[r] \notin {"absent", "panic"}

(* A reader that asked has() and found no chunk finds a list with chunks:  *)
(* an upload in one piece would have stored the chunk before it looked at  *)
(* the index, so it is not about to put an empty list there.               *)
GInv(r) ==
    checked[r] /\ pc[r] = "get_index" =>
        /\ want[r] \in DOMAIN index /\ index[want[r]] # <<>>
        /\ \A u \in Uploader : up[u] = "put_blob" /\ blob_digest(u) = want[r] => ~(Len(cut[u]) < 2)

(* A reader has read the beginning of its blob, and its list is the rest. *)
DInv(r) ==
    /\ pc[r] \notin {"read_chunks", "end"} => data[r] = <<>>
    /\ pc[r] = "read_chunks" =>
          \E n \in 0 .. Len(want[r]) :
              data[r] = SubSeq(want[r], 1, n) /\ Continues(list[r], want[r], n)
    /\ result[r] = "read" => data[r] = want[r]

Shape ==
    /\ want \in [Reader -> Blobs] /\ data = [r \in Reader |-> data[r]]
    /\ DOMAIN up = Uploader /\ DOMAIN done = Uploader
    /\ DOMAIN missing = Uploader /\ DOMAIN cut = Uploader
    /\ up = [u \in Uploader |-> up[u]] /\ done = [u \in Uploader |-> done[u]]
    /\ pc = [r \in Reader |-> pc[r]] /\ list = [r \in Reader |-> list[r]]
    /\ result = [r \in Reader |-> result[r]] /\ checked \in [Reader -> BOOLEAN]

IInv ==
    /\ Shape
    /\ \A u \in Uploader : UInv(u)
    /\ XInv
    /\ \A r \in Reader : RInv(r) /\ GInv(r) /\ DInv(r)

(* Sequences of stored chunks stay so while the store grows. *)
LEMMA StoredSeqGrows ==
    ASSUME NEW S, NEW T, S \subseteq T, NEW s \in Seq(S)
    PROVE  s \in Seq(T)
  OBVIOUS

(* The pieces of an upload, once all stored, are a list of stored chunks. *)
LEMMA SeqOfStored ==
    ASSUME NEW S, NEW c, c \in Seq(Range(c)), \A i \in DOMAIN c : c[i] \in S
    PROVE  c \in Seq(S)
  BY DEF Range

(* A list of less than two chunks has none or one. *)
LEMMA BelowTwo ==
    ASSUME NEW n \in Nat, n < 2
    PROVE  n = 0 \/ n = 1
  OBVIOUS

(* What the chunker yields is a sequence that adds up to the content; a    *)
(* content in less than two pieces is empty or the piece.                  *)
LEMMA CutFacts ==
    ASSUME NEW c \in AllCuts
    PROVE  /\ c \in Seq(Range(c))
           /\ Len(c) = 0 => FlattenSeq(c) = <<>>
           /\ Len(c) = 1 => FlattenSeq(c) = c[1]
           /\ Continues(c, FlattenSeq(c), 0)
  BY Zenon DEF AllCuts, Pieces

(* One more chunk of the rest is one more beginning, and leaves its rest. *)
LEMMA ContinuesStep ==
    ASSUME NEW S, NEW b \in Seq(S), NEW T, NEW s \in Seq(T), s # <<>>,
           NEW n \in 0 .. Len(b), Continues(s, b, n)
    PROVE  \E m \in 0 .. Len(b) :
              /\ SubSeq(b, 1, n) \o Head(s) = SubSeq(b, 1, m)
              /\ Continues(Tail(s), b, m)
  <1>1. PICK at \in [0 .. Len(s) -> 0 .. Len(b)] :
            /\ at[0] = n /\ at[Len(s)] = Len(b)
            /\ \A i \in DOMAIN s :
                  at[i - 1] <= at[i] /\ s[i] = SubSeq(b, at[i - 1] + 1, at[i])
    BY Zenon DEF Continues
  <1>2. /\ Len(s) \in Nat /\ Len(s) >= 1 /\ Head(s) = s[1] /\ 1 \in DOMAIN s
        /\ DOMAIN s = 1 .. Len(s)
        /\ Tail(s) \in Seq(T) /\ Len(Tail(s)) = Len(s) - 1
        /\ \A i \in 1 .. Len(s) - 1 : Tail(s)[i] = s[i + 1]
    OBVIOUS
  <1> DEFINE m == at[1]
  <1>3. m \in 0 .. Len(b) /\ n <= m /\ Head(s) = SubSeq(b, n + 1, m)
    <2>1. at[1 - 1] = n /\ 1 \in 0 .. Len(s)
      BY <1>1, <1>2
    <2>2. at[1] \in 0 .. Len(b)
      BY <1>1, <2>1, Zenon
    <2> QED
      BY <1>1, <1>2, <2>1, <2>2, Zenon
  <1>4. SubSeq(b, 1, n) \o SubSeq(b, n + 1, m) = SubSeq(b, 1, m)
    <2>1. Len(b) \in Nat /\ 1 \in 1 .. Len(b) + 1 /\ n \in 1 - 1 .. Len(b) /\ m \in n .. Len(b)
      BY <1>3
    <2> QED
      BY <2>1, ConcatAdjacentSubSeq, Zenon
  <1>5. Continues(Tail(s), b, m)
    <2> DEFINE later == [i \in 0 .. Len(s) - 1 |-> at[i + 1]]
    <2>1. later \in [0 .. Len(Tail(s)) -> 0 .. Len(b)]
      BY <1>1, <1>2
    <2>2. later[0] = m /\ later[Len(Tail(s))] = Len(b)
      BY <1>1, <1>2
    <2>3. ASSUME NEW i \in DOMAIN Tail(s)
          PROVE  later[i - 1] <= later[i] /\ Tail(s)[i] = SubSeq(b, later[i - 1] + 1, later[i])
      <3>1. i \in 1 .. Len(s) - 1 /\ i + 1 \in DOMAIN s /\ (i + 1) - 1 = i
        BY <1>2
      <3>2. later[i - 1] = at[i] /\ later[i] = at[i + 1]
        BY <3>1
      <3> QED
        BY <1>1, <1>2, <3>1, <3>2, ZenonT(30)
    <2> QED
      BY <2>1, <2>2, <2>3, Zenon DEF Continues
  <1> QED
    BY <1>3, <1>4, <1>5, Zenon

(* Nothing is left when the list is at its end. *)
LEMMA ContinuesEnd ==
    ASSUME NEW S, NEW b \in Seq(S), NEW n, Continues(<<>>, b, n)
    PROVE  SubSeq(b, 1, n) = b
  <1>1. n = Len(b)
    BY Zenon DEF Continues
  <1> QED
    BY <1>1

(* A content in less than two pieces, all stored, is empty or stored. *)
LEMMA SmallCutStored ==
    ASSUME NEW S, NEW c \in AllCuts, \A i \in DOMAIN c : c[i] \in S, Len(c) < 2
    PROVE  FlattenSeq(c) = <<>> \/ FlattenSeq(c) \in S
  <1>1. c \in Seq(S)
    BY CutFacts, SeqOfStored, Zenon
  <1>2. Len(c) \in Nat
    BY <1>1, LenProperties, Zenon
  <1>3. Len(c) = 0 \/ Len(c) = 1
    BY <1>2, BelowTwo, Zenon
  <1> QED
    BY <1>1, <1>3, CutFacts

(* open_write() starts with nothing uploaded. *)
LEMMA InitHolds == Init => IInv
  BY DEF Init, IInv, Shape, UInv, XInv, RInv, GInv, DInv, AllCuts

-----------------------------------------------------------------------------
(* Chunks and index entries are only ever added, so what a reader relies   *)
(* on survives every step of an upload that keeps the index sound.         *)
LEMMA ReadersKept ==
    ASSUME IInv, UNCHANGED read, chunks \subseteq chunks',
           DOMAIN index \subseteq DOMAIN index'
    PROVE  \A r \in Reader : RInv(r)' /\ DInv(r)'
  <1> SUFFICES ASSUME NEW r \in Reader PROVE RInv(r)' /\ DInv(r)'
    BY Zenon
  <1>1. list[r] \in Seq(chunks')
    BY StoredSeqGrows, Zenon DEF IInv, RInv
  <1>2. DInv(r)'
    BY Zenon DEF IInv, DInv, read
  <1> QED
    BY <1>1, <1>2, Zenon DEF IInv, RInv, read

(* A step that changes neither the index nor how far uploads are. *)
LEMMA GuardKept ==
    ASSUME IInv, UNCHANGED <<index, up, cut, pc, want, checked>>
    PROVE  \A r \in Reader : GInv(r)'
  BY Zenon DEF IInv, GInv, blob_digest

(* upload_chunk() finding a chunk takes it for done, and it is stored. *)
LEMMA HeadChunkStep ==
    ASSUME IInv, NEW u \in Uploader, NEW i \in 1 .. Len(cut[u]), HeadChunk(u, i)
    PROVE  IInv'
  <1>1. \A r \in Reader : RInv(r)' /\ DInv(r)'
    BY ReadersKept, Zenon DEF HeadChunk, read
  <1>2. ASSUME NEW v \in Uploader PROVE UInv(v)'
    BY <1>2 DEF IInv, Shape, UInv, HeadChunk, InWindow, blob_digest
  <1>3. XInv'
    BY Zenon DEF IInv, XInv, HeadChunk
  <1>4. Shape'
    BY Zenon DEF IInv, Shape, HeadChunk, read
  <1>5. \A r \in Reader : GInv(r)'
    BY GuardKept, Zenon DEF HeadChunk, read
  <1> QED
    BY <1>1, <1>2, <1>3, <1>4, <1>5, Zenon DEF IInv

(* upload_chunk() storing a chunk. *)
LEMMA PutChunkStep ==
    ASSUME IInv, NEW u \in Uploader, NEW i \in 1 .. Len(cut[u]), PutChunk(u, i)
    PROVE  IInv'
  <1>0. chunks \subseteq chunks' /\ index' = index
    BY Zenon DEF PutChunk
  <1>1. \A r \in Reader : RInv(r)' /\ DInv(r)'
    BY <1>0, ReadersKept, Zenon DEF PutChunk, read
  <1>2. ASSUME NEW v \in Uploader PROVE UInv(v)'
    BY <1>2, Zenon DEF IInv, Shape, UInv, PutChunk, InWindow, blob_digest
  <1>3. XInv'
    <2> SUFFICES ASSUME NEW d \in DOMAIN index PROVE index[d] \in Seq(chunks')
      BY <1>0, Zenon DEF IInv, XInv
    <2> QED
      BY <1>0, StoredSeqGrows, Zenon DEF IInv, XInv
  <1>4. Shape'
    BY Zenon DEF IInv, Shape, PutChunk, read
  <1>5. \A r \in Reader : GInv(r)'
    BY GuardKept, Zenon DEF PutChunk, read
  <1> QED
    BY <1>1, <1>2, <1>3, <1>4, <1>5, Zenon DEF IInv

(* chunk_and_upload() storing the list: all of it is stored by then. *)
LEMMA PutBlobStep ==
    ASSUME IInv, NEW u \in Uploader, PutBlob(u)
    PROVE  IInv'
  <1>0. /\ chunks' = chunks /\ DOMAIN index' = DOMAIN index \cup {blob_digest(u)}
        /\ index'[blob_digest(u)] = ChunkList(u)
        /\ \A d \in DOMAIN index : d # blob_digest(u) => index'[d] = index[d]
    BY Zenon DEF PutBlob
  <1>1. \A r \in Reader : RInv(r)' /\ DInv(r)'
    BY <1>0, ReadersKept, Zenon DEF PutBlob, read
  <1>2. ASSUME NEW v \in Uploader PROVE UInv(v)'
    BY <1>0, <1>2, Zenon DEF IInv, Shape, UInv, PutBlob, blob_digest
  <1>3. XInv'
    <2>1. /\ cut[u] \in AllCuts /\ \A i \in DOMAIN cut[u] : cut[u][i] \in chunks
      BY Zenon DEF IInv, UInv, PutBlob
    <2>2. cut[u] \in Seq(chunks)
      BY <2>1, CutFacts, SeqOfStored, Zenon
    <2>3. CASE Len(cut[u]) < 2
      <3>1. ChunkList(u) = <<>>
        BY <2>3, Zenon DEF ChunkList
      <3>3. blob_digest(u) = <<>> \/ blob_digest(u) \in chunks
        BY <2>1, <2>3, SmallCutStored, Zenon DEF blob_digest
      <3>4. <<>> \in Seq(chunks)
        OBVIOUS
      <3> QED
        BY <1>0, <3>1, <3>3, <3>4, Zenon DEF IInv, XInv
    <2>4. CASE ~(Len(cut[u]) < 2)
      <3>1. ChunkList(u) = cut[u] /\ cut[u] # <<>>
        BY <2>4 DEF ChunkList
      <3>2. /\ FlattenSeq(ChunkList(u)) = blob_digest(u)
            /\ Continues(ChunkList(u), blob_digest(u), 0)
        BY <2>1, <3>1, CutFacts, Zenon DEF blob_digest
      <3> QED
        BY <1>0, <2>2, <3>1, <3>2, Zenon DEF IInv, XInv
    <2> QED
      BY <2>3, <2>4, Zenon
  <1>4. Shape'
    BY Zenon DEF IInv, Shape, PutBlob, read
  <1>5. ASSUME NEW r \in Reader PROVE GInv(r)'
    <2> SUFFICES ASSUME checked[r], pc[r] = "get_index"
                 PROVE  /\ want[r] \in DOMAIN index' /\ index'[want[r]] # <<>>
                        /\ \A v \in Uploader : up'[v] = "put_blob" /\ blob_digest(v) = want[r]
                              => ~(Len(cut[v]) < 2)
      BY Zenon DEF GInv, PutBlob, read, blob_digest
    <2>1. /\ want[r] \in DOMAIN index /\ index[want[r]] # <<>>
          /\ \A v \in Uploader : up[v] = "put_blob" /\ blob_digest(v) = want[r]
                => ~(Len(cut[v]) < 2)
      BY <1>5, Zenon DEF IInv, GInv
    <2>2. CASE want[r] = blob_digest(u)
      <3>1. ~(Len(cut[u]) < 2)
        BY <2>1, <2>2, Zenon DEF PutBlob
      <3>2. ChunkList(u) # <<>>
        BY <3>1 DEF ChunkList
      <3> QED
        BY <1>0, <2>1, <2>2, <3>2, Zenon DEF PutBlob, IInv, Shape
    <2>3. CASE want[r] # blob_digest(u)
      BY <1>0, <2>1, <2>3, Zenon DEF PutBlob, IInv, Shape
    <2> QED
      BY <2>2, <2>3, Zenon
  <1> QED
    BY <1>1, <1>2, <1>3, <1>4, <1>5, Zenon DEF IInv

(* The steps of an upload that write nothing. *)
LEMMA OtherUploadStep ==
    ASSUME IInv, NEW u \in Uploader, Collect(u) \/ HeadBlob(u) \/ UploadFails(u)
    PROVE  IInv'
  <1>0. UNCHANGED <<chunks, index, cut, missing, done, read>>
    BY Zenon DEF Collect, HeadBlob, UploadFails
  <1>1. \A r \in Reader : RInv(r)' /\ DInv(r)'
    BY <1>0, ReadersKept, Zenon
  <1>2. ASSUME NEW v \in Uploader PROVE UInv(v)'
    BY <1>0, <1>2, Zenon DEF IInv, Shape, UInv, Collect, HeadBlob, UploadFails, blob_digest
  <1>3. XInv'
    BY <1>0, Zenon DEF IInv, XInv
  <1>4. Shape'
    BY <1>0, Zenon DEF IInv, Shape, Collect, HeadBlob, UploadFails, read
  <1>5. ASSUME NEW r \in Reader PROVE GInv(r)'
    BY <1>0, <1>5 DEF IInv, Shape, GInv, Collect, HeadBlob, UploadFails, blob_digest, read
  <1> QED
    BY <1>1, <1>2, <1>3, <1>4, <1>5, Zenon DEF IInv

-----------------------------------------------------------------------------
(* What a reader has read grows by the chunk it reads, and is the whole    *)
(* blob at the end of the list.                                            *)
LEMMA ReaderData ==
    ASSUME IInv, NEW r \in Reader, open_read(r)
    PROVE  DInv(r)'
  <1>1. /\ want' = want /\ want[r] \in Seq(Range(want[r]))
    BY BlobsAssumption, Zenon DEF IInv, Shape, open_read, HasBlob, HasChunk, OpenRead, GetChunk, GetIndex,
           HeadOwnChunk, ReadChunk, ReadEnds, ReadFails
  <1>2. CASE HasBlob(r) \/ HasChunk(r) \/ OpenRead(r) \/ HeadOwnChunk(r) \/ ReadFails(r)
    BY <1>1, <1>2, Zenon DEF IInv, Shape, RInv, DInv, HasBlob, HasChunk, OpenRead, HeadOwnChunk, ReadFails,
           FromChunks, Goto, Return
  <1>3. CASE GetChunk(r)
    <2>1. data[r] = <<>> /\ result[r] = "none"
      BY <1>3, Zenon DEF IInv, RInv, DInv, GetChunk
    <2>2. CASE want[r] = <<>> \/ want[r] \in chunks
      <3>1. pc'[r] = "end" /\ data'[r] = want[r]
        BY <1>3, <2>2, Zenon DEF IInv, Shape, GetChunk, Goto, Return
      <3> QED
        BY <1>1, <3>1, Zenon DEF DInv
    <2>3. CASE ~(want[r] = <<>> \/ want[r] \in chunks)
      <3>1. pc'[r] = "get_index" /\ data'[r] = data[r] /\ result'[r] = result[r]
        BY <1>3, <2>3, Zenon DEF IInv, Shape, GetChunk, Goto
      <3> QED
        BY <2>1, <3>1, Zenon DEF DInv
    <2> QED
      BY <2>2, <2>3, Zenon
  <1>4. CASE GetIndex(r)
    <2>1. CASE want[r] \in DOMAIN index /\ index[want[r]] # <<>>
      <3>1. /\ pc'[r] = "read_chunks" /\ list'[r] = index[want[r]] /\ data'[r] = <<>>
            /\ result'[r] # "read"
        BY <1>4, <2>1, Zenon DEF IInv, Shape, RInv, DInv, GetIndex, FromChunks, Goto
      <3>2. Continues(index[want[r]], want[r], 0)
        BY <2>1, Zenon DEF IInv, XInv
      <3>3. SubSeq(want[r], 1, 0) = <<>> /\ 0 \in 0 .. Len(want[r])
        BY <1>1
      <3> QED
        BY <1>1, <3>1, <3>2, <3>3, Zenon DEF DInv
    <2>2. CASE ~(want[r] \in DOMAIN index /\ index[want[r]] # <<>>)
      BY <1>1, <1>4, <2>2, Zenon DEF IInv, Shape, RInv, DInv, GetIndex, FromChunks, Goto, Return
    <2> QED
      BY <2>1, <2>2, Zenon
  <1>5. CASE ReadChunk(r)
    <2>1. /\ list[r] \in Seq(chunks) /\ list[r] # <<>> /\ pc[r] = "read_chunks"
      BY <1>5, Zenon DEF IInv, RInv, ReadChunk
    <2>2. Head(list[r]) \in chunks
      BY <2>1, HeadTailProperties, Zenon
    <2>3. /\ list'[r] = Tail(list[r]) /\ data'[r] = data[r] \o Head(list[r])
          /\ pc'[r] = "read_chunks" /\ result'[r] = "none"
      BY <1>5, <2>1, <2>2, Zenon DEF ReadChunk, IInv, Shape, RInv
    <2>4. PICK n \in 0 .. Len(want[r]) :
              data[r] = SubSeq(want[r], 1, n) /\ Continues(list[r], want[r], n)
      BY <2>1, Zenon DEF IInv, DInv
    <2>5. \E m \in 0 .. Len(want[r]) :
              /\ SubSeq(want[r], 1, n) \o Head(list[r]) = SubSeq(want[r], 1, m)
              /\ Continues(Tail(list[r]), want[r], m)
      BY <1>1, <2>1, <2>4, ContinuesStep, Zenon
    <2> QED
      BY <1>1, <2>3, <2>4, <2>5, ZenonT(30) DEF DInv
  <1>6. CASE ReadEnds(r)
    <2>1. /\ list[r] = <<>> /\ pc'[r] = "end" /\ data' = data
      BY <1>6, Zenon DEF ReadEnds, Return, Goto, IInv, Shape
    <2>2. PICK n \in 0 .. Len(want[r]) :
              data[r] = SubSeq(want[r], 1, n) /\ Continues(list[r], want[r], n)
      BY <1>6, Zenon DEF IInv, DInv, ReadEnds
    <2>3. data[r] = want[r]
      BY <1>1, <2>1, <2>2, ContinuesEnd, Zenon
    <2> QED
      BY <1>1, <2>1, <2>3, Zenon DEF DInv
  <1> QED
    BY <1>2, <1>3, <1>4, <1>5, <1>6, Zenon DEF open_read

(* A reader changes nothing but its own state. *)
LEMMA ReaderStep ==
    ASSUME IInv, NEW r \in Reader, open_read(r)
    PROVE  IInv'
  <1>0. UNCHANGED <<chunks, index, up, cut, missing, done, want>>
    BY Zenon DEF open_read, HasBlob, HasChunk, OpenRead, GetChunk, GetIndex, HeadOwnChunk,
           ReadChunk, ReadEnds, ReadFails, Writers, upload
  <1>1. \A u \in Uploader : UInv(u)'
    BY <1>0, Zenon DEF IInv, UInv, blob_digest
  <1>2. XInv'
    BY <1>0, Zenon DEF IInv, XInv
  <1>3. Shape'
    BY <1>0, Zenon DEF IInv, Shape, open_read, HasBlob, HasChunk, OpenRead, GetChunk, GetIndex,
           HeadOwnChunk, ReadChunk, ReadEnds, ReadFails, FromChunks, Goto, Return
  <1>4. ASSUME NEW s \in Reader, s # r PROVE RInv(s)'
    BY <1>0, <1>4, ZenonT(30) DEF IInv, Shape, RInv, open_read, HasBlob, HasChunk, OpenRead, GetChunk,
           GetIndex, HeadOwnChunk, ReadChunk, ReadEnds, ReadFails, FromChunks, Goto, Return
  <1>5. RInv(r)'
    <2>1. CASE HasBlob(r) \/ HasChunk(r) \/ OpenRead(r)
      BY <1>0, <2>1, ZenonT(30) DEF IInv, Shape, RInv, HasBlob, HasChunk, OpenRead, Goto, Return
    <2>2. CASE GetChunk(r)
      BY <1>0, <2>2, Zenon DEF IInv, Shape, RInv, GetChunk, Goto, Return
    <2>3. CASE GetIndex(r)
      BY <1>0, <2>3, Zenon DEF IInv, Shape, RInv, GInv, XInv, GetIndex, FromChunks, Goto, Return
    <2>4. CASE HeadOwnChunk(r)
      BY <1>0, <2>4, Zenon DEF IInv, Shape, RInv, HeadOwnChunk, FromChunks, Goto, Return
    <2>5. CASE ReadChunk(r)
      <3>1. /\ list[r] \in Seq(chunks) /\ list[r] # <<>>
        BY <2>5, Zenon DEF IInv, RInv, ReadChunk
      <3>2. Head(list[r]) \in chunks /\ Tail(list[r]) \in Seq(chunks)
        BY <3>1, HeadTailProperties, Zenon
      <3>3. /\ list'[r] = Tail(list[r]) /\ UNCHANGED <<pc, result, checked>>
        BY <2>5, <3>2, Zenon DEF ReadChunk, IInv, Shape
      <3> QED
        BY <1>0, <3>2, <3>3, Zenon DEF IInv, RInv
    <2>6. CASE ReadEnds(r) \/ ReadFails(r)
      BY <1>0, <2>6, ZenonT(30) DEF IInv, Shape, RInv, ReadEnds, ReadFails, Goto, Return
    <2> QED
      BY <2>1, <2>2, <2>3, <2>4, <2>5, <2>6, Zenon DEF open_read
  <1>6. ASSUME NEW s \in Reader PROVE GInv(s)'
    <2>1. CASE s = r /\ GetChunk(r)
      <3> SUFFICES ASSUME checked[r], want[r] # <<>>, want[r] \notin chunks
                   PROVE  /\ want[r] \in DOMAIN index /\ index[want[r]] # <<>>
                          /\ \A u \in Uploader : up[u] = "put_blob" /\ blob_digest(u) = want[r]
                                => ~(Len(cut[u]) < 2)
        BY <1>0, <2>1, Zenon DEF GInv, GetChunk, Return, Goto, IInv, Shape, blob_digest
      <3>1. want[r] \in DOMAIN index /\ index[want[r]] # <<>>
        BY Zenon DEF IInv, RInv, XInv
      <3>2. ASSUME NEW u \in Uploader, up[u] = "put_blob", blob_digest(u) = want[r], Len(cut[u]) < 2
            PROVE  FALSE
        <4>1. cut[u] \in AllCuts /\ \A i \in DOMAIN cut[u] : cut[u][i] \in chunks
          BY <3>2, Zenon DEF IInv, UInv
        <4> QED
          BY <3>2, <4>1, SmallCutStored, Zenon DEF blob_digest
      <3> QED
        BY <3>1, <3>2, Zenon
    <2>2. CASE s # r \/ ~GetChunk(r)
      BY ZenonT(30), <1>0, <2>2 DEF IInv, Shape, GInv, open_read, HasBlob, HasChunk, OpenRead, GetChunk,
             GetIndex, HeadOwnChunk, ReadChunk, ReadEnds, ReadFails, FromChunks, Goto, Return,
             blob_digest
    <2> QED
      BY <2>1, <2>2, Zenon
  <1>7. ASSUME NEW s \in Reader, s # r PROVE DInv(s)'
    BY <1>0, <1>7, Zenon DEF IInv, Shape, DInv, open_read, HasBlob, HasChunk, OpenRead, GetChunk,
           GetIndex, HeadOwnChunk, ReadChunk, ReadEnds, ReadFails, FromChunks, Goto, Return
  <1>8. DInv(r)'
    BY ReaderData, Zenon
  <1> QED
    BY <1>1, <1>2, <1>3, <1>4, <1>5, <1>6, <1>7, <1>8, ZenonT(30) DEF IInv

(* Every step keeps the inductive invariant. *)
LEMMA StepHolds == IInv /\ [Next]_vars => IInv'
  <1> SUFFICES ASSUME IInv, [Next]_vars PROVE IInv'
    BY Zenon
  <1>1. ASSUME NEW u \in Uploader, chunk_and_upload(u) PROVE IInv'
    BY <1>1, HeadChunkStep, PutChunkStep, PutBlobStep, OtherUploadStep, Zenon DEF chunk_and_upload
  <1>2. ASSUME NEW r \in Reader, open_read(r) PROVE IInv'
    BY <1>2, ReaderStep, Zenon
  <1>3. CASE UNCHANGED vars
    BY <1>3, ZenonT(30) DEF vars, upload, read, IInv, Shape, UInv, XInv, RInv, GInv, DInv, blob_digest
  <1> QED
    BY <1>1, <1>2, <1>3, Zenon DEF Next

(* The inductive invariant holds throughout. *)
LEMMA Invariance == Spec => []IInv
  BY InitHolds, StepHolds, PTL DEF Spec

(* chunk_and_upload() indexes a blob only when all of its chunks are       *)
(* stored and add up to it, with any number of concurrent, failing or      *)
(* abandoned uploads.                                                      *)
THEOREM IndexIsSound == Spec => []IndexedChunksExist
  <1>1. IInv => IndexedChunksExist
    <2> SUFFICES ASSUME IInv, NEW d \in DOMAIN index, index[d] # <<>>
                 PROVE  Range(index[d]) \subseteq chunks
      BY Zenon DEF IInv, XInv, IndexedChunksExist
    <2>1. index[d] \in Seq(chunks)
      BY Zenon DEF IInv, XInv
    <2> QED
      BY <2>1 DEF Range
  <1> QED
    BY Invariance, <1>1, PTL

(* Once chunk_and_upload() returned a digest, its blob is indexed and      *)
(* readable, for ever.                                                     *)
THEOREM UploadsAreReadable == Spec => []UploadReadable
  <1>1. IInv => UploadReadable
    BY Zenon DEF IInv, UInv, XInv, UploadReadable, Readable
  <1> QED
    BY Invariance, <1>1, PTL

(* open_read() after has() said true neither answers None nor panics on an *)
(* empty chunk list, no reader meets a list with a chunk missing, and what *)
(* was read to its end is the blob that was asked for.                     *)
THEOREM ReadersNeverStranded == Spec => []NeverStranded
  <1>1. IInv => NeverStranded
    BY Zenon DEF IInv, RInv, DInv, NeverStranded
  <1> QED
    BY Invariance, <1>1, PTL
=============================================================================
