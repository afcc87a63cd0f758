----------------------------- MODULE BlobCache -----------------------------
(***************************************************************************)
(* The Cache of blobs (castore blobservice/combinator.rs): clients read    *)
(* through a near MemoryBlobService (blobservice/memory.rs) that is filled *)
(* from a far one while others upload to far, and write to near.  The far  *)
(* service knows some blobs as lists of chunks, which are blobs to it as   *)
(* well; the chunked reader asks the cache itself for every chunk.         *)
(*                                                                         *)
(* A content is a sequence of atoms and stands for its own digest.         *)
(***************************************************************************)
EXTENDS Naturals, Sequences, SequencesExt

CONSTANTS
    Blobs,          \* contents asked for, uploaded and written
    Chunking(_),    \* the list of chunks far has for a content, <<>> for none
    Client

VARIABLES
    near,       \* db of the near service
    far,        \* the chunks far has
    index,      \* the blobs it has a list of chunks for
    want,       \* per client: the digests of the nested open_read() calls
    pc,         \* per client: for each of them, where it is
    todo,       \* per client: for each of them, chunks still to be copied
    writer,     \* per client: for each of them, what its near writer holds
    there,      \* per client: far had the blob when the request started
    result      \* per client: how the last request ended

clients == <<want, pc, todo, writer, there, result>>
vars == <<near, far, index, clients>>

Nothing == [kind |-> "none", data |-> <<>>]
Found(b) == [kind |-> "found", data |-> b]
Ended(k) == [kind |-> k, data |-> <<>>]

Init ==
    /\ near = {} /\ far = {} /\ index = {}
    /\ want = [c \in Client |-> <<>>] /\ pc = [c \in Client |-> <<>>]
    /\ todo = [c \in Client |-> <<>>] /\ writer = [c \in Client |-> <<>>]
    /\ there = [c \in Client |-> FALSE]
    /\ result = [c \in Client |-> Nothing]

(* An upload to far: the chunks and the list. *)
FarUpload(b) ==
    /\ b \notin index
    /\ far' = far \cup (IF Chunking(b) = <<>> THEN {b} ELSE Range(Chunking(b)))
    /\ index' = index \cup {b}
    /\ UNCHANGED <<near, clients>>

FarHas(b) == b \in far \cup index

(* "the second one is sent in case there's no more granular chunks" *)
FarList(b) == IF b \in index THEN Chunking(b) ELSE <<>>

(* open_write() goes to near; MemoryBlobWriter::close() inserts the blob   *)
(* unless it is there.                                                     *)
NearWrite(b) ==
    /\ b \notin near
    /\ near' = near \cup {b}
    /\ UNCHANGED <<far, index, clients>>

Depth(c) == Len(want[c])
Top(s) == s[Len(s)]
SetTop(s, x) == [s EXCEPT ![Len(s)] = x]

(* Calls of open_read(): by a client, or by the chunked reader of one. *)
Call(c, d) ==
    /\ want' = [want EXCEPT ![c] = Append(@, d)]
    /\ todo' = [todo EXCEPT ![c] = Append(@, <<>>)]
    /\ writer' = [writer EXCEPT ![c] = Append(@, <<>>)]

Request(c, d) ==
    /\ Depth(c) = 0
    /\ Call(c, d)
    /\ pc' = [pc EXCEPT ![c] = <<"near_has">>]
    /\ there' = [there EXCEPT ![c] = d \in near \/ FarHas(d)]
    /\ result' = [result EXCEPT ![c] = Nothing]
    /\ UNCHANGED <<near, far, index>>

At(c, label) == Depth(c) > 0 /\ Top(pc[c]) = label
Goto(c, label) == pc' = [pc EXCEPT ![c] = SetTop(@, label)]

(* The whole request is over: an error of a nested call is one of all. *)
Finish(c, res) ==
    /\ want' = [want EXCEPT ![c] = <<>>] /\ pc' = [pc EXCEPT ![c] = <<>>]
    /\ todo' = [todo EXCEPT ![c] = <<>>] /\ writer' = [writer EXCEPT ![c] = <<>>]
    /\ result' = [result EXCEPT ![c] = res]

(* A nested call returned a reader: the outer one copies its bytes. *)
ReturnReader(c, b) ==
    IF Depth(c) = 1 THEN Finish(c, Found(b))
    ELSE /\ want' = [want EXCEPT ![c] = Front(@)]
         /\ todo' = [todo EXCEPT ![c] = Front(@)]
         /\ pc' = [pc EXCEPT ![c] = Front(@)]
         /\ writer' = [writer EXCEPT ![c] = SetTop(Front(@), Top(Front(@)) \o b)]
         /\ UNCHANGED result

(* Without the blob: None for the client, "chunk not found" for a chunk. *)
ReturnNone(c) == Finish(c, Ended(IF Depth(c) = 1 THEN "absent" ELSE "broken"))

NearHas(c) ==
    /\ At(c, "near_has")
    /\ Goto(c, IF Top(want[c]) \in near THEN "near_open" ELSE "far_chunks")
    /\ UNCHANGED <<near, far, index, want, todo, writer, there, result>>

NearOpen(c) ==
    /\ At(c, "near_open")
    /\ IF Top(want[c]) \in near THEN ReturnReader(c, Top(want[c])) ELSE ReturnNone(c)
    /\ UNCHANGED <<near, far, index, there>>

FarChunks(c) ==
    /\ At(c, "far_chunks")
    /\ IF FarHas(Top(want[c]))
       THEN /\ Goto(c, IF FarList(Top(want[c])) = <<>> THEN "far_open" ELSE "copy")
            /\ todo' = [todo EXCEPT ![c] = SetTop(@, FarList(Top(want[c])))]
            /\ UNCHANGED <<want, writer, result>>
       ELSE ReturnNone(c)
    /\ UNCHANGED <<near, far, index, there>>

(* No chunks: far.open_read() is what is copied. *)
FarOpen(c) ==
    /\ At(c, "far_open")
    /\ IF FarHas(Top(want[c]))
       THEN /\ writer' = [writer EXCEPT ![c] = SetTop(@, Top(want[c]))]
            /\ Goto(c, "copy") /\ UNCHANGED <<want, todo, result>>
       ELSE ReturnNone(c)
    /\ UNCHANGED <<near, far, index, there>>

(* tokio::io::copy(): the chunked reader opens chunk after chunk with      *)
(* self.open_read().                                                       *)
CopyChunk(c) ==
    /\ At(c, "copy") /\ Top(todo[c]) # <<>>
    /\ todo' = [todo EXCEPT ![c] = Append(SetTop(@, Tail(Top(@))), <<>>)]
    /\ want' = [want EXCEPT ![c] = Append(@, Head(Top(todo[c])))]
    /\ writer' = [writer EXCEPT ![c] = Append(@, <<>>)]
    /\ pc' = [pc EXCEPT ![c] = Append(@, "near_has")]
    /\ UNCHANGED <<near, far, index, there, result>>

(* close() of the near writer, and the comparison of the digests. *)
CloseWriter(c) ==
    /\ At(c, "copy") /\ Top(todo[c]) = <<>>
    /\ near' = near \cup {Top(writer[c])}
    /\ IF Top(writer[c]) = Top(want[c])
       THEN Goto(c, "near_open") /\ UNCHANGED <<want, todo, writer, result>>
       ELSE Finish(c, Ended("unexpected digest"))
    /\ UNCHANGED <<far, index, there>>

(* Any call to a backend can fail. *)
Fails_Keeps(c) ==
    /\ Depth(c) > 0
    /\ near' = near \cup {Top(writer[c])}
    /\ Finish(c, Ended("failed"))
    /\ UNCHANGED <<far, index, there>>
Fails(c) ==
    /\ Depth(c) > 0
    /\ Finish(c, Ended("failed"))
    /\ UNCHANGED <<near, far, index, there>>

open_read(c) ==
    \/ NearHas(c) \/ NearOpen(c) \/ FarChunks(c) \/ FarOpen(c)
    \/ CopyChunk(c) \/ CloseWriter(c)

Next ==
    \/ \E b \in Blobs : FarUpload(b) \/ NearWrite(b)
    \/ \E c \in Client : open_read(c) \/ Fails(c) \/ \E b \in Blobs : Request(c, b)

Spec == Init /\ [][Next]_vars /\ \A c \in Client : WF_vars(open_read(c))

-----------------------------------------------------------------------------

TypeOK ==
    /\ \A c \in Client : Len(pc[c]) = Depth(c) /\ Len(todo[c]) = Depth(c) /\ Len(writer[c]) = Depth(c)
    /\ \A c \in Client : Range(pc[c]) \subseteq {"near_has", "near_open", "far_chunks", "far_open", "copy"}
    /\ there \in [Client -> BOOLEAN]

(* Near never holds a content nobody uploaded: an interrupted or failed    *)
(* copy leaves no truncated blob behind.                                   *)
NoTruncatedBlob == near \subseteq far \cup Blobs

(* What open_read() of the cache returns is the blob, and it is in near,   *)
(* however copies of the same chunks overlap.                              *)
ReadIsCached ==
    \A c \in Client : result[c].kind = "found" => result[c].data \in near \cap Blobs

(* A blob that was there when the request started is not reported absent,  *)
(* no chunk of a list is missing, and the copy has the right digest.       *)
NeverBroken ==
    \A c \in Client :
        /\ result[c].kind \notin {"broken", "unexpected digest"}
        /\ result[c].kind = "absent" => ~there[c]

(* Every read of the cache ends, nested reads of chunks included. *)
Reading(c) == Depth(c) > 0
=============================================================================
