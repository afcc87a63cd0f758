----------------------------- MODULE BlobWriters -----------------------------
(***************************************************************************)
(* The BlobWriters of castore, one at a time: MemoryBlobWriter             *)
(* (blobservice/memory.rs), GRPCBlobWriter with its request task and the   *)
(* server's put() (blobservice/grpc.rs, proto/grpc_blobservice_wrapper.rs) *)
(* and ObjectStoreBlobWriter with its upload future                        *)
(* (blobservice/object_store/mod.rs).  A caller writes and closes as often *)
(* as it likes, and can give up on a call that is pending.  The request    *)
(* task runs by itself; the upload future only while a call polls it.      *)
(* Beside it, a gRPC client reads what is stored.                          *)
(*                                                                         *)
(* A content is a sequence of atoms and stands for its own digest.         *)
(***************************************************************************)
EXTENDS Naturals, Sequences, SequencesExt

CONSTANTS
    Kinds,          \* the writers considered, of {"memory", "grpc", "object_store"}
    Atom,
    MaxWritten, MaxCalls,   \* bounds on what is written, and on calls after that
    PipeSize,       \* capacity of the channel, or of the duplex pipe
    Split(_)        \* the number of chunks the backend lists for a content

VARIABLES
    kind,
    writer,         \* the writer is there (Some); close() takes it
    call,           \* the pending call: "none", "write", "close"
    buf,            \* what the pending write is about to write
    accepted,       \* all that write calls have taken
    pipe, got,      \* on the way to, and received by the other side
    fut,            \* the other side: "running", "ok", "err", or "gone"
    polled,         \* its result has been seen: polling it again panics
    saved,          \* what later calls of close() return
    store,
    answers,        \* outcomes of the calls, in order
    careless,       \* the caller went on after an error, a given-up or a finished close()
    rd, found       \* the reader: where it is and what it asks for; what it got

writing == <<kind, writer, call, buf, accepted, pipe, got, fut, polled, saved, answers, careless>>
vars == <<writing, store, rd, found>>

No == [what |-> "none", digest |-> <<>>]
Digest(d) == [what |-> "digest", digest |-> d]
Err(e) == [what |-> e, digest |-> <<>>]

Init ==
    /\ kind \in Kinds /\ writer = TRUE
    /\ call = "none" /\ buf = <<>> /\ accepted = <<>> /\ pipe = <<>> /\ got = <<>>
    /\ fut = (IF kind = "memory" THEN "gone" ELSE "running")
    /\ polled = FALSE /\ saved = No
    /\ store = {} /\ answers = <<>> /\ careless = FALSE
    /\ rd = [at |-> "idle", digest |-> <<>>] /\ found = No

Answer(a) == answers' = Append(answers, a)
Panicked == answers # <<>> /\ Last(answers).what = "panic"
CanCall == call = "none" /\ ~Panicked /\ Len(answers) < MaxCalls

(* Errors so far, or close() already called: a further call is careless. *)
Failed == \E i \in DOMAIN answers : answers[i].what \notin {"written", "digest"}
other == <<kind, got, fut, saved, store, rd, found>>

(* poll_write() *)
write(a) ==
    /\ CanCall /\ Len(accepted) < MaxWritten
    /\ careless' = (careless \/ Failed \/ ~writer)
    /\ CASE kind = "memory" ->
              IF writer THEN /\ accepted' = Append(accepted, a) /\ Answer(Err("written"))
                             /\ UNCHANGED <<writer, call, buf, pipe, polled>>
              ELSE Answer(Err("NotConnected")) /\ UNCHANGED <<writer, call, buf, accepted, pipe, polled>>
         [] kind = "grpc" /\ ~writer ->
              Answer(Err("NotConnected")) /\ UNCHANGED <<writer, call, buf, accepted, pipe, polled>>
         [] kind = "object_store" /\ (~writer \/ polled) ->
              Answer(Err("panic")) /\ UNCHANGED <<writer, call, buf, accepted, pipe, polled>>
         [] OTHER -> /\ call' = "write" /\ buf' = <<a>>
                     /\ UNCHANGED <<writer, accepted, pipe, polled, answers>>
    /\ UNCHANGED other

(* A pending write ends: the other side is gone, or there is room. *)
WriteReturns ==
    /\ call = "write" /\ call' = "none" /\ buf' = <<>>
    /\ \/ /\ fut # "running" /\ polled' = TRUE
          /\ Answer(Err("upload failed")) /\ UNCHANGED <<accepted, pipe>>
       \/ /\ fut = "running" /\ Len(pipe) < PipeSize
          /\ accepted' = accepted \o buf /\ pipe' = pipe \o buf
          /\ Answer(Err("written")) /\ UNCHANGED polled
    /\ UNCHANGED <<writer, careless, other>>

(* close(): the second time, what the first one saved. *)
close_again ==
    /\ CanCall /\ ~writer
    /\ Answer(IF saved # No THEN saved
              ELSE IF kind = "object_store" THEN Err("panic") ELSE Err("BrokenPipe"))
    /\ careless' = (careless \/ Failed)
    /\ UNCHANGED <<writer, call, buf, accepted, pipe, polled, other>>

close_memory ==
    /\ CanCall /\ writer /\ kind = "memory"
    /\ writer' = FALSE /\ saved' = Digest(accepted) /\ store' = store \cup {accepted}
    /\ Answer(saved')
    /\ UNCHANGED <<kind, call, buf, accepted, pipe, got, fut, polled, careless, rd, found>>

close ==
    /\ CanCall /\ writer /\ kind # "memory"
    /\ writer' = FALSE
    /\ careless' = (careless \/ Failed)
    /\ IF polled /\ kind = "object_store"
       THEN Answer(Err("panic")) /\ UNCHANGED call
       ELSE call' = "close" /\ UNCHANGED answers
    /\ UNCHANGED <<buf, accepted, pipe, polled, other>>

CloseReturns ==
    /\ call = "close" /\ fut # "running" /\ call' = "none"
    /\ Answer(IF fut = "ok" THEN Digest(got) ELSE Err("other"))
    /\ saved' = IF fut = "ok" THEN Digest(got)
                ELSE IF kind = "object_store" THEN Err("other") ELSE No
    /\ polled' = TRUE
    /\ UNCHANGED <<kind, writer, buf, accepted, pipe, got, fut, store, careless, rd, found>>

(* The caller drops the future of a pending call (a timeout, a select!):   *)
(* the request task goes on, the upload future is dropped with close().    *)
GiveUp ==
    /\ call \in {"write", "close"} /\ call' = "none" /\ buf' = <<>>
    /\ Answer(Err("given up"))
    /\ fut' = (IF kind = "object_store" /\ call = "close" THEN "gone" ELSE fut)
    /\ UNCHANGED <<kind, writer, accepted, pipe, got, polled, saved, store, careless, rd, found>>

(* The writer is dropped without close(). *)
DropWriter ==
    /\ CanCall /\ writer
    /\ writer' = FALSE /\ Answer(Err("dropped"))
    /\ fut' = (IF kind = "object_store" THEN "gone" ELSE fut)
    /\ UNCHANGED <<kind, call, buf, accepted, pipe, got, polled, saved, store, careless, rd, found>>

-----------------------------------------------------------------------------
(* The other side.                                                         *)

Runs == fut = "running" /\ (kind = "object_store" => call # "none")

Receive ==
    /\ Runs /\ pipe # <<>>
    /\ got' = Append(got, Head(pipe)) /\ pipe' = Tail(pipe)
    /\ UNCHANGED <<kind, writer, call, buf, accepted, fut, polled, saved, answers, careless, store, rd, found>>

(* The end of the stream: the blob is closed on the other side, and the    *)
(* answer comes back, or is lost.                                          *)
Finish ==
    /\ Runs /\ ~writer /\ pipe = <<>>
    /\ store' = store \cup {got}
    /\ fut' \in {"ok"} \cup (IF kind = "grpc" THEN {"err"} ELSE {})
    /\ UNCHANGED <<kind, writer, call, buf, accepted, pipe, got, polled, saved, answers, careless, rd, found>>

OtherSideFails ==
    /\ Runs /\ fut' = "err"
    /\ UNCHANGED <<kind, writer, call, buf, accepted, pipe, got, polled, saved, answers, careless, store, rd, found>>

-----------------------------------------------------------------------------
(* GRPCBlobService::open_read(): chunks(), and with fewer than two the     *)
(* whole stream of read() into a buffer; the server answers from store.    *)

open_read(d) ==
    /\ rd.at = "idle" /\ found = No
    /\ rd' = [at |-> "chunks", digest |-> d]
    /\ UNCHANGED <<writing, store, found>>

ReadChunks ==
    /\ rd.at = "chunks"
    /\ IF rd.digest \notin store THEN rd' = [rd EXCEPT !.at = "idle"] /\ found' = Err("None")
       ELSE IF Split(rd.digest) < 2 THEN rd' = [rd EXCEPT !.at = "read"] /\ UNCHANGED found
       ELSE rd' = [rd EXCEPT !.at = "idle"] /\ found' = Digest(rd.digest)
    /\ UNCHANGED <<writing, store>>

ReadStream ==
    /\ rd.at = "read" /\ rd' = [rd EXCEPT !.at = "idle"]
    /\ found' \in {Digest(rd.digest), Err("InvalidData")}
    /\ UNCHANGED <<writing, store>>

Contents == UNION {[1 .. n -> Atom] : n \in 0 .. MaxWritten}
Writer == (\E a \in Atom : write(a)) \/ WriteReturns \/ close \/ close_memory \/ close_again
            \/ CloseReturns \/ GiveUp \/ DropWriter
Next == \/ Writer \/ Receive \/ Finish \/ OtherSideFails
        \/ ReadChunks \/ ReadStream \/ \E d \in Contents : open_read(d)

Spec == /\ Init /\ [][Next]_vars
        /\ WF_vars(Receive) /\ WF_vars(Finish) /\ WF_vars(WriteReturns) /\ WF_vars(CloseReturns)

-----------------------------------------------------------------------------

TypeOK ==
    /\ call \in {"none", "write", "close"}
    /\ fut \in {"running", "ok", "err", "gone"}
    /\ Len(pipe) <= PipeSize
    /\ accepted \in Contents /\ got \in Contents

Digests == {i \in DOMAIN answers : answers[i].what = "digest"}

(* The digest close() returns is that of everything the writes took, and   *)
(* the blob is there: no part in the pipe is lost or cut off.              *)
ClosedIsContent == \A i \in Digests : answers[i].digest = accepted /\ accepted \in store

(* "Closing an already-closed BlobWriter is a no-op": after a digest there *)
(* is nothing but that digest from close().                                *)
CloseIsIdempotent ==
    \A i \in Digests, j \in DOMAIN answers :
        j > i => answers[j] = answers[i] \/ answers[j].what \in {"NotConnected", "given up"} \/ careless

(* A caller that stops at the first error, and writes nothing after        *)
(* close(), sees no panic.  (The object store's writer polls a future that *)
(* is over, or unwraps a result that was never saved, for one that does    *)
(* not; the other two answer with an error.)                               *)
PanicsOnlyIfCareless == Panicked => careless /\ kind = "object_store"

(* A read over gRPC that succeeds has the whole blob: a stream that breaks *)
(* is an error, not a short blob.                                          *)
ReadWhole == found.what = "digest" => found.digest = rd.digest

(* Pending calls return: the upload future is polled by the very call that *)
(* waits for it to make room.                                              *)
Waiting == call # "none"
=============================================================================
