-------------------------- MODULE DirectoryPutter --------------------------
(***************************************************************************)
(* Uploads of directory closures: any number of DirectoryPutters working   *)
(* at the same time on one store.  A putter is a SimplePutter (puts one by *)
(* one on close), a RedbDirectoryPutter (one transaction on close) or an   *)
(* ObjectStoreDirectoryPutter (one object per closure).  Each collects the *)
(* directories in a leaves-to-root DirectoryGraphBuilder.  A backend call  *)
(* can fail, and the process of a putter can die at any point.             *)
(***************************************************************************)
EXTENDS Directories, TLC

CONSTANTS
    Putter,         \* the uploads
    Kinds,          \* the assignments of implementations to putters considered
    CallerGivesUp   \* TRUE: a caller drops its putter when put() fails

VARIABLES
    dirs,       \* what each digest hashes; fixed
    kind,       \* per putter: its implementation; fixed
    stored,     \* directories readable one by one
    objects,    \* object store: <<root, closure>> pairs
    state,      \* per putter: "open", "head", "writing", "closed"
    nodes,      \* per putter: nodes of the builder's graph
    edges,      \* per putter: edges of the builder's graph
    rejected,   \* per putter: some put() has returned an error
    queue,      \* per putter: what close() still has to write
    result      \* per putter: the digest close() returned; None: it failed, or has not

vars == <<dirs, kind, stored, objects, state, nodes, edges, rejected, queue, result>>

put_multiple_start ==
    /\ state = [p \in Putter |-> "open"]
    /\ nodes = [p \in Putter |-> {}]
    /\ edges = [p \in Putter |-> {}]
    /\ rejected = [p \in Putter |-> FALSE]
    /\ queue = [p \in Putter |-> {}]
    /\ result = [p \in Putter |-> None]

Init ==
    /\ dirs \in Contents
    /\ kind \in Kinds /\ kind \in [Putter -> {"simple", "redb", "object"}]
    /\ stored = {}
    /\ objects = {}
    /\ put_multiple_start

-----------------------------------------------------------------------------
(* put(): try_insert of the leaves-to-root builder.  The node enters the   *)
(* graph before its pointers are looked at; the first pointer that is not  *)
(* known or has the wrong size ends the call, and the edges drawn so far   *)
(* stay.  A directory received before is accepted without a look.          *)

PointerOk(p, d, i) ==
    LET ptr == dirs[d].pointers[i] IN
    ptr.digest \in nodes[p] \cup {d} /\ ptr.size = dirs[ptr.digest].size

Drawn(p, d, S) ==
    edges' = [edges EXCEPT ![p] = @ \cup {<<d, dirs[d].pointers[i].digest>> : i \in S}]

PutOk(p, d) ==
    /\ \A i \in DOMAIN dirs[d].pointers : PointerOk(p, d, i)
    /\ Drawn(p, d, DOMAIN dirs[d].pointers)
    /\ UNCHANGED <<rejected, state>>

PutFails(p, d) ==
    /\ \E i \in DOMAIN dirs[d].pointers :
          /\ ~PointerOk(p, d, i)
          /\ \A j \in 1 .. i - 1 : PointerOk(p, d, j)
          /\ Drawn(p, d, 1 .. i - 1)
    /\ rejected' = [rejected EXCEPT ![p] = TRUE]
    /\ state' = IF CallerGivesUp THEN [state EXCEPT ![p] = "closed"] ELSE state

put(p, d) ==
    /\ state[p] = "open"
    /\ \/ d \in nodes[p] /\ UNCHANGED vars
       \/ /\ d \notin nodes[p]
          /\ nodes' = [nodes EXCEPT ![p] = @ \cup {d}]
          /\ PutOk(p, d) \/ PutFails(p, d)
          /\ UNCHANGED <<dirs, kind, stored, objects, queue, result>>

-----------------------------------------------------------------------------
(* close(): the builder is taken and built, then the graph is written the  *)
(* way of the putter.                                                      *)

Externals(p) == {d \in nodes[p] : \A e \in edges[p] : e[2] # d}

Return(p, r) ==
    /\ state' = [state EXCEPT ![p] = "closed"]
    /\ result' = [result EXCEPT ![p] = r]

BuildFails(p) ==
    /\ state[p] = "open"
    /\ ~\E r \in Digest : Externals(p) = {r}
    /\ Return(p, None)
    /\ UNCHANGED <<dirs, kind, stored, objects, nodes, edges, rejected, queue>>

(* SimplePutter: the drained graph is put into the service one by one. *)
SimpleClose(p) ==
    /\ state[p] = "open" /\ kind[p] = "simple"
    /\ \E r \in Digest : Externals(p) = {r}
    /\ state' = [state EXCEPT ![p] = "writing"]
    /\ queue' = [queue EXCEPT ![p] = nodes[p]]
    /\ UNCHANGED <<dirs, kind, stored, objects, nodes, edges, rejected, result>>

(* DfsPostOrder: a directory comes after everything its edges lead to. *)
NextInOrder(p, d) == d \in queue[p] /\ \A e \in edges[p] : e[1] = d => e[2] \notin queue[p]

PutOne(p) ==
    /\ state[p] = "writing" /\ kind[p] = "simple"
    /\ \E d \in Digest : NextInOrder(p, d) /\ stored' = stored \cup {d}
                         /\ queue' = [queue EXCEPT ![p] = @ \ {d}]
    /\ UNCHANGED <<dirs, kind, objects, state, nodes, edges, rejected, result>>

PutOneFails(p) ==
    /\ state[p] = "writing" /\ kind[p] = "simple" /\ queue[p] # {}
    /\ Return(p, None)
    /\ UNCHANGED <<dirs, kind, stored, objects, nodes, edges, rejected, queue>>

SimpleDone(p) ==
    /\ state[p] = "writing" /\ kind[p] = "simple" /\ queue[p] = {}
    /\ \E r \in Digest : Externals(p) = {r} /\ Return(p, r)
    /\ UNCHANGED <<dirs, kind, stored, objects, nodes, edges, rejected, queue>>

(* RedbDirectoryPutter: all inserts are one transaction, committed whole   *)
(* or not at all.                                                          *)
RedbClose_Replaces(p) ==
    /\ state[p] = "open" /\ kind[p] = "redb"
    /\ \E r \in Digest :
          /\ Externals(p) = {r}
          /\ Return(p, r) /\ stored' = nodes[p]
    /\ UNCHANGED <<dirs, kind, objects, nodes, edges, rejected, queue>>

RedbClose(p) ==
    /\ state[p] = "open" /\ kind[p] = "redb"
    /\ \E r \in Digest :
          /\ Externals(p) = {r}
          /\ \/ Return(p, r) /\ stored' = stored \cup nodes[p]
             \/ Return(p, None) /\ UNCHANGED stored
    /\ UNCHANGED <<dirs, kind, objects, nodes, edges, rejected, queue>>

(* ObjectStoreDirectoryPutter: head() first; the upload becomes visible    *)
(* when the writer is shut down.                                           *)
ObjectHead_AnyError(p) ==
    /\ state[p] = "open" /\ kind[p] = "object"
    /\ \E r \in Digest : Externals(p) = {r} /\ Return(p, r)
    /\ UNCHANGED <<dirs, kind, stored, objects, nodes, edges, rejected, queue>>

ObjectHead(p) ==
    /\ state[p] = "open" /\ kind[p] = "object"
    /\ \E r \in Digest :
          /\ Externals(p) = {r}
          /\ \/ (\E o \in objects : o[1] = r) /\ Return(p, r)
             \/ /\ \A o \in objects : o[1] # r
                /\ state' = [state EXCEPT ![p] = "head"] /\ UNCHANGED result
             \/ Return(p, None)
    /\ UNCHANGED <<dirs, kind, stored, objects, nodes, edges, rejected, queue>>

(* A later upload to the same path replaces the object. *)
ObjectUpload(p) ==
    /\ state[p] = "head"
    /\ \E r \in Digest :
          /\ Externals(p) = {r}
          /\ \/ /\ Return(p, r)
                /\ objects' = {o \in objects : o[1] # r} \cup {<<r, nodes[p]>>}
             \/ Return(p, None) /\ UNCHANGED objects
    /\ UNCHANGED <<dirs, kind, stored, nodes, edges, rejected, queue>>

close(p) ==
    \/ BuildFails(p)
    \/ SimpleClose(p) \/ PutOne(p) \/ PutOneFails(p) \/ SimpleDone(p)
    \/ RedbClose(p)
    \/ ObjectHead(p) \/ ObjectUpload(p)

(* The process dies, or the putter is dropped without close(). *)
Crash(p) ==
    /\ state[p] # "closed"
    /\ state' = [state EXCEPT ![p] = "closed"]
    /\ UNCHANGED <<dirs, kind, stored, objects, nodes, edges, rejected, queue, result>>

Next == \E p \in Putter : close(p) \/ Crash(p) \/ \E d \in Digest : put(p, d)

Spec == Init /\ [][Next]_vars

(* Small instances: putters of one object store, or of one table.          *)
OneStore == {k \in [Putter -> {"simple", "redb", "object"}] :
               \A p, q \in Putter : k[p] = "object" => k[q] = "object"}
Symmetry == Permutations(Putter)

-----------------------------------------------------------------------------

TypeOK ==
    /\ dirs \in [Digest -> Directory]
    /\ kind \in [Putter -> {"simple", "redb", "object"}]
    /\ stored \subseteq Digest
    /\ objects \subseteq Digest \X SUBSET Digest
    /\ state \in [Putter -> {"open", "head", "writing", "closed"}]
    /\ nodes \in [Putter -> SUBSET Digest]
    /\ edges \in [Putter -> SUBSET (Digest \X Digest)]
    /\ \A p \in Putter : edges[p] \subseteq nodes[p] \X nodes[p] /\ queue[p] \subseteq nodes[p]
    /\ rejected \in [Putter -> BOOLEAN]
    /\ queue \in [Putter -> SUBSET Digest]
    /\ result \in [Putter -> Digest \cup {None}]

(* Uploads that fail half way, die half way or run at the same time never  *)
(* leave a directory in the store whose children are not all there, as     *)
(* long as callers give up on a putter that refused a directory.           *)
StoreClosed == Closed(dirs, stored)

(* When close() has returned a digest, everything below that digest can be *)
(* read from then on.                                                      *)
UploadReadable ==
    \A p \in Putter : result[p] \in Digest =>
        IF kind[p] = "object"
        THEN <<result[p], Reachable(dirs, result[p])>> \in objects
        ELSE Reachable(dirs, result[p]) \subseteq stored

(* An object holds the whole closure of the digest it is named after, so a *)
(* putter that finds one need not upload.                                  *)
ObjectsComplete == \A o \in objects : ValidClosure(dirs, o[2], o[1])

(* The store keeps the promise of ClosedStore, whatever putters do beside   *)
(* one another: directories are only added, children before their parents. *)
Abstract == INSTANCE ClosedStore WITH dirs <- dirs, stored <- stored
KeepsClosedStore == Abstract!Spec

=============================================================================
