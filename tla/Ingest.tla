------------------------------- MODULE Ingest -------------------------------
(***************************************************************************)
(* ingest_archive() (castore import/archive.rs): the entries of an archive *)
(* go, in their order, through the ConcurrentBlobUploader                  *)
(* (import/blobs.rs) into a blob service, and into an IngestionEntryGraph; *)
(* once every upload is over, the graph is turned into a stream, from      *)
(* which ingest_entries() (import/mod.rs) uploads the directories.         *)
(* Background uploads run beside everything up to join().                  *)
(*                                                                         *)
(* A path is a sequence of names; a content is a sequence of atoms and     *)
(* stands for its own digest, as a directory does for its own.             *)
(***************************************************************************)
EXTENDS Naturals, Sequences, SequencesExt, FiniteSetsExt

CONSTANTS
    Archives,       \* the archives considered: sequences of entries
    CONCURRENT_BLOB_UPLOAD_THRESHOLD, MAX_BUFFER_SIZE,
    MaxEntries,     \* no archive has more entries
    Faults          \* TRUE: calls of the blob and directory services can fail

VARIABLES
    archive,        \* the entries; fixed
    next,           \* position of the next one
    permits,        \* upload_semaphore
    upload_tasks,   \* position of the entry -> "has", "upload", "ok", "error"
    blobs,          \* what the blob service has
    nodes,          \* path -> entry: graph and path_to_index
    edges,          \* <<parent path, child path>>
    root_node,      \* <<>>, or <<path>>
    phase,          \* "entries", "join", "ingest", "done"
    left,           \* ingest: paths of the stream that have not come yet
    directories,    \* path -> the partial Directory
    sent_directories,
    stored,         \* directories that can be read
    result          \* "none", an error, or "root"

reading == <<next, permits, upload_tasks>>
graph == <<nodes, edges, root_node>>
ingesting == <<left, directories, sent_directories, stored>>
vars == <<archive, reading, blobs, graph, phase, ingesting, result>>

Init ==
    /\ archive \in Archives
    /\ next = 1 /\ permits = MAX_BUFFER_SIZE /\ upload_tasks = <<>>
    /\ blobs = {}
    /\ nodes = <<>> /\ edges = {} /\ root_node = <<>>
    /\ phase = "entries" /\ left = {} /\ directories = <<>>
    /\ sent_directories = {} /\ stored = {} /\ result = "none"

(* PathBuf::from_host_path(): "." is dropped, ".." takes a name back; an   *)
(* absolute path, or one that leads above the top, is refused.             *)
Refused == <<"refused">>
from_host_path(host) ==
    LET walk[k \in 0 .. Len(host)] ==
            IF k = 0 THEN <<>>
            ELSE LET p == walk[k - 1] IN
                 CASE p = Refused \/ host[k] = "/" -> Refused
                   [] p # Refused /\ host[k] = "." -> p
                   [] p # Refused /\ host[k] = ".." -> IF p = <<>> THEN Refused ELSE Front(p)
                   [] OTHER -> Append(p, host[k])
    IN walk[Len(host)]

(* An error leaves the function: the uploader is dropped, and its tasks    *)
(* are aborted.                                                            *)
Aborted(tasks) == [i \in DOMAIN tasks |-> IF tasks[i] \in {"has", "upload"} THEN "error" ELSE tasks[i]]
Fail(e) == result' = e /\ phase' = "done" /\ upload_tasks' = Aborted(upload_tasks)

-----------------------------------------------------------------------------
(* IngestionEntryGraph.  There is one graph node per path.                 *)

is_dir(e) == e.kind = "dir"
Dir(path) == [kind |-> "dir", path |-> path]
Parent(path) == Front(path)

(* add() puts in the entry, and a directory for each path above it.  A     *)
(* node that is there already stays if both are directories; otherwise     *)
(* replace_node() puts the new one in its place and cuts its children off. *)
Above(path) == {SubSeq(path, 1, n) : n \in 1 .. Len(path)} \cup {path}
Arriving(e, p) == IF p = e.path THEN e ELSE Dir(p)
Replaced(e) == {p \in Above(e.path) : p \in DOMAIN nodes /\ ~(is_dir(Arriving(e, p)) /\ is_dir(nodes[p]))}
Disconnected(e) == {x \in edges : x[1] \in Replaced(e)}
NewNodes(e) ==
    [p \in DOMAIN nodes \cup Above(e.path) |->
        IF p \in Above(e.path) /\ (p \notin DOMAIN nodes \/ p \in Replaced(e))
        THEN Arriving(e, p) ELSE nodes[p]]
NewEdges(e) == (edges \ Disconnected(e)) \cup {<<Parent(p), p>> : p \in {q \in Above(e.path) : Len(q) > 1}}

(* "We expect archives to contain a single root node" *)
OtherRoot(e) == root_node # <<>> /\ e.path # <<>> /\ root_node[1] # SubSeq(e.path, 1, 1)

add(e, tasks) ==
    IF OtherRoot(e)
    THEN /\ result' = "UnexpectedNumberOfTopLevelEntries" /\ phase' = "done"
         /\ upload_tasks' = Aborted(tasks) /\ UNCHANGED graph
    ELSE /\ nodes' = NewNodes(e) /\ edges' = NewEdges(e)
         /\ root_node' = IF e.path = <<>> THEN root_node ELSE <<SubSeq(e.path, 1, 1)>>
         /\ upload_tasks' = tasks /\ UNCHANGED <<phase, result>>

-----------------------------------------------------------------------------
(* The loop over the entries.                                              *)

Reading == phase = "entries" /\ next <= Len(archive)
Entry == archive[next]
Node(e) == [kind |-> e.kind, path |-> from_host_path(e.host), data |-> e.data]

(* upload() of a small blob waits for its permits, reads it and leaves the *)
(* rest to a task; a large one is uploaded on the spot.                    *)
InBackground(e) == e.size < CONCURRENT_BLOB_UPLOAD_THRESHOLD
Acquire(e) == permits >= e.size /\ permits' = permits - e.size
Spawned(i) == [j \in DOMAIN upload_tasks \cup {i} |-> IF j = i THEN "has" ELSE upload_tasks[j]]

UploadSmall ==
    /\ Reading /\ Entry.kind = "file" /\ InBackground(Entry)
    /\ Len(Entry.data) = Entry.size /\ Acquire(Entry)
    /\ \E e \in {Node(Entry)} : e.path # Refused /\ add(e, Spawned(next))
    /\ next' = next + 1
    /\ UNCHANGED <<archive, blobs, ingesting>>

UploadLarge ==
    /\ Reading /\ Entry.kind = "file" /\ ~InBackground(Entry)
    /\ Len(Entry.data) = Entry.size /\ blobs' = blobs \cup {Entry.data}
    /\ \E e \in {Node(Entry)} : e.path # Refused /\ add(e, upload_tasks)
    /\ next' = next + 1
    /\ UNCHANGED <<archive, permits, ingesting>>

AddOther ==
    /\ Reading /\ Entry.kind \in {"dir", "symlink"}
    /\ \E e \in {Node(Entry)} : e.path # Refused /\ add(e, upload_tasks)
    /\ next' = next + 1
    /\ UNCHANGED <<archive, permits, blobs, ingesting>>

SkipHeader ==
    /\ Reading /\ Entry.kind = "header" /\ from_host_path(Entry.host) # Refused
    /\ next' = next + 1
    /\ UNCHANGED <<archive, permits, upload_tasks, blobs, graph, phase, ingesting, result>>

(* A path that cannot be converted, an unsupported type, or a blob that is *)
(* shorter or longer than its header says.                                 *)
MayHaveUploaded == Entry.kind = "file" /\ ~InBackground(Entry) /\ from_host_path(Entry.host) # Refused
EntryEnds ==
    /\ UNCHANGED blobs \/ (MayHaveUploaded /\ blobs' = blobs \cup {Entry.data})
    /\ Fail("EntryError")
    /\ UNCHANGED <<archive, next, permits, graph, ingesting>>
EntryRefused ==
    /\ Reading
    /\ \/ from_host_path(Entry.host) = Refused \/ Entry.kind = "other"
       \/ Entry.kind = "file" /\ Len(Entry.data) # Entry.size
    /\ EntryEnds
(* The upload of a large blob fails. *)
EntryFails == Faults /\ Reading /\ MayHaveUploaded /\ EntryEnds

-----------------------------------------------------------------------------
(* Background tasks: has(), then the upload, then the permits go back.     *)

TaskEnds(i, how) ==
    /\ upload_tasks' = [upload_tasks EXCEPT ![i] = how]
    /\ permits' = permits + archive[i].size

TaskHas(i) ==
    /\ upload_tasks[i] = "has"
    /\ IF archive[i].data \in blobs THEN TaskEnds(i, "ok")
       ELSE upload_tasks' = [upload_tasks EXCEPT ![i] = "upload"] /\ UNCHANGED permits
    /\ UNCHANGED <<archive, next, blobs, graph, phase, ingesting, result>>

TaskUploads(i) ==
    /\ upload_tasks[i] = "upload"
    /\ blobs' = blobs \cup {archive[i].data}
    /\ TaskEnds(i, "ok")
    /\ UNCHANGED <<archive, next, graph, phase, ingesting, result>>

TaskFails(i) ==
    /\ Faults /\ upload_tasks[i] \in {"has", "upload"}
    /\ TaskEnds(i, "error")
    /\ UNCHANGED <<archive, next, blobs, graph, phase, ingesting, result>>

(* join(): the first error ends it, otherwise all tasks are over. *)
Join_Eager ==
    /\ phase = "entries" /\ next > Len(archive)
    /\ phase' = "join"
    /\ UNCHANGED <<archive, reading, blobs, graph, ingesting, result>>
Join ==
    /\ phase = "entries" /\ next > Len(archive)
    /\ \/ /\ \E i \in DOMAIN upload_tasks : upload_tasks[i] = "error"
          /\ Fail("BlobUploadError")
       \/ /\ \A i \in DOMAIN upload_tasks : upload_tasks[i] = "ok"
          /\ phase' = "join" /\ UNCHANGED <<upload_tasks, result>>
    /\ UNCHANGED <<archive, next, permits, blobs, graph, ingesting>>

-----------------------------------------------------------------------------
(* finalize(): what is reachable from the root, children before parents.   *)

IsBelow(p, q) == Len(p) <= Len(q) /\ SubSeq(q, 1, Len(p)) = p
ReachableFrom(p) ==
    {q \in DOMAIN nodes : IsBelow(p, q) /\ \A n \in Len(p) .. Len(q) - 1 :
        <<SubSeq(q, 1, n), SubSeq(q, 1, n + 1)>> \in edges}

finalize ==
    /\ phase = "join"
    /\ IF root_node = <<>> THEN Fail("UnexpectedNumberOfTopLevelEntries") /\ UNCHANGED left
       ELSE IF ~is_dir(nodes[root_node[1]])
       THEN Fail("UnexpectedNumberOfTopLevelEntries") /\ UNCHANGED left
       ELSE /\ phase' = "ingest" /\ left' = ReachableFrom(root_node[1])
            /\ UNCHANGED <<upload_tasks, result>>
    /\ UNCHANGED <<archive, next, permits, blobs, graph, directories, sent_directories, stored>>

(* ingest_entries(): a directory's own entry closes it; a node is recorded *)
(* in the directory of its parent.  The putter persists on close().        *)
NextInStream(p) == \A q \in left \ {p} : ~IsBelow(p, q)

Collected(p) == IF p \in DOMAIN directories THEN directories[p] ELSE <<>>
NodeOf(p) ==
    CASE nodes[p].kind = "dir" -> [kind |-> "dir", digest |-> Collected(p)]
      [] nodes[p].kind # "dir" -> [kind |-> nodes[p].kind, digest |-> nodes[p].data]
Without(p) == [q \in DOMAIN directories \ {p} |-> directories[q]]
WithNode(f, p) ==
    LET par == Parent(p)
        had == IF par \in DOMAIN f THEN f[par] ELSE <<>>
        dir == [x \in DOMAIN had \cup {Last(p)} |-> IF x = Last(p) THEN NodeOf(p) ELSE had[x]]
    IN [q \in DOMAIN f \cup {par} |-> IF q = par THEN dir ELSE f[q]]

IngestEntry ==
    /\ phase = "ingest"
    /\ \E p \in left :
          /\ NextInStream(p) /\ Len(p) > 1
          /\ left' = left \ {p}
          /\ sent_directories' = IF nodes[p].kind = "dir" THEN sent_directories \cup {Collected(p)}
                                 ELSE sent_directories
          /\ directories' = WithNode(Without(p), p)
    /\ UNCHANGED <<archive, reading, blobs, graph, phase, stored, result>>

(* The entry of the root: the loop ends, two assertions follow, and the    *)
(* putter is closed.                                                       *)
IngestRoot ==
    /\ phase = "ingest"
    /\ \E p \in left :
          /\ NextInStream(p) /\ Len(p) = 1
          /\ LET d == Collected(p) IN
             /\ sent_directories' = sent_directories \cup {d}
             /\ directories' = Without(p)
             /\ IF left # {p} \/ DOMAIN directories' # {}
                THEN result' = "panic" /\ UNCHANGED stored
                ELSE \/ /\ result' = "root" /\ stored' = stored \cup sent_directories'
                     \/ Faults /\ result' = "FinalizeDirectoryUpload" /\ UNCHANGED stored
          /\ left' = left \ {p}
    /\ phase' = "done"
    /\ UNCHANGED <<archive, reading, blobs, graph>>

PutFails ==
    /\ Faults /\ phase = "ingest" /\ \E p \in left : NextInStream(p) /\ is_dir(nodes[p])
    /\ Fail("UploadDirectoryError")
    /\ UNCHANGED <<archive, next, permits, blobs, graph, ingesting>>

(* What the function and its tasks do by themselves; services that fail    *)
(* are not among it.                                                       *)
Function == \/ UploadSmall \/ UploadLarge \/ AddOther \/ SkipHeader \/ EntryRefused
            \/ Join \/ finalize \/ IngestEntry \/ IngestRoot
TaskRuns(i) == i \in DOMAIN upload_tasks /\ (TaskHas(i) \/ TaskUploads(i))

Next == \/ Function \/ EntryFails \/ PutFails
        \/ \E i \in DOMAIN upload_tasks : TaskRuns(i) \/ TaskFails(i)

Spec == /\ Init /\ [][Next]_vars
        /\ WF_vars(Function)
        /\ \A i \in 1 .. MaxEntries : WF_vars(TaskRuns(i))

-----------------------------------------------------------------------------

TypeOK ==
    /\ next \in 1 .. Len(archive) + 1
    /\ permits \in Nat
    /\ DOMAIN upload_tasks \subseteq 1 .. Len(archive)
    /\ \A p \in DOMAIN nodes : nodes[p].path = p
    /\ edges \subseteq (DOMAIN nodes) \X (DOMAIN nodes)
    /\ phase \in {"entries", "join", "ingest", "done"}
    /\ left \subseteq DOMAIN nodes

(* "The maximum amount of bytes allowed to be buffered in memory": the     *)
(* blobs that background tasks hold never exceed it.                       *)
BufferBounded ==
    LET held == {i \in DOMAIN upload_tasks : upload_tasks[i] \in {"has", "upload"}} IN
    phase # "done" => MapThenSumSet(LAMBDA i : archive[i].size, held) <= MAX_BUFFER_SIZE

(* "make sure to call join to wait for all background jobs to complete":   *)
(* no directory is uploaded before every file of the archive is in the     *)
(* blob service.                                                           *)
BlobsFirst ==
    sent_directories # {} => \A i \in DOMAIN archive : archive[i].kind = "file" => archive[i].data \in blobs

(* The asserts "left over elements in the stream" and "left over           *)
(* directories" of ingest_entries() hold for any archive.                  *)
NothingLeftOver == result # "panic"

(* The entries that say what is at a path, or below it.                    *)
PathOf(i) == from_host_path(archive[i].host)
Speaks(i) == archive[i].kind \in {"file", "dir", "symlink"}
About(p) == {i \in DOMAIN archive : Speaks(i) /\ IsBelow(p, PathOf(i))}
(* Entries that put something else in the place of a directory at p.       *)
Replaces(p) == {i \in DOMAIN archive : archive[i].kind \in {"file", "symlink"} /\ PathOf(i) = p}
(* On the way to p, each name was spoken of after its directory was last   *)
(* replaced.                                                               *)
Attached(p) == \A n \in 1 .. Len(p) - 1 :
    \A i \in Replaces(SubSeq(p, 1, n)) : \E j \in About(SubSeq(p, 1, n + 1)) : i < j
(* Something at p itself, or below, was spoken of after every replacement  *)
(* of a directory that p is in.                                            *)
Present(p) == \E j \in About(p) : \A n \in 1 .. Len(p) - 1 : \A i \in Replaces(SubSeq(p, 1, n)) : i < j

Lookup(d, names) ==
    LET f[k \in 0 .. Len(names)] ==
            IF k = 0 THEN [kind |-> "dir", digest |-> d]
            ELSE IF f[k - 1].kind = "dir" /\ names[k] \in DOMAIN f[k - 1].digest
            THEN f[k - 1].digest[names[k]] ELSE [kind |-> "none", digest |-> <<>>]
    IN f[Len(names)]

(* What is uploaded is the archive: everything that is in it is there, as  *)
(* the last entry for it says, and every directory of the tree is in the   *)
(* store with the root.  When a file or a symlink replaces a directory,    *)
(* its children are disconnected (replace_node()) and stay so unless they  *)
(* are spoken of again; what is below them was never disconnected from     *)
(* them, and comes back with them: after a/b/c/x, a file a/b and a/b/c/y,  *)
(* x is there again.                                                       *)
RootIsArchive ==
    result = "root" =>
        \E d \in stored : \A p \in UNION {Above(PathOf(i)) \ {<<>>} : i \in {j \in DOMAIN archive : Speaks(j)}} :
            LET got == Lookup(d, Tail(p))
                last == Max(About(p))
            IN
            /\ Present(p) => got.kind # "none"
            /\ got.kind # "none" =>
                 /\ Attached(p)
                 /\ got.kind = IF PathOf(last) = p THEN archive[last].kind ELSE "dir"
            /\ got.kind = "dir" => got.digest \in stored
            /\ got.kind = "file" => got.digest = archive[last].data

(* Ingestion ends, also if no service fails: no upload waits for permits   *)
(* that never come back.                                                   *)
Running == phase # "done"
=============================================================================
