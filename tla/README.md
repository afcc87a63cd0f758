# Snix in TLA+

A verification project for [snix](../src/snix), a Nix implementation in Rust: TLA+
modules translated from the Rust sources, TLC runs on small instances of them,
and TLAPS proofs of what holds for every instance. `PROJECT.json` maps each
definition to the source lines it stands for, and lists every component, run,
mutant, finding, hazard and theorem.

## The system

Snix keeps file trees in a content-addressed store (*castore*): directories and
blobs under their digests. Above it, a store of *path infos* gives trees Nix
store paths; an evaluator runs Nix programs and turns derivations into builds;
and several frontends serve the store to others.

| part | state | what makes it hard |
|---|---|---|
| **directory services** `castore/src/directoryservice` | tables of directories, or one object per closure | half-written closures, concurrent uploads, crashes, streams in any order |
| **blob services** `castore/src/blobservice` | chunks, and lists of chunks | many uploads in flight, lookups in several steps, writers used after errors |
| **service composition** `castore/src/composition.rs` | per service: config, in progress, done | services that wait for each other, builders dropped half-way |
| **import** `castore/src/import`, `glue` | directories under construction, upload permits | background uploads that fail after use, files that change meanwhile |
| **file system view** `castore/src/fs` | inode tables behind locks | state read under one lock and written under another |
| **path infos** `store` | rows, caches, signatures | caches of caches, evictions, substitution from a remote that may answer anything |
| **nar-bridge**, **nix-daemon** | an LRU of uploaded roots; a session | a root evicted between two requests; both ends in step after an error |
| **formats and wire** `nix-compat` | resumable readers and writers | short reads and writes, cuts at any byte |
| **evaluator** `eval` | compiler scopes, stack, frames, thunks | laziness, with scopes, blackholes, contexts of strings |
| **derivations and builds** `build-glue`, `build` | known paths, builds, permits | recursive builds by several evaluators, sandboxes that are cancelled |

Clients write a directory closure through a *putter*: the directories pass a
graph builder (and, over gRPC, a validator), and `close()` writes them to a
backend. Readers ask for one directory or for a closure, which is traversed
breadth-first; a cache answers from near and otherwise copies the closure from
far. Blobs are cut into chunks, uploaded, and indexed under the digest of the
whole. The promise that ties the directory parts together is *closedness*: a
directory that can be read can be read with everything below it. Module
`ClosedStore` states it as an abstract specification; the putters, the near
side of the cache and the store behind the gRPC server are each proved to
implement it.

## Modules

A definition keeps the name of the function it translates where TLA+ allows it.
A name with a suffix, such as `Fill_RootFirst`, is a wrong variant of the
definition that follows it: it takes part in no specification, and with it in
place of the definition some property fails (`mutants` in `PROJECT.json`).

### Directories

| module | models | state and actions |
|---|---|---|
| `Directories` | what the directory services compare of the data model | a digest stands for ordered `(digest, size)` pointers and a size; `Closed`, `Reachable`, `ValidClosure`, and the lemmas about them. A directory is reachable when every closed set with the root has it |
| `OrderValidator` | `order_validator.rs`, both validators | the sets each keeps; `try_accept` with what a refusal leaves behind, `finalize` with its debug `expect` |
| `DirectoryGraphBuilder` | `directory_graph.rs` | `nodes`, `edges`, `rtl_edges_todo`; `try_insert` in both orders, `build` |
| `ClosedStore` | a directory service, as its readers see it | `stored` grows by sets that leave it closed |
| `DirectoryPutter` | `simple_putter.rs`, the redb and the object-store putter on one store | per putter the graph, `queue`, `state`, `result`; `put`, and `close` cut at every call that can be interleaved or fail; `Crash` |
| `DirectoryCache` | `combinators/cache.rs`, `traversal/` | `near`, `far`, per client the worklist and what was sent; `FarGrows` is other people's uploads |
| `GrpcDirectory` | `directoryservice/grpc.rs`, `grpc_directoryservice_wrapper.rs` | putter, request task and server per upload, with the wire between them; streamed reads; connections that break |
| `DirectoryBackends` | redb, bigtable, object store, `Priority` | rows and objects that get lost or damaged beside a reader's stream |
| `DirectoryNode` | `nodes/directory.rs`, `proto/mod.rs` | `add`, `try_from_iter`, both conversions; `size` in u64 arithmetic that panics or wraps |

### Blobs, composition, import, file system

| module | models |
|---|---|
| `BlobStore` | `blobservice/object_store/mod.rs`: uploads with a window of chunk uploads, readers with each lookup a step |
| `ChunkedReader`, `BlobCache`, `BlobWriters` | `chunked_reader.rs` (read, seek, failing reads); `combinator.rs` over `memory.rs`; the memory, gRPC and object-store writers with their tasks |
| `Composition` | `composition.rs`: `build`, `resolve`, `build_internal` with concurrent callers and watch channels |
| `Ingest`, `Imports` | `import/archive.rs`, `import/blobs.rs`, `import/mod.rs`; the evaluator's `builtins.path` and `filterSource` with a filter and files that change |
| `StoreFs` | `fs/`: the FUSE/virtiofs operations, `InodeTracker`, `RootNodes`, requests cut where a lock is released or a service awaited |
| `RefScan` | `refscan.rs`: needles found across reads of any size |

### Store, frontends, formats

| module | models |
|---|---|
| `PathInfoStore`, `PathInfoProto`, `NixHttp` | `store/src/pathinfoservice` and their compositions; `store/src/proto/mod.rs`; substitution from a binary cache by both routes |
| `NarBridge`, `DaemonSession` | every handler of `nar-bridge`; `nix_daemon` handshake and operations with `SnixDaemon` |
| `NarWriter`, `NarArchive`, `SeekableNar` | `nix-compat/src/nar` readers and writers; the three ways `store/src/nar` serves a node as a NAR |
| `BytesPacket`, `StderrReader` | `nix-compat/src/wire/bytes`; `framing/stderr_read.rs` |
| `ATerm`, `NarInfo` | the formats of derivations and of `.narinfo` files with signatures |

### Evaluation and builds

| module | models |
|---|---|
| `NixSemantics` | the language as a recursive definition of what an expression evaluates to: the reference for the next two |
| `Compiler`, `VM` | `eval/src/compiler`, `eval/src/vm` with thunks and the builtins on lists, sets, functions and control |
| `NixStrings` | `eval/src/value/string`, coercion and the string builtins, with contexts and interning |
| `Derivations`, `Fetchers`, `Builds` | `derivationStrict`, hashes and `KnownPaths`; `fetchers/mod.rs`; `BuildState` with several evaluators |
| `BuildRequests`, `BuildService` | `derivation_into_build_request` and its protobuf message; bubblewrap and OCI `do_build`, locally or over gRPC |

`MCStorage`, `MCTransfers` and `MCLanguages` each check a group of components.
They instantiate the components' modules over shared variables `x1, x2, ...`; the
variable `component` is chosen initially and never changes, so every behaviour
is a behaviour of one component with the instance given there. Their properties
are conjunctions, per component, of the properties its own module defines and
explains. The other runs use a component's module directly.

### Abstractions that hold throughout

- A digest stands for its content: collisions are left out, and contents are
  acyclic, because a hash cannot be part of what it hashes.
- A backend call happens at once or fails. A transaction (redb) and the upload
  of one object are atomic: that is what those libraries promise. A call that
  takes effect although its answer is lost leaves the stores as a successful one
  does, and its caller with nothing promised.
- Cancellation is a step: a future that the code may drop at an await is dropped
  there, and what it held (permits, temporary mounts) is given back as `Drop` does.
- Names, contents and texts are members of small sets or short sequences; a
  conversion is what it does to them (sorting, escaping, refusing), not a copy.
- Services never delete, as in the code, except caches that evict and, where a
  module says so, storage that is damaged from outside.

## Runs

Each passing run explores its state space completely.

| run | instance | distinct states | shows |
|---|---|---|---|
| `order_validators` | every universe of 4 directories of up to 2 pointers, at most one wrong size, either validator, any root asked for | 77,150 | leaves to root, `finalize` accepts exactly the complete, single-rooted, rightly sized closures; root to leaves, nothing unconnected is yielded and `finalize` accepts exactly the whole closure |
| `directory_putters` | 3 directories, 2 putters: any mix of simple and redb on a table, or two object-store ones | 88,002 | what `close` returned stays readable; the store implements `ClosedStore` |
| `directory_cache` | 3 directories of one tree, 2 clients, near written one by one, far serving roots | 1,495,004 | near implements `ClosedStore`; reads are whole; no inconsistency and no false absence is reported |
| `blob_store` | 4 blobs over 2 atoms cut anywhere, 2 uploaders, 1 reader, window 2 | 159,978 | only whole blobs are indexed; acknowledged ones can be read; a reader that asked `has()` is never stranded |
| `composition` | 60 compositions of 3 services, 2 callers | 113,950 | one instance per name, built on built services; reported recursions are real; no closed channel without a priority list; every call returns where there is no cycle |
| `grpc_directories` | chains of 3 directories, 1 upload, 1 stream, up to 3 messages, connections that break | 191,202 | an acknowledged upload is stored, whole and in order; a stream that ends is whole or empty; the served store implements `ClosedStore`; calls return |
| `store_fs` | 2 threads, 5 requests, a root of a directory and a file that is also in the directory, beside a link whose target reads like the file's digest; replies with room for one or two entries | 659,348 | inodes are coherent and stable |
| `storage` | eleven components, see `MCStorage` | 660,832 | directories are canonical; readers and scanners are faithful; stores answer with what was put; binary caches are sound; formats round-trip |
| `transfers` | ten components, see `MCTransfers` | 356,957 | both ends of a wire stay in step; NARs are exact; builds see their inputs and record their references; imports are exact; blobs are whole; calls return |
| `languages` | six components, see `MCLanguages` | 397,845 | compiler and VM agree with the semantics; derivations, fetches and build requests are what they should be; string contexts are tracked; thunks settle |
| `blob_store_read`, `directory_node_overflow` | as above | | violated: see Findings |

Why these bounds. Three directories with two pointers each hold a chain, a fork,
two roots over a shared child, and a child that is both a child and a grandchild;
four add the diamond and two unrelated closures of more than one directory. Two
pointers of one directory may lead to one child with different sizes. Two
uploaders and one observer, two callers, two clients or two evaluators are the
smallest instances with every pairwise race; for the directory services, blobs,
composition and file system the proofs remove the bounds. Blobs cover no chunk, one chunk, two
equal and two different chunks, and one content cut in two ways. In the grouped
runs the number of requests, edits, faults, restarts and handles is bounded by
the constants named `Max...`, chosen so that each of a store, a cache, a pool and
a buffer is full at some time and so that one fault can fall between any two
steps. `u64` is cut to `0 .. 7` in `DirectoryNode`, with child sizes that give sums
below, at and above the limit; packet lengths surround the multiples of eight. In
`DirectoryBackends` three uploads suffice for each backend to get one closure over
parts of another.

Symmetry is used for uploaders, putters, clients and threads, in runs without
liveness properties (`InodesStable`, `KeepsClosedStore` and `NearKeepsClosedStore`
are action properties).

Deadlock is checked wherever the system goes on. It is not checked for streams,
uploads and builds, which end. The grouped runs check it too; there `Over` lets a
component whose requests are used up stutter.

### Fairness

- `FairSpec` of `Composition`: weak fairness of each waiting caller and of each
  builder; the runtime polls every future that can make progress, and `build_internal`
  is driven by the caller that started it.
- `FairSpec` of `GrpcDirectory`: weak fairness of the server's handling of a request, of
  the client's wait, and of a stream; tonic runs each call in a task of its own.
- `MCTransfers`: as long as a process of the component can go on, one does; nothing
  is assumed of which one. This is one weak fairness condition over the steps the
  code's executor takes by itself. It excludes the environment: new requests,
  other programs' edits and a client's next call are never forced. A failure of a service or a
  connection is left out of it, or stands beside a success of the same step (`Builds`). Of a daemon's client it is
  assumed that it reads its answers and answers `STDERR_READ` while the connection is
  open. An operation that is over can only answer once the lock of the writer is free:
  the source of a `STDERR_READ` gives it back when the operation's future ends.

Nothing else is fair, and the safety results do not depend on it: theorems are
about `Spec`, without fairness.

## Findings

Each is a run in which TLC finds what the code does to disagree with what a
comment or an assertion of the repository says.

1. `directory_node_overflow`. "It's impossible to create a Directory where the size
   overflows" (`castore/src/nodes/directory.rs:43`). The check in `add` counts one
   per entry and `size()` two, so a child of size `u64::MAX - 1` passes the check and
   the next `size()` overflows. It also follows that `size()` is not the sum that its
   own comment (line 40) and the protobuf message describe.
2. `blob_store_read`. "Chunks must be provided, don't use this for blobs without
   chunks" (`castore/src/blobservice/chunked_reader.rs:161`). `open_read()` looks for
   the chunk, then for the list. A single-chunk blob uploaded in between has the
   empty list, which `open_read()` passes on, and the assertion panics. A reader that
   called `has()` first cannot meet this: `NeverStranded`, proved.

## Proofs

Eight modules hold theorems; `Directories` holds the lemmas on closures that
most of them share. Every theorem is about all values of the constants: any set
of digests, any contents, any number of putters, clients, tasks and uploaders,
unless a restriction is named. Each proof has an inductive invariant `IInv`, one
lemma per action that it is kept, and the properties as consequences. Each `IInv` was
checked by TLC on the run's instance before it was proved.
A leaf that needs no arithmetic names `Zenon`, whose time depends least on the rest of
the module; what is about numbers and sequences is left to SMT, in lemmas with few
hypotheses where it matters (`SeqDomain`, `UpTo`, `NextPart` of `StoreFsProofs`).

Assumptions, which TLC evaluates in the runs: `ContentsAssumption` (`Contents` are
functions from digests to directories, acyclic, and `None` is no digest);
`KindsAssumption` (the kinds of near and far there are); `ConfigsAssumption` (a cache has
two references, a leaf none, and the mark of a malformed reference is no
service's name); `StoreAssumption` (the names in a root differ, a directory is in the
directory service or missing from it, a reply has room for an entry); `BlobsAssumption` (a blob is a sequence). `BlobStore`
takes from the chunker what `Pieces` spells out: the pieces continue each other and
add up to the blob, none means the empty blob, one is the blob.

| module | theorems | argument |
|---|---|---|
| `Directories` | lemmas on `Closed`, `Reachable`, `PartialWalk` | quantifying over closed sets replaces paths, so no induction over the graph is needed. `PartialWalk` is what a breadth-first traversal keeps: what was yielded is complete but for the worklist |
| `OrderValidator` | `FinalizeSound`, `FinalizeIsComplete`, `NoFinalizePanic`, `Connected`, `FinalizeExact`, `Invariance`, `TypeCorrect` | leaves to root, that the last directory is above all others depends on the whole history: the invariant adds `PointersReceived`, `Orphans` (nothing with a received parent is pending) and `BelowPending` (each closed set with the pending directories has all received ones). Root to leaves, everything heard about is reachable, and with the root it is exactly the disjoint union of pending and yielded; acyclicity keeps a yielded directory from becoming pending again |
| `DirectoryPutterProofs` | `StoreStaysClosed`, `UploadStaysReadable`, `Refinement`, `TypeCorrect`, from `CallerGivesUp` | a `PInv` per putter: an unrefused graph is closed, rightly sized and below its parentless nodes, and what a simple putter took off its queue is stored. `Refinement`: every step is a step of `ClosedStore` or leaves `stored` alone |
| `DirectoryCacheProofs` | `RecursiveIsComplete`, `ReadersSeeNoInconsistency`, `AbsentIsTrue`, `AnswersAreCached`, `NearRefinement`, `TypeCorrect` | near (and a table far) is closed; each client's traversal is a `PartialWalk`, and `Phase` says where the yielded directories lie at each of its steps. `OthersKept` carries a client's part over the steps of others, since services only grow |
| `BlobStoreProofs` | `IndexIsSound`, `UploadsAreReadable`, `ReadersNeverStranded` | the last needs `GInv`: a reader that asked `has()`, missed the chunk and is about to read the index finds a list that is not empty, and no upload in one piece is about to make it so, because it would have stored the chunk before. That a reader returns the blob itself is part of it: what it has read and the chunks still to come add up to the blob (`Continues`), one chunk at a time, so no induction over the list is needed |
| `GrpcDirectory` | `AcknowledgedIsStored`, `StreamsAreWhole`, `ServedRefinement`, `TypeCorrect` | per upload: what the client gave is what the server accepted followed by what is on the wire; what was accepted is closed, rightly sized and below its roots (`BelowRoots`); "root" is answered only by a server that is done. Per reader: its stream is a `PartialWalk` |
| `StoreFsProofs` | `Coherent`, `Stable`, `Invariance`, `TypeCorrect` | `InodeTracker`'s data and lookup tables are each other's inverse (`TrackerOK`), a populated directory has just its nodes for children (`PopulatedOK`), and what a request carries over a released lock is still true when it goes on (`RequestInv`, `ListingInv`): every step only extends the tables (`Grows`), and each lemma `...Kept` says that growing keeps what another thread knows. `Stable` is an action property |
| `Composition` | `OneInstance`, `ReportedRecursionIsReal`, `BuiltRestsOnBuilt`, `ChannelsStayOpen`, `ResultsAreFinal`, `TypeCorrect` | per service (`NInv`): its stack is a chain of references that ends in it, an error it holds is real, and an instance a child was given is the one in the child's channel. For `ChannelsStayOpen`, `NoneDropped`: without a priority list every running builder is waited for by the builder before it in its stack (`Driven`), so nobody drops it. `ResultsAreFinal` is an action property: what a channel holds it keeps |

`CallerGivesUp` is needed because a refused directory stays in the builder: a caller
that goes on after an error may get `Ok` (see Notes).

Only model-checked, and why:

- liveness, which needs fairness and `ENABLED`: `BuildsEnd` and `CallsReturn`;
- everything in the grouped runs. Most of these components are pure conversions or
  resumable parsers whose properties compare with a recursive definition over the
  input (induction over data): `VM` against `NixSemantics`, `Derivations`, `ATerm`,
  `NarArchive`, `SeekableNar`, `BytesPacket`, `RefScan`, `ChunkedReader`, `NixStrings`,
  `Ingest`, `Imports`, `DirectoryGraphBuilder`. Several of these modules declare RECURSIVE
  operators, which the prover's SMT backend does not take. For `PathInfoStore`,
  `NarBridge`, `NixHttp`, `BlobCache`, `BlobWriters`, `Builds`, `BuildService`,
  `DaemonSession` and `Fetchers` the obstacle is only the amount of work;
- that there is a numbering as `GivenOut` of `StoreFs` asks for (and just one), an
  induction over a directory's nodes: the proofs are about each step that `Populate` takes.

## Notes on the code

What modelling brought up beside the findings. Paths are below `src/snix`. These are
limits of the properties (each property says what it excludes), not results of a
run of their own.

**Directories.** A second pointer overwrites the size that `RootToLeavesValidator`
remembers (`castore/src/directoryservice/order_validator.rs:148`; the doc at line 41
says sizes are compared), so pointers that disagree pass if the last one is right;
the graph builder compares all of them. `close()` of a putter can succeed after a
refused `put` (`simple_putter.rs:46`; `directoryservice/mod.rs:109` says an error must be
returned). Bigtable's `put` leaves an existing row; `Priority` gives up on the first
service's error; a redb database opened read-only without its table fails.

**Composition.** Two callers that enter a cycle at different places wait for each
other, since the stack is per caller; `BuildsEnd` is about compositions without
cycles. With a priority list a failing member drops its siblings' builders, and
whoever waits on them panics.

**Blobs and readers.** A failed read of a `ChunkedReader` drops the rest of the chunk
without moving `pos`, and a seek to `pos` keeps the broken reader. `RefScan` assumes
needles of one length; overlapping occurrences are not promised, and shorter
needles are missed in streams shorter than the longest.

**File system.** The root listing loses an entry for which there was no room
(`castore/src/fs/mod.rs:580`); `ListingComplete` is about the other directories. The size of a
directory is the one in its node until its children are known, and their number from then on
(`castore/src/fs/mod.rs:320`), so two requests may see different ones; `InodesCoherent` excepts it.

**Path infos and binary caches.** The LRU's `list` holds the read lock while `get` needs
the write lock (`lru.rs:51`). Bigtable's `put` answers with its argument. The redb `get` does not
compare the digest. Signature names of a message are not validated. `nix_http`: sizes in infused
nodes are taken as they are, the content address is not checked on that route, a root
directory missing remotely panics (`seekable.rs:114`), `has` is true for any status but
404 and 403, and the empty blob of an infused NAR is never copied (`seekable.rs:377`): it can be
read only where the near blob service has it by itself. The
nar-bridge does not compare an uploaded narinfo's `nar_size`.

**NARs and wire.** After a failed `open` of the seekable reader a retried read panics;
a blob that is too long goes unnoticed when the buffer ends exactly at its end; a read
that is refused because it got more than the blob's size has moved the blob's reader and not the
position, and reads of that blob stray until the reader is sought elsewhere (`Strayed`,
`seekable.rs:362`); a read into an empty buffer inside a blob fails as a short read (not in the
instance); which of several segments at one offset `binary_search_by_key` finds is not
specified, so the model has any of them; `Reader::new` and the
listing panic for a missing root directory (`listing.rs:62` calls the lookup infallible);
an archive reader must be abandoned after an error. `StderrReadFramedReader` slices its
buffer wrongly if the caller's already holds bytes (`stderr_read.rs:220`) and spins on an
end of file in the padding. `AddMultipleToStore` of two paths is refused when the buffered reader of the first
takes bytes of the second (`nar/import.rs:59`); `BuildPaths` answers `()` where
`operations.md` says `1 :: Int` (239), and `QueryPathFromHashPart` a path info where it says a path
(565); `NarHash` is written in nixbase32 and read as hex;
`read_bytes_buf` loops forever on a truncated stream.

**Evaluator.** `builtins.div 1 0` panics, as do a merged set that inherits through `with`
(`bindings.rs:618`) and `rec { a = b; ${a} = 1; b = "x"; }`; `removeAttrs` casts list elements
without forcing them; the optimiser drops type errors and looks for overridden
`true` and `false` only in the current context (`optimiser.rs:39`); `AttrsTrySelect`
swallows catchable errors; `deepSeq` ignores nested ones, and a comparison of lists turns them
into type errors (`as_bool` of what `nix_eq` gives, `value/mod.rs:771`); `patch_jump` ignores dead scopes (`compiler/mod.rs:1498`). Programs with these are left out
of the instance. `WithsStayLocal` answers a TODO in `vm/mod.rs`.

**Strings.** `appendContext` drops the added context when the string had none
(`builtins/mod.rs:756`, a TODO; `build-references.md:106` says it is added), which is why
`ContextRoundTrips` is about strings that have one;
`split` by a regex that matches the empty string does not end; `toXML` of a derivation
that comes again with another `outPath` mentions that one without its context; a path plus a string with
context drops the context. `Tracked` excepts both. Regular expressions are single literals, and attribute
names have no context.

**Derivations, fetchers, builds.** Environment keys are written unescaped and parsed
with unescaping (`aterm/write.rs:286`); `parse_streaming` returns the consumed slice as leftover
(unused). A context element that `appendContext` made up, of a derivation that is not known, panics in
`derivationStrict` (`InputsKnown`; elements with an output that a known derivation does not
have are left out). A first read of fewer than 6 bytes, with more to come, makes `DecompressedReader` garble the start of a
download, or panic: every read goes to the start of its buffer (`decompression.rs:82`). Fixed-output derivations look up their inputs eagerly
(`derivation/mod.rs:149`; the doc at 137 says not). An executable fetched with sha256 is
registered with its file size as `nar_size` (`fetchers/mod.rs:566`). The output of a fixed-output build is not compared with
its hash; a drvPath among the sources has no path info and cannot be built;
outputs' path infos are put one at a time, and two evaluators can mix outputs of
builds that are not deterministic. Build requests list outputs in the order of
names, which the remote service refuses when paths sort otherwise; `passAsFile = ""`
fails; a nested list in structured attributes panics. A cancelled build returns its
permit while its process lives on, so the semaphore does not "track number of concurrently running
builds" (`oci.rs:33`, `bwrap.rs:32`), and `BuildersBounded` counts builders whose caller waits; in bubblewrap a scratch directory strictly above the inputs
hides them (`bwrap/mod.rs:86` says an overlay is used); OCI writes additional files
only with a "build" scratch directory.

**Imports.** In an archive, a file that replaces a directory disconnects the directory's children,
but not what is below them (`replace_node`, `archive.rs:260`): a child that is named again comes back with all it had
(`RootIsArchive`). A file that changes between its stat and its upload is imported with the mode of the
one and the contents of the other, but only if both have the same size: else its NAR cannot be rendered
(`NoTornSizes`). `builtins.path` of a regular file loses its executable bit; metadata
follows a root symlink, so the symlink arm cannot be reached; `builtins.path` of a path only in
the store fails. `store/src/import.rs:17` takes a hash's text as a digest.

## Not modelled

`PROJECT.json` lists each component with its reason. Not modelled are: paths and
small helpers; pure encodings and parsers (hashes, store paths, flake references, nixbase32) and
derive macros; the decoders behind `DecompressedReader`; `NixFramedReader` by itself; the producer task of
`ingest_nar`; adapters between the evaluator's I/O trait and the services; castore-http,
command line programs, serde, tracing, the Go libraries and boot, contributed
tools. FUSE, gRPC, object stores, databases, tar and the Nix parser are libraries,
modelled by what the code expects of them. Of the evaluator, floats,
interpolated paths, `FindFile`, native thunks and pointer equality are left out, and of the
builtins those on versions, JSON and TOML input, and hashes. Outside `src/snix`, the directories
`ops`, `web`, `tools`, `fun`, `nix` and `third_party` are infrastructure and side
projects.

What `ClosedStore` promises is safety: that an upload ends is stated for gRPC only.
A retry is modelled as a second upload, since the code has nothing to resume.
