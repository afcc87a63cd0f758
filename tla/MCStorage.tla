----------------------------- MODULE MCStorage ------------------------------
(* What keeps blobs, directories and path infos, what reads and fills the    *)
(* stores, and formats that are stored, each with instances of its own: one  *)
(* behaviour is a behaviour of the component it starts as, and x1 ... x11 are *)
(* its variables.                                                            *)
EXTENDS Integers, Sequences, SequencesExt, FiniteSets, TLC

CONSTANTS t1, t2, OverflowChecks

VARIABLES component, x1, x2, x3, x4, x5, x6, x7, x8, x9, x10, x11
vars == <<component, x1, x2, x3, x4, x5, x6, x7, x8, x9, x10, x11>>

-----------------------------------------------------------------------------
(* Chunks of several sizes, empty ones at the start, inside and at the end.  *)
MCLists == {<<<<1, 2>>, <<3>>, <<4, 5, 6>>>>, <<<<1>>, <<>>, <<2, 3>>>>, <<<<>>, <<1, 2>>>>, <<<<1, 2>>, <<>>>>, <<<<>>>>}

(* Bit strings, and needles that overlap.                                    *)
MCStreams == UNION {[1 .. n -> {0, 1}] : n \in {0, 2, 5, 7}}
MCCandidates == <<<<1, 1, 0>>, <<1, 0, 1>>>>

(* A root with a chain below it and a second way to its end.                 *)
MCPointers == <<<<>>, <<1>>, <<2, 1>>>>
MCServices == <<"redb", "object", "bigtable">>

(* Compositions of path info services; at 0 are those the clients call,      *)
(* and the digests they ask for.                                             *)
N(k, x, y) == [kind |-> k, near |-> x, far |-> y]
R(x, y, ds) == 0 :> [root |-> <<x, y>>, asked |-> ds]
MCCompositions == {
  R(1, 3, {1, 2}) @@ (1 :> N("cache", 2, 3)) @@ (2 :> N("lru", 0, 0)) @@ (3 :> N("file", 0, 0)),
  R(1, 4, {1}) @@ (1 :> N("cache", 2, 3)) @@ (2 :> N("mem", 0, 0)) @@ (3 :> N("grpc", 4, 4)) @@ (4 :> N("bigtable", 0, 0)),
  R(1, 2, {1}) @@ (1 :> N("signing", 2, 2)) @@ (2 :> N("file", 0, 0)),
  R(1, 3, {1, 2}) @@ (1 :> N("cache", 2, 3)) @@ (2 :> N("ro", 0, 0)) @@ (3 :> N("lru", 0, 0))}

(* Narinfos of three trees: genuine ones, and with one field that is wrong.  *)
MCTree == <<[dirs |-> <<>>, blobs |-> <<1>>, size |-> 10], [dirs |-> <<>>, blobs |-> <<0>>, size |-> 20],
            [dirs |-> <<1, 2>>, blobs |-> <<2, 0, 1>>, size |-> 10]>>
Genuine == {[digest |-> d, nar |-> n, size |-> MCTree[n].size, node |-> n, narsize |-> MCTree[n].size,
             comp |-> "none", ca |-> [mode |-> "", hash |-> 0], sig |-> {<<d, n, MCTree[n].size>>}] :
              d \in {1, 2}, n \in 1..3}
MCNarinfos ==
  Genuine \cup {[g EXCEPT !.nar = 3] : g \in Genuine} \cup {[g EXCEPT !.size = 20] : g \in Genuine}
    \cup {[g EXCEPT !.node = 0, !.comp = c] : g \in Genuine, c \in {"xz", "br"}}
    \cup {[g EXCEPT !.node = 1] : g \in Genuine} \cup {[g EXCEPT !.sig = {}] : g \in Genuine}
    \cup {[g EXCEPT !.node = 0, !.ca = [mode |-> m, hash |-> 1]] : g \in Genuine, m \in {"nar", "flat", "text"}}
    \cup {[g EXCEPT !.narsize = 20] : g \in Genuine}

(* Messages of up to two child directories, two files and one symlink.       *)
Entries(type, sizes, n) == BoundedSeq((0 .. 3) \X {[type |-> type, size |-> s] : s \in sizes}, n)
MCMessages == {[directories |-> d, files |-> f, symlinks |-> s] :
    d \in Entries("directory", {0, 6, 7}, 2), f \in Entries("file", {0}, 2), s \in Entries("symlink", {0}, 1)}

(* Every universe of three directories.                                      *)
Small == INSTANCE Directories WITH Digest <- {}, Contents <- {}, None <- 0

(* Derivations as lists of what their texts hold, wellformed or not.         *)
Listed(n, c, a, d) == [name |-> n, path |-> <<"/", c>>, algo |-> a, digest |-> d]
Text0 == [outputs |-> <<Listed(<<"out">>, "x", <<>>, <<>>)>>, drvs |-> <<>>, sources |-> <<>>,
          system |-> <<"x">>, builder |-> <<"x">>, arguments |-> <<>>, env |-> <<>>]
Odds == {"x", "n", "\"", "\\", "\n", ",", ")"}
Texts == {<<>>} \cup {<<a>> : a \in Odds} \cup {<<a, b>> : a \in {"x", "\\"}, b \in Odds}
Var(k, v) == [key |-> k, value |-> v]
Input(c, s, os) == [path |-> <<"/", c, s>>, outputs |-> os]
MCListings ==
  {[Text0 EXCEPT !.env = <<Var(<<"x">>, v), Var(<<"out">>, <<"x">>)>>] : v \in Texts}
    \cup {[Text0 EXCEPT !.arguments = <<v, <<"\\">>>>, !.builder = w] : v \in {<<>>, <<"\\">>, <<"\"">>}, w \in {<<>>, <<"x">>, <<"\\", "n">>}}
    \cup {[Text0 EXCEPT !.env = <<Var(k, <<"x">>), Var(l, <<>>)>>] : k, l \in {<<>>, <<"x">>, <<"y">>, <<"\\", "n">>, <<"\"">>}}
    \cup {[Text0 EXCEPT !.outputs = <<Listed(n, "x", a, d), Listed(m, "y", <<>>, <<>>)>>] :
            n, m \in {<<"out">>, <<"dev">>, <<"drv">>}, a \in {<<>>, <<"r:", "sha">>}, d \in {<<>>, <<"h">>}}
    \cup {[Text0 EXCEPT !.outputs = <<Listed(n, "x", a, d)>>] :
            n \in {<<"out">>, <<"dev">>}, a \in {<<>>, <<"sha">>, <<"r:", "sha">>, <<"md">>}, d \in {<<>>, <<"h">>, <<"h", "h">>, <<"x">>}}
    \cup {[Text0 EXCEPT !.drvs = <<Input("x", ".drv", os), Input(c, s, <<>>)>>, !.sources = <<<<"/", "y">>, <<"/", y>>>>] :
            os \in {<<<<"out">>>>, <<<<"dev">>, <<"out">>>>, <<<<"out">>, <<"out">>>>}, c \in {"x", "y"}, s \in {".drv", "x"}, y \in {"x", "y"}}

(* Narinfos, signed or not, lines that others write, and key pairs.          *)
Pair(name, s, p) == [sep |-> TRUE, nameOk |-> TRUE, lenOk |-> TRUE, b64Ok |-> TRUE, name |-> name, secret |-> s, public |-> p]
MCKeypairs == {Pair(1, 1, 1), Pair(2, 2, 2), [Pair(3, 4, 0) EXCEPT !.sep = FALSE], Pair(3, 4, 0)}
Bare == [flags |-> {}, store_path |-> 5, nar_hash |-> 1, nar_size |-> 7, references |-> <<2, 3>>, signatures |-> <<>>,
         ca |-> <<>>, system |-> <<>>, deriver |-> <<>>, url |-> 0, compression |-> <<0>>, file_hash |-> <<>>, file_size |-> <<>>]
Signature(key, n) == key \o <<n.store_path, n.nar_hash, n.nar_size>> \o n.references
Signed(n, key) == [n EXCEPT !.signatures = Append(@, Signature(key, n))]
MCInfos == { Signed(Bare, <<1, 1>>),
             Signed(Signed([Bare EXCEPT !.references = <<>>, !.deriver = <<4>>, !.ca = <<1>>], <<1, 1>>), <<2, 2>>),
             [Bare EXCEPT !.references = <<>>, !.compression = <<1>>, !.system = <<2>>,
                          !.flags = {"REFERENCES_MISSING", "COMPRESSION_DEFAULT", "EXPLICIT_UNKNOWN_DERIVER"}],
             Signed([Bare EXCEPT !.references = <<3, 2>>, !.flags = {"REFERENCES_OUT_OF_ORDER"}, !.compression = <<2>>,
                          !.file_hash = <<2>>, !.file_size = <<3>>], <<1, 3>>) }
Line(t, k, v) == [tag |-> t, k |-> k, v |-> v]
MCTexts == { Line("", "bad", <<>>), Line("X-Extra", "word", <<1>>), Line("StorePath", "abs", <<6>>),
             Line("NarHash", "hex", <<2>>), Line("NarSize", "num", <<8>>),
             Line("References", "list", <<2, 4>>), Line("References", "list", <<2, 0>>), Line("References", "empty", <<>>),
             Line("Deriver", "unknown", <<>>),
             Line("Sig", "sig", Signature(<<1, 1>>, Bare)), Line("Sig", "sig", Signature(<<1, 3>>, [Bare EXCEPT !.nar_size = 8])),
             Line("Sig", "bad", <<>>), Line("Compression", "empty", <<>>) }

(* Path infos with every kind of content address.                            *)
CAs == {<<"Nar", "Sha256">>, <<"Nar", "Sha1">>, <<"Nar", "Sha512">>, <<"Nar", "Md5">>, <<"Text", "Sha256">>,
        <<"Flat", "Sha1">>, <<"Flat", "Md5">>, <<"Flat", "Sha256">>, <<"Flat", "Sha512">>}
MCPathInfos ==
  {[store_path |-> <<3, 1>>, node |-> 1, references |-> r, nar_size |-> 9, nar_sha256 |-> 1, signatures |-> s, deriver |-> d, ca |-> c] :
     r \in {<<>>, << <<1, 1>>, <<2, 1>> >>}, s \in {<<>>, << <<1, 1>> >>}, d \in {<<>>, << <<2, 2>> >>},
     c \in {<<>>} \cup {<<[mode |-> ma[1], algo |-> ma[2], d |-> 1]>> : ma \in CAs}}

Graphs == INSTANCE DirectoryGraphBuilder WITH Digest <- 1 .. 3, Contents <- Small!ContentsOfThree,
      None <- 0, dirs <- x1, insertion_order <- x2, exp_root_digest <- x3, root <- x4, nodes <- x5,
      edges <- x6, rtl_edges_todo <- x7, rejected <- x8, outcome <- x9
ChunkedReader == INSTANCE ChunkedReader WITH ChunkLists <- MCLists, Offsets <- -7 .. 7,
      Reads <- {1, 2, 4}, chunks <- x1, pos <- x2, r <- x3, hurt <- x4, out <- x5
RefScan == INSTANCE RefScan WITH Streams <- MCStreams, Candidates <- MCCandidates, Capacity <- 4,
      stream <- x1, read <- x2, buffer <- x3, consumed <- x4, matches <- x5, at <- x6, passed <- x7
DirectoryBackends == INSTANCE DirectoryBackends WITH Pointers <- MCPointers, Services <- MCServices,
      TooBig <- {3}, MaxUploads <- 3, MaxDamage <- 1, MaxReads <- 1, rows <- x1, objects <- x2,
      file <- x3, db <- x4, put_ <- x5, spoilt <- x6, reader <- x7, damage <- x8, reads <- x9
PathInfoStore == INSTANCE PathInfoStore WITH Compositions <- MCCompositions, Clients <- {1, 2},
      Digests <- {1, 2}, Versions <- {1, 2}, TooBig <- {2}, Capacity <- 1, MaxOps <- 3,
      MaxFaults <- 1, tree <- x1, rows <- x2, lru <- x3, stack <- x4, ret <- x5, listing <- x6,
      ops <- x7, faults <- x8, puts <- x9, durable <- x10, last <- x11
NarBridge == INSTANCE NarBridge WITH Clients <- {t1, t2}, Nars <- {1, 2, 3}, Digests <- {1},
      Capacity <- 2, MaxRequests <- 4, MaxRestarts <- 1, castore <- x1, root_nodes <- x2,
      infos <- x3, task <- x4, resp <- x5, url <- x6, promise <- x7, requests <- x8, restarts <- x9
NixHttp == INSTANCE NixHttp WITH Tree <- MCTree, Narinfos <- MCNarinfos, Digests <- {1},
      Trusted <- TRUE, force_download_nar <- FALSE, MaxCalls <- 2, blobs <- x1, dirs <- x2,
      far <- x3, pc <- x4, asked <- x5, narinfo <- x6, queue <- x7, answer <- x8, calls <- x9
DirectoryNode == INSTANCE DirectoryNode WITH MaxU64 <- 7, ChildSizes <- {0, 6, 7}, MaxName <- 3,
      BadNames <- {0, 2}, Messages <- MCMessages, nodes <- x1, msg <- x2, outcome <- x3
ATerm == INSTANCE ATerm WITH Words <- {"x", "y", "out", "dev", "drv", "n"}, HashAlgo <- {"sha"},
      Listings <- MCListings, Sizes <- {1}, Junk <- {<<>>, <<")">>}, listing <- x1, text <- x2,
      fed <- x3, taken <- x4, outcome <- x5
NarInfo == INSTANCE NarInfo WITH Infos <- MCInfos, Texts <- MCTexts, Keypairs <- MCKeypairs,
      MaxEdits <- 2, info <- x1, lines <- x2, edits <- x3
PathInfoProto == INSTANCE PathInfoProto WITH PathInfos <- MCPathInfos, MaxEdits <- 2,
      path_info <- x1, message <- x2, edits <- x3

Is(name) == component = name /\ UNCHANGED component
-----------------------------------------------------------------------------
Init ==
  \/ component = "graphs" /\ Graphs!Init /\ x10 = <<>> /\ x11 = <<>>
  \/ component = "chunked" /\ ChunkedReader!Init /\ x6 = <<>> /\ x7 = <<>> /\ x8 = <<>> /\ x9 = <<>>
       /\ x10 = <<>> /\ x11 = <<>>
  \/ component = "refscan" /\ RefScan!Init /\ x8 = <<>> /\ x9 = <<>> /\ x10 = <<>> /\ x11 = <<>>
  \/ component = "backends" /\ DirectoryBackends!Init /\ x10 = <<>> /\ x11 = <<>>
  \/ component = "pathinfos" /\ PathInfoStore!Init
  \/ component = "nar bridge" /\ NarBridge!Init /\ x10 = <<>> /\ x11 = <<>>
  \/ component = "nix http" /\ NixHttp!Init /\ x10 = <<>> /\ x11 = <<>>
  \/ component = "node" /\ DirectoryNode!Init /\ x4 = <<>> /\ x5 = <<>> /\ x6 = <<>> /\ x7 = <<>>
       /\ x8 = <<>> /\ x9 = <<>> /\ x10 = <<>> /\ x11 = <<>>
  \/ component = "aterm" /\ ATerm!Init /\ x6 = <<>> /\ x7 = <<>> /\ x8 = <<>> /\ x9 = <<>>
       /\ x10 = <<>> /\ x11 = <<>>
  \/ component = "narinfo" /\ NarInfo!Init /\ x4 = <<>> /\ x5 = <<>> /\ x6 = <<>> /\ x7 = <<>>
       /\ x8 = <<>> /\ x9 = <<>> /\ x10 = <<>> /\ x11 = <<>>
  \/ component = "protos" /\ PathInfoProto!Init /\ x4 = <<>> /\ x5 = <<>> /\ x6 = <<>> /\ x7 = <<>>
       /\ x8 = <<>> /\ x9 = <<>> /\ x10 = <<>> /\ x11 = <<>>

(* Uploads, requests, imports and decoding come to an end.                   *)
Over ==
  /\ \/ component = "graphs"
     \/ component = "node"
  /\ UNCHANGED vars

Next ==
  \/ Is("graphs") /\ Graphs!Next /\ UNCHANGED <<x10, x11>>
  \/ Is("chunked") /\ ChunkedReader!Next /\ UNCHANGED <<x6, x7, x8, x9, x10, x11>>
  \/ Is("refscan") /\ RefScan!Next /\ UNCHANGED <<x8, x9, x10, x11>>
  \/ Is("backends") /\ DirectoryBackends!Next /\ UNCHANGED <<x10, x11>>
  \/ Is("pathinfos") /\ PathInfoStore!Next
  \/ Is("nar bridge") /\ NarBridge!Next /\ UNCHANGED <<x10, x11>>
  \/ Is("nix http") /\ NixHttp!Next /\ UNCHANGED <<x10, x11>>
  \/ Is("node") /\ DirectoryNode!Next /\ UNCHANGED <<x4, x5, x6, x7, x8, x9, x10, x11>>
  \/ Is("aterm") /\ ATerm!Next /\ UNCHANGED <<x6, x7, x8, x9, x10, x11>>
  \/ Is("narinfo") /\ NarInfo!Next /\ UNCHANGED <<x4, x5, x6, x7, x8, x9, x10, x11>>
  \/ Is("protos") /\ PathInfoProto!Next /\ UNCHANGED <<x4, x5, x6, x7, x8, x9, x10, x11>>
  \/ Over

Spec == Init /\ [][Next]_vars
Symmetry == Permutations({t1, t2})
-----------------------------------------------------------------------------
(* The properties of the components, each explained where it is defined.     *)

(* A directory that was decoded is sorted, named and sized as Directory       *)
(* demands, is encoded as it came, and only invalid messages are refused. A   *)
(* graph that was built without a refusal is the closure of its root with     *)
(* its edges, an incomplete one is not built, and in root-to-leaves order     *)
(* its root is the one asked for.                                             *)
DirectoriesCanonical ==
  /\ component = "node" => DirectoryNode!TypeOK /\ DirectoryNode!DecodedIsCanonical
       /\ DirectoryNode!RoundTrip /\ DirectoryNode!RefusesOnlyInvalid
  /\ component = "graphs" => Graphs!TypeOK /\ Graphs!BuiltClosure /\ Graphs!BuildComplete
       /\ Graphs!BuiltEdges /\ Graphs!RootAsAsked

(* A seek in a chunked blob finds the chunk that holds the position and       *)
(* reads go on from there; the reference scanner passes on what it reads and  *)
(* finds just the needles that are there, also across its pieces.             *)
ReadersFaithful ==
  /\ component = "chunked" => ChunkedReader!TypeOK /\ ChunkedReader!SeekFindsChunk
       /\ ChunkedReader!ReadsAtPosition
  /\ component = "refscan" => RefScan!TypeOK /\ RefScan!NeedlesFound /\ RefScan!PassedThrough

(* No directory backend yields a directory that does not have its digest or   *)
(* part of a closure without an error, and what it took can be read. A path   *)
(* info that is read was put for that digest, what was put is found or a      *)
(* newer one, and a listing is what there was at one time.                    *)
StoresAnswer ==
  /\ component = "backends" => DirectoryBackends!TypeOK /\ DirectoryBackends!StreamGenuine
       /\ DirectoryBackends!StreamWhole /\ DirectoryBackends!UploadFound
  /\ component = "pathinfos" => PathInfoStore!TypeOK /\ PathInfoStore!AnswersWerePut
       /\ PathInfoStore!PutIsFound /\ PathInfoStore!ListIsSnapshot

(* A narinfo the nar-bridge accepted has all of its NAR, the NAR a client     *)
(* was told of waits for its narinfo while there is room, and the URL served  *)
(* with a narinfo works. What is found in a remote binary cache is what its   *)
(* key signed and is all in the local store, except for the empty blob of a   *)
(* castore-infused NAR, and a node that cannot be used is fetched as a NAR.   *)
BinaryCachesSound ==
  /\ component = "nar bridge" => NarBridge!TypeOK /\ NarBridge!AcceptedIsWhole
       /\ NarBridge!PromiseHeld /\ NarBridge!ServedUrlWorks
  /\ component = "nix http" => NixHttp!TypeOK /\ NixHttp!FoundIsGenuine /\ NixHttp!FoundIsLocal
       /\ NixHttp!FallsBack

(* What is written as ATerm, narinfo or path info message is read back as it  *)
(* was, only what is well formed is accepted, pieces of a stream do not       *)
(* matter, and a signature covers the fields that matter.                     *)
FormatsRoundTrip ==
  /\ component = "aterm" => ATerm!TypeOK /\ ATerm!RoundTrip /\ ATerm!PiecesDoNotMatter
  /\ component = "narinfo" => NarInfo!TypeOK /\ NarInfo!AcceptsExactly /\ NarInfo!RoundTrip
       /\ NarInfo!SignedFields
  /\ component = "protos" => PathInfoProto!TypeOK /\ PathInfoProto!WrittenIsRead
       /\ PathInfoProto!NothingIgnored

(* The size of a directory that add() built fits a u64.                       *)
SizeFits == component = "node" => DirectoryNode!SizeFits
=============================================================================
