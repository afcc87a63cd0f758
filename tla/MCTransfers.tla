---------------------------- MODULE MCTransfers -----------------------------
(* What talks to clients, peers and builders step by step: packets and NARs  *)
(* on the wire, a session of the daemon, and builds that evaluators ask for. *)
(* One behaviour is a behaviour of the component it starts as, and           *)
(* x1 ... x15 are that component's variables.                                 *)
EXTENDS NarWriter, TLC

CONSTANTS NoInfo

VARIABLES component, x1, x2, x3, x4, x5, x6, x7, x8, x9, x10, x11, x12, x13, x14, x15
vars == <<component, x1, x2, x3, x4, x5, x6, x7, x8, x9, x10, x11, x12, x13, x14, x15>>

-----------------------------------------------------------------------------
(* Padding, and the longer trailer of the framed store paths (wire Tags).    *)
Zeros(n) == [i \in 1 .. n |-> 0]
MCPatterns == {Zeros(8), Zeros(8) \o <<1, 0, 0, 0, 0, 0, 0, 0>>}

(* Trees of up to three levels; their archives whole, cut short, and with    *)
(* one token changed or added.                                               *)
Reg(x, n) == [type |-> "regular", exe |-> x, contents |-> [i \in 1 .. n |-> T("byte")]]
Sym == [type |-> "symlink", target |-> 3]
Dir(es) == [type |-> "directory", entries |-> es]
Leaves == {Sym, [Sym EXCEPT !.target = 1], Reg(TRUE, 2), Reg(FALSE, 1), Reg(FALSE, 0)}
Small == {<<>>} \union {<< <<1, l>> >> : l \in Leaves}
Trees == Leaves \union {Dir(es) : es \in Small} \union {Dir(<< <<1, l>>, <<2, m>> >>) : l, m \in Leaves}
         \union {Dir(<< <<1, Dir(es)>> >>) : es \in Small}
         \union {Dir(<< <<1, Dir(es)>>, <<2, l>> >>) : es \in Small, l \in Leaves}
MCArchives == {Render(t) : t \in Trees}
Damage(a) == {SubSeq(a, 1, n) : n \in 0 .. Len(a)}
             \union {[a EXCEPT ![i] = t] : i \in DOMAIN a, t \in {T("PAR"), T("ENT"), Str(1), LenTok(1), T("pad")}}
             \union {Append(a, T("PAR"))}
MCInputs == UNION {Damage(Render(t)) : t \in {Sym, Reg(TRUE, 2), Dir(<<>>),
                Dir(<< <<1, Reg(FALSE, 1)>>, <<2, Reg(FALSE, 0)>> >>), Dir(<< <<1, Dir(<< <<1, Sym>> >>)>>, <<2, Sym>> >>)}}
            \union MCArchives

(* castore nodes; blob 3 is empty, and one nested directory is missing.      *)
Blob(d, n) == [type |-> "regular", exe |-> d = 1, digest |-> d, size |-> n]
Known(es) == [type |-> "directory", entries |-> es, known |-> TRUE]
MCRoots == {Sym, Blob(1, 2), Blob(3, 0), Known(<<>>), Known(<< <<1, Blob(2, 3)>>, <<2, Blob(3, 0)>>, <<3, Blob(1, 2)>> >>),
            Known(<< <<1, Known(<< <<1, Blob(3, 0)>>, <<2, Blob(1, 2)>> >>)>>, <<2, Sym>> >>),
            Known(<< <<1, [Known(<<>>) EXCEPT !.known = FALSE]>> >>)}
MCHeld == {<<2, 3, 0>>, <<1, 3, 0>>, <<4, 3, 0>>, <<2, -1, 0>>}

(* Requests of two names that share a digest, and uploads whose NAR or hash  *)
(* is not what was declared.                                                 *)
P(n) == [digest |-> "d", name |-> n]
E(nar, ca) == [path |-> P("a"), nar |-> nar, hash |-> "n1", ca |-> ca]
Simple == {"IsValidPath", "SetOptions", "QueryPathInfo", "QueryPathFromHashPart", "QueryValidPaths",
           "QueryValidDerivers", "QueryReferrers", "QueryRealisation", "BuildPaths"}
MCRequests ==
    {[op |-> o, path |-> P("a"), sound |-> TRUE] : o \in Simple} \union
    {[op |-> o, path |-> P("b"), sound |-> o # "QueryValidPaths"] : o \in {"IsValidPath", "QueryPathInfo", "QueryValidPaths"}} \union
    {[op |-> "AddToStoreNar", entries |-> <<E(n, c)>>] : n \in {"n1", "n2"}, c \in {"none", "wrong"}} \union
    {[op |-> "AddMultipleToStore", entries |-> es] :
        es \in {<<>>, <<E("n1", "right")>>, <<E("n2", "none")>>, <<E("n1", "none"), E("n1", "right")>>, <<E("n1", "none"), E("n2", "none")>>}} \union
    {[op |-> "CollectGarbage", path |-> P("a")]}

(* Three derivations on a fetch and a source; what their outputs mention.    *)
MCDerivations ==
  << [outputs |-> <<2>>, sources |-> <<>>, inputs |-> <<>>],
     [outputs |-> <<5, 3>>, sources |-> <<1>>, inputs |-> <<2>>],
     [outputs |-> <<4>>, sources |-> <<>>, inputs |-> <<3>>] >>
MCMentions == (3 :> {{5}, {3, 5, 2}}) @@ (5 :> {{3, 1, 4}}) @@ (4 :> {{3, 4, 1}})

(* Archives of up to three entries; paths that repeat, nest and climb.       *)
Packed(h, d) == [kind |-> "file", host |-> h, size |-> Len(d), data |-> d]
Header(k, h) == [kind |-> k, host |-> h, size |-> 0, data |-> <<>>]
AB == <<"a", "b">>
AD == <<".", "a", "b", "..", "d">>
Few == {Packed(AB, <<1>>), Packed(<<"a", "b", "c">>, <<1, 2>>), Packed(AD, <<1>>), Packed(<<"a", "b", "d">>, <<1, 2, 3>>), Header("dir", AB)}
Many == Few \cup {[Packed(AB, <<1>>) EXCEPT !.size = 2], Header("dir", <<"a">>), Header("symlink", AD), Header("header", <<"a">>),
                  Header("other", <<"a">>), Header("dir", <<"x">>), Header("dir", <<".">>), Packed(<<"a">>, <<1>>), Header("dir", <<"..">>)}
Deep == {Packed(<<"a", "b", "c", "x">>, <<1>>), Packed(<<"a", "b", "c", "y">>, <<1>>), Packed(AB, <<1>>)}
MCTars == UNION {[1 .. n -> Many] : n \in 0 .. 2} \cup [1 .. 3 -> Few] \cup [1 .. 3 -> Deep]

(* Blobs, and the chunks a service lists for them.                           *)
MCBlobs == {<<>>, <<1>>, <<1, 2>>, <<2, 1, 2>>}
MCChunking(blob) == IF Len(blob) < 2 THEN <<>> ELSE [i \in DOMAIN blob |-> <<blob[i]>>]
MCSplit(d) == IF Len(d) > 1 THEN 2 ELSE 0

(* Trees to import: a file, a link, a socket, and directories with each.     *)
Entry(type, c, x) == [type |-> type, content |-> c, executable |-> x]
Folder == Entry("directory", 0, FALSE)
Link == Entry("symlink", 0, TRUE)
Socket == Entry("unknown", 0, FALSE)
Plain(c, x) == Entry("regular", c, x)
MCTrees == {<<>> :> Plain(1, TRUE), <<>> :> Link, <<>> :> Socket,
            (<<>> :> Folder) @@ (<<"a">> :> Folder) @@ (<<"a", "a">> :> Plain(1, TRUE)) @@ (<<"b">> :> Plain(1, FALSE)),
            (<<>> :> Folder) @@ (<<"a">> :> Folder) @@ (<<"a", "a">> :> Folder) @@ (<<"a", "b">> :> Link) @@ (<<"b">> :> Folder),
            (<<>> :> Folder) @@ (<<"a">> :> Socket) @@ (<<"b">> :> Plain(3, FALSE))}
MCChanges == {Plain(2, TRUE), Link}

Packet == INSTANCE BytesPacket WITH Lengths <- {0, 1, 7, 8, 9, 16, 17}, Patterns <- MCPatterns,
      MaxLen <- 16, Amounts <- {1, 3, 8}, payload <- x1, pattern <- x2, sent <- x3, cut <- x4,
      writer <- x5, shut <- x6, taken <- x7, reader <- x8, out <- x9
Stderr == INSTANCE StderrReader WITH Sizes <- {0, 3, 8, 11}, Capacities <- {2, 9, 16},
      Exact <- FALSE, Amounts <- {1, 4, 8}, size <- x1, client <- x2, asked <- x3, inbound <- x4,
      cut <- x5, stderr <- x6, buf <- x7, cap <- x8, given <- x9, ended <- x10
Daemon == INSTANCE DaemonSession WITH Minors <- {10, 12, 20, 21, 38}, Digests <- {"d"},
      Requests <- MCRequests, MaxRequests <- 2,
      Handshakes <- {"good", "cpu", "no options", "bad version", "bad magic"}, minor <- x1,
      hello <- x2, made <- x3, replies <- x4, inbound <- x5, outbound <- x6, conn <- x7,
      daemon <- x8, ahead <- x9, store <- x10, writer <- x11
NarArchive == INSTANCE NarArchive WITH Archives <- MCArchives, Inputs <- MCInputs, BadNames <- {0},
      Amounts <- {1, 2}, Block <- 2, input <- x1, pos <- x2, stack <- x3, poisoned <- x4,
      state <- x5, failed <- x6, copying <- x7, out <- x8
SeekableNar == INSTANCE SeekableNar WITH Roots <- MCRoots, Held <- MCHeld,
      Targets <- {0, 3, 5, 6, 8, 15, 16, 17, 30}, Amounts <- {1, 3}, Block <- 2, root <- x1,
      held <- x2, segments <- x3, position_bytes <- x4, position_index <- x5, seeking <- x6,
      current_blob <- x7, phase <- x8, result <- x9, fault <- x10
Builds == INSTANCE Builds WITH Evaluators <- {1, 2}, Derivations <- MCDerivations, Fetches <- {2},
      Sources <- {1}, Mentions <- MCMentions, MaxRequests <- 2, infos <- x1, replaces <- x2,
      known <- x3, stack <- x4, answer <- x5, requests <- x6
Ingest == INSTANCE Ingest WITH Archives <- MCTars, CONCURRENT_BLOB_UPLOAD_THRESHOLD <- 3,
      MAX_BUFFER_SIZE <- 3, MaxEntries <- 3, Faults <- TRUE, archive <- x1, next <- x2,
      permits <- x3, upload_tasks <- x4, blobs <- x5, nodes <- x6, edges <- x7, root_node <- x8,
      phase <- x9, left <- x10, directories <- x11, sent_directories <- x12, stored <- x13,
      result <- x14
BlobCache == INSTANCE BlobCache WITH Blobs <- MCBlobs, Chunking <- MCChunking, Client <- {1},
      near <- x1, far <- x2, index <- x3, want <- x4, pc <- x5, todo <- x6, writer <- x7,
      there <- x8, result <- x9
BlobWriters == INSTANCE BlobWriters WITH Kinds <- {"memory", "grpc", "object_store"},
      Atom <- {1, 2}, MaxWritten <- 2, MaxCalls <- 4, PipeSize <- 1, Split <- MCSplit, kind <- x1,
      writer <- x2, call <- x3, buf <- x4, accepted <- x5, pipe <- x6, got <- x7, fut <- x8,
      polled <- x9, saved <- x10, store <- x11, answers <- x12, careless <- x13, rd <- x14,
      found <- x15
Imports == INSTANCE Imports WITH Trees <- MCTrees, Changes <- MCChanges, MaxEdits <- 1, fs <- x1,
      import <- x2, store <- x3, edits <- x4, before <- x5

Is(name) == component = name /\ UNCHANGED component
-----------------------------------------------------------------------------
Init ==
  \/ component = "packet" /\ Packet!Init /\ x10 = <<>> /\ x11 = <<>> /\ x12 = <<>> /\ x13 = <<>>
       /\ x14 = <<>> /\ x15 = <<>>
  \/ component = "stderr" /\ Stderr!Init /\ x11 = <<>> /\ x12 = <<>> /\ x13 = <<>> /\ x14 = <<>>
       /\ x15 = <<>>
  \/ component = "daemon" /\ Daemon!Init /\ x12 = <<>> /\ x13 = <<>> /\ x14 = <<>> /\ x15 = <<>>
  \/ component = "nar" /\ NarArchive!Init /\ x9 = <<>> /\ x10 = <<>> /\ x11 = <<>> /\ x12 = <<>>
       /\ x13 = <<>> /\ x14 = <<>> /\ x15 = <<>>
  \/ component = "seekable" /\ SeekableNar!Init /\ x11 = <<>> /\ x12 = <<>> /\ x13 = <<>>
       /\ x14 = <<>> /\ x15 = <<>>
  \/ component = "builds" /\ Builds!Init /\ x7 = <<>> /\ x8 = <<>> /\ x9 = <<>> /\ x10 = <<>>
       /\ x11 = <<>> /\ x12 = <<>> /\ x13 = <<>> /\ x14 = <<>> /\ x15 = <<>>
  \/ component = "archive" /\ Ingest!Init /\ x15 = <<>>
  \/ component = "blob cache" /\ BlobCache!Init /\ x10 = <<>> /\ x11 = <<>> /\ x12 = <<>>
       /\ x13 = <<>> /\ x14 = <<>> /\ x15 = <<>>
  \/ component = "writers" /\ BlobWriters!Init
  \/ component = "imports" /\ Imports!Init /\ x6 = <<>> /\ x7 = <<>> /\ x8 = <<>> /\ x9 = <<>>
       /\ x10 = <<>> /\ x11 = <<>> /\ x12 = <<>> /\ x13 = <<>> /\ x14 = <<>> /\ x15 = <<>>

(* Connections end, and so do evaluations.                                  *)
Over ==
  /\ \/ component = "archive" /\ ~Ingest!Running
     \/ component = "writers"
     \/ component = "imports"
  /\ UNCHANGED vars

Next ==
  \/ Is("packet") /\ Packet!Next /\ UNCHANGED <<x10, x11, x12, x13, x14, x15>>
  \/ Is("stderr") /\ Stderr!Next /\ UNCHANGED <<x11, x12, x13, x14, x15>>
  \/ Is("daemon") /\ Daemon!Next /\ UNCHANGED <<x12, x13, x14, x15>>
  \/ Is("nar") /\ NarArchive!Next /\ UNCHANGED <<x9, x10, x11, x12, x13, x14, x15>>
  \/ Is("seekable") /\ SeekableNar!Next /\ UNCHANGED <<x11, x12, x13, x14, x15>>
  \/ Is("builds") /\ Builds!Next /\ UNCHANGED <<x7, x8, x9, x10, x11, x12, x13, x14, x15>>
  \/ Is("archive") /\ Ingest!Next /\ UNCHANGED <<x15>>
  \/ Is("blob cache") /\ BlobCache!Next /\ UNCHANGED <<x10, x11, x12, x13, x14, x15>>
  \/ Is("writers") /\ BlobWriters!Next
  \/ Is("imports") /\ Imports!Next /\ UNCHANGED <<x6, x7, x8, x9, x10, x11, x12, x13, x14, x15>>
  \/ Over

(* As long as a process of the component can go on, one does; nothing is     *)
(* assumed of which one.                                                     *)
Turn1 ==
  \/ Is("packet") /\ Packet!Reads /\ UNCHANGED <<x10, x11, x12, x13, x14, x15>>
  \/ Is("stderr") /\ (Stderr!poll_read \/ Stderr!Answer) /\ UNCHANGED <<x11, x12, x13, x14, x15>>
  \/ Is("daemon") /\ (Daemon!Proceeds \/ Daemon!Receive) /\ UNCHANGED <<x12, x13, x14, x15>>
  \/ Is("nar") /\ (NarArchive!open \/ NarArchive!Next_Entry \/ NarArchive!Read \/ NarArchive!Drop) /\ UNCHANGED <<x9, x10, x11, x12, x13, x14, x15>>
  \/ Is("builds") /\ (Builds!Step(1) \/ Builds!Step(2)) /\ UNCHANGED <<x7, x8, x9, x10, x11, x12, x13, x14, x15>>
  \/ Is("archive") /\ (Ingest!Function \/ \E i \in 1 .. 3 : Ingest!TaskRuns(i)) /\ UNCHANGED <<x15>>
  \/ Is("blob cache") /\ BlobCache!open_read(1) /\ UNCHANGED <<x10, x11, x12, x13, x14, x15>>
  \/ Is("writers") /\ (BlobWriters!Receive \/ BlobWriters!Finish \/ BlobWriters!WriteReturns \/ BlobWriters!CloseReturns)
Fairness == WF_vars(Turn1)

Spec == Init /\ [][Next]_vars /\ Fairness
-----------------------------------------------------------------------------
(* The properties of the components, each explained where it is defined.     *)

(* However the bytes are cut: a packet is read and written exactly and its    *)
(* last bytes only after its padding was checked, STDERR_READ delivers what   *)
(* the client sent and leaves no padding behind, client and daemon agree      *)
(* where a message ends, every answer belongs to its request, and the daemon  *)
(* records what the archive it received has.                                  *)
WireInStep ==
  /\ component = "packet" => Packet!ReadsPacket /\ Packet!LastBlockVerified /\ Packet!WritesPacket
       /\ Packet!AgreesWithReadBytes
  /\ component = "stderr" => Stderr!StderrDelivers /\ Stderr!NoDanglingPadding /\ Stderr!EofAtEnd
  /\ component = "daemon" => Daemon!InStep /\ Daemon!AnswersFit /\ Daemon!RecordsMatch
       /\ Daemon!AcceptsDeclared

(* copy() accepts just the archives and writes what it read; a seekable NAR   *)
(* reads as the archive of its node wherever one seeks, fails only for blobs  *)
(* that are not there as declared or in the hole of an empty one, and agrees  *)
(* with its size and listing.                                                 *)
NarsExact ==
  /\ component = "nar" => NarArchive!Copies /\ NarArchive!AcceptsExactly
  /\ component = "seekable" => SeekableNar!ReadsNar /\ SeekableNar!NoneFails
       /\ SeekableNar!ViewsAgree

(* However evaluators overlap: builds see every path their inputs refer to,   *)
(* the references recorded for an output are those in its bytes and are       *)
(* recorded themselves, and a path is answered with the node recorded for     *)
(* it.                                                                        *)
BuildsSound ==
  /\ component = "builds" => Builds!TypeOK /\ Builds!InputsClosed /\ Builds!ReferencesExact
       /\ Builds!NodeOfPath /\ Builds!ReferencesPresent

(* An import of an archive succeeds only after its blobs are stored, holds    *)
(* no more than the buffer, leaves no directory without its parent, and is    *)
(* the tree the archive describes, but for what comes back below a replaced   *)
(* directory. A filtered import of a path that changes meanwhile has what     *)
(* the filter keeps, the sizes that were seen, and the hash expected of it.   *)
ImportsExact ==
  /\ component = "archive" => Ingest!TypeOK /\ Ingest!BufferBounded /\ Ingest!BlobsFirst
       /\ Ingest!NothingLeftOver /\ Ingest!RootIsArchive
  /\ component = "imports" => Imports!TypeOK /\ Imports!Ingestible /\ Imports!FilteredTree
       /\ Imports!NoTornSizes /\ Imports!HashHonoured

(* The near service of a blob cache never holds part of a blob, no read       *)
(* through it is told that chunks are missing, and what was read is near.     *)
(* close() of a blob writer returns the digest of all that was written,       *)
(* again and again; a writer panics only for a caller that goes on after an   *)
(* error; a read over gRPC is whole or an error.                              *)
BlobsWhole ==
  /\ component = "blob cache" => BlobCache!TypeOK /\ BlobCache!NoTruncatedBlob
       /\ BlobCache!ReadIsCached /\ BlobCache!NeverBroken
  /\ component = "writers" => BlobWriters!TypeOK /\ BlobWriters!ClosedIsContent
       /\ BlobWriters!CloseIsIdempotent /\ BlobWriters!PanicsOnlyIfCareless /\ BlobWriters!ReadWhole

Waits1 ==
  \/ component = "packet" /\ Packet!Waiting
  \/ component = "stderr" /\ Stderr!Waiting
  \/ component = "daemon" /\ Daemon!Waiting
  \/ component = "nar" /\ NarArchive!Busy
  \/ component = "builds" /\ (Builds!Busy(1) \/ Builds!Busy(2))
  \/ component = "archive" /\ Ingest!Running
  \/ component = "blob cache" /\ BlobCache!Reading(1)
  \/ component = "writers" /\ BlobWriters!Waiting

(* Nothing waits for ever: readers of packets and of archives come to an     *)
(* end, a read through STDERR_READ sees the end of the client's data, a      *)
(* request is answered, and a realisation of a path returns.                 *)
CallsReturn == (Waits1 ~> ~Waits1)
=============================================================================
