------------------------------ MODULE Fetchers ------------------------------
(* Fetcher of build-glue: what a Fetch promises (store_path), how its bytes  *)
(* are downloaded (hashed mirrors first), checked, ingested and registered.  *)
(* Servers and mirrors answer with anything or not at all, a transfer breaks *)
(* off, services fail, and several fetches are under way at once.            *)
(*                                                                           *)
(* Bytes are a record: their form (a text, a tarball, a NAR), a label that   *)
(* says what is in them, and whether they are compressed. A digest is the    *)
(* algorithm and the bytes; a size is represented by the bytes it is of.     *)
EXTENDS Naturals, Sequences, SequencesExt

CONSTANTS Jobs,        \* fetches under way
          Fetches,     \* the fetches to choose from: [kind, exp]
          Names, Mirrors,
          Bodies,      \* the bytes a server may send
          MaxFetches

Bytes(form, label, packed) == [form |-> form, label |-> label, packed |-> packed]
File(bytes, executable) == [type |-> "file", bytes |-> bytes, executable |-> executable]
Dir(label) == [type |-> "dir", bytes |-> Bytes("tree", label, FALSE), executable |-> FALSE]

(* The NAR of a node. A directory's may also be what a server sends.         *)
Nar(node) ==
  IF node.type = "dir" THEN Bytes("nar", node.bytes.label, FALSE)
  ELSE Bytes(IF node.executable THEN "nar of executable " \o node.bytes.form ELSE "nar of " \o node.bytes.form,
             node.bytes.label, node.bytes.packed)

Digest(algo, bytes) == [algo |-> algo, bytes |-> bytes]
NoHash == Digest("none", Bytes("", "", FALSE))
NoNode == File(Bytes("", "", FALSE), FALSE)
CAHash(mode, hash) == [mode |-> mode, hash |-> hash]

VARIABLES jobs,     \* job -> its fetch and how far it got
          blobs,    \* the blob service: the bytes that were uploaded
          infos,    \* the path infos registered so far
          fetches
vars == <<jobs, blobs, infos, fetches>>

Idle == [at |-> "idle", fetch |-> [kind |-> "none", exp |-> NoHash], name |-> "", mirror |-> 0,
         body |-> Bytes("", "", FALSE), node |-> NoNode, ca |-> CAHash("none", NoHash),
         size |-> Bytes("", "", FALSE)]
Init == jobs = [j \in Jobs |-> Idle] /\ blobs = {} /\ infos = {} /\ fetches = 0

-----------------------------------------------------------------------------
build_ca_path(name, ca) == [name |-> name, ca |-> ca]

(* Fetch::store_path: the path that is promised, if there is a hash.         *)
store_path(fetch, name) ==
  IF fetch.exp = NoHash THEN {}
  ELSE {build_ca_path(name, CAHash(IF fetch.kind = "URL" THEN "flat" ELSE "nar", fetch.exp))}

Start(j, fetch, name) ==
  /\ jobs[j].at = "idle" /\ fetches < MaxFetches /\ fetches' = fetches + 1
  /\ jobs' = [jobs EXCEPT ![j] = [Idle EXCEPT !.at = "download", !.fetch = fetch, !.name = name]]
  /\ UNCHANGED <<blobs, infos>>

Moves(j, job) == jobs' = [jobs EXCEPT ![j] = job] /\ UNCHANGED <<infos, fetches>>
Fails(j, why) == Moves(j, [jobs[j] EXCEPT !.at = why]) /\ UNCHANGED blobs

(* The hash that selects the file on a mirror; tarballs have none.           *)
MirrorHash(fetch) == IF fetch.kind = "Tarball" THEN NoHash ELSE fetch.exp

(* download: every mirror is tried in turn, then the url itself, whose       *)
(* failure is the fetch's.                                                   *)
Download(j) ==
  LET job == jobs[j]
      mirrors == IF MirrorHash(job.fetch) = NoHash THEN 0 ELSE Mirrors
  IN  /\ job.at = "download"
      /\ \/ \E b \in Bodies : Moves(j, [job EXCEPT !.at = "ingest", !.body = b]) /\ UNCHANGED blobs
         \/ job.mirror < mirrors /\ Moves(j, [job EXCEPT !.mirror = @ + 1]) /\ UNCHANGED blobs
         \/ job.mirror = mirrors /\ Fails(j, "error")

-----------------------------------------------------------------------------
(* DecompressedReader::new: what may be read of a body after its first bytes *)
(* were looked at for a magic. A first read of fewer than BYTES_NEEDED bytes *)
(* is overwritten by the next one, as every read goes to the start of the    *)
(* buffer: the bytes handed on are no archive, or more of them count than    *)
(* the buffer has, and taking the slice panics.                              *)
Plain(body) == [body EXCEPT !.packed = FALSE]
Unpacked(body) == {Plain(body), Bytes("garbled", body.label, FALSE)}
Overfilled(j) == jobs[j].fetch.kind \in {"Tarball", "NAR"} /\ Fails(j, "panic")

Algo(exp) == IF exp = NoHash THEN "sha256" ELSE exp.algo

Mismatch(exp, actual) == exp # NoHash /\ exp # actual

Ingested(j, node, ca, size, stored) ==
  /\ Moves(j, [jobs[j] EXCEPT !.at = "persist", !.node = node, !.ca = ca, !.size = size])
  /\ blobs' = blobs \cup stored

(* Fetch::URL: hashed while it is copied; the blob is closed after the check.*)
IngestURL(j) ==
  LET b == jobs[j].body
      exp == jobs[j].fetch.exp
      actual_hash == Digest(Algo(exp), b)
  IN  /\ jobs[j].fetch.kind = "URL"
      /\ IF Mismatch(exp, actual_hash) THEN Fails(j, "mismatch")
         ELSE Ingested(j, File(b, FALSE), CAHash("flat", actual_hash), b, {b})

(* Fetch::Tarball: uncompressed, unpacked, and hashed as a NAR.              *)
IngestTarball(j) ==
  LET node == Dir(jobs[j].body.label)
      actual == Digest("sha256", Nar(node))
  IN  /\ jobs[j].fetch.kind = "Tarball"
      /\ \E b \in Unpacked(jobs[j].body) :
           IF b.form # "tar" THEN Fails(j, "error")
           ELSE IF Mismatch(jobs[j].fetch.exp, actual) THEN Fails(j, "mismatch")
           ELSE Ingested(j, node, CAHash("nar", actual), Nar(node), {})

(* Fetch::NAR: ingest_nar_and_hash compares the digest of the archive.       *)
IngestNAR(j) ==
  LET exp == jobs[j].fetch.exp
  IN  /\ jobs[j].fetch.kind = "NAR"
      /\ \E b \in Unpacked(jobs[j].body) :
           IF b.form # "nar" THEN Fails(j, "error")
           ELSE IF Mismatch(exp, Digest(Algo(exp), b)) THEN Fails(j, "mismatch")
           ELSE Ingested(j, Dir(b.label), CAHash("nar", exp), b, {})

(* The NAR that is rendered of the blob.                                     *)
ExecutableNar(b) == Nar(File(b, TRUE))

(* Fetch::Executable: stored first, then rendered and hashed as the NAR of   *)
(* an executable. The size handed on is that of the file.                    *)
IngestExecutable(j) ==
  LET b == jobs[j].body
      exp == jobs[j].fetch.exp
      actual_hash == Digest(Algo(exp), ExecutableNar(b))
  IN  /\ jobs[j].fetch.kind = "Executable"
      /\ IF Mismatch(exp, actual_hash)
         THEN Moves(j, [jobs[j] EXCEPT !.at = "mismatch"]) /\ blobs' = blobs \cup {b}
         ELSE Ingested(j, File(b, TRUE), CAHash("nar", actual_hash), b, {b})

(* The transfer, an upload or the calculation of a NAR may fail as well.     *)
Ingest(j) ==
  /\ jobs[j].at = "ingest"
  /\ \/ Fails(j, "error") \/ Overfilled(j)
     \/ IngestURL(j) \/ IngestTarball(j) \/ IngestNAR(j) \/ IngestExecutable(j)

-----------------------------------------------------------------------------
KnowsNar(ca) == ca.mode = "nar" /\ ca.hash.algo = "sha256"

(* ingest_and_persist: what comes with the node is used where it is the NAR's*)
(* sha256, otherwise it is calculated.                                       *)
Persist(j) ==
  LET job == jobs[j]
      info == [store_path |-> build_ca_path(job.name, job.ca), node |-> job.node, ca |-> job.ca,
               nar_size   |-> IF KnowsNar(job.ca) THEN job.size ELSE Nar(job.node),
               nar_sha256 |-> IF KnowsNar(job.ca) THEN job.ca.hash ELSE Digest("sha256", Nar(job.node)),
               wanted     |-> store_path(job.fetch, job.name)]
  IN  /\ job.at = "persist"
      /\ \/ Fails(j, "error")
         \/ /\ infos' = infos \cup {info} /\ jobs' = [jobs EXCEPT ![j].at = "done"]
            /\ UNCHANGED <<blobs, fetches>>

Finish(j) ==
  /\ jobs[j].at \in {"done", "error", "mismatch"} /\ jobs' = [jobs EXCEPT ![j] = Idle]
  /\ UNCHANGED <<blobs, infos, fetches>>

Over == fetches = MaxFetches /\ (\A j \in Jobs : jobs[j].at \in {"idle", "panic"}) /\ UNCHANGED vars

Next ==
  \/ \E j \in Jobs : \/ \E f \in Fetches, n \in Names : Start(j, f, n)
                     \/ Download(j) \/ Ingest(j) \/ Persist(j) \/ Finish(j)
  \/ Over
Spec == Init /\ [][Next]_vars

-----------------------------------------------------------------------------
TypeOK ==
  /\ \A j \in Jobs : jobs[j].mirror \in 0..Mirrors /\ jobs[j].node.type \in {"file", "dir"}
  /\ blobs \subseteq Bodies /\ fetches \in 0..MaxFetches

\* What is registered under a content-addressed path has that content: a file
\* with the flat hash, or a node whose NAR has the hash, in any algorithm and
\* wherever the bytes came from; and the contents of a file are in the store.
ContentsMatch ==
  \A i \in infos :
    /\ i.store_path.ca = i.ca
    /\ i.ca.hash.bytes = IF i.ca.mode = "flat" THEN i.node.bytes ELSE Nar(i.node)
    /\ i.ca.mode = "flat" => i.node.type = "file" /\ ~i.node.executable
    /\ i.node.type = "file" => i.node.bytes \in blobs

\* A fetch with a hash ends up at the store path that was given out before
\* anything was fetched, which the evaluator has put in strings and in
\* derivations by then (debug_assert_eq! in store_path_to_path_info).
PromiseKept == \A i \in infos : i.wanted \subseteq {i.store_path}

\* The NAR hash of a registered path is the sha256 of its NAR, also when the
\* fetch was given a hash of another kind.
NarHashOfNode == \A i \in infos : i.nar_sha256 = Digest("sha256", Nar(i.node))

\* A mismatch is only reported for bytes that are not what the hash describes.
\* For an executable that holds for its url only: on a mirror, the file that
\* has the hash is the NAR.
MismatchIsReal ==
  \A j \in Jobs :
    LET job == jobs[j]
        plain == Plain(job.body)
    IN  job.at = "mismatch" =>
          job.fetch.exp.bytes #
            CASE job.fetch.kind = "URL"        -> job.body
              [] job.fetch.kind = "Tarball"    -> Nar(Dir(plain.label))
              [] job.fetch.kind = "NAR"        -> plain
              [] job.fetch.kind = "Executable" -> Nar(File(job.body, TRUE))
=============================================================================
