------------------------------ MODULE NixHttp ------------------------------
(* The path info service that substitutes from a Nix HTTP binary cache       *)
(* (store/src/pathinfoservice/nix_http) into a local castore.                *)
(*                                                                           *)
(* A root node n is Tree[n]: the directories it needs, the root one first,   *)
(* the sequence of its files' blobs, blob 0 being the empty one (the sizes in *)
(* nodes being those of the blobs), and the size of its NAR. NAR n,          *)
(* of hash n and size Size(n), is what node n renders to. A narinfo is       *)
(* [digest, nar, size, node, narsize, comp, ca, sig]: node and narsize are   *)
(* what its URL carries, node 0 when the URL is not castore-infused; sig is  *)
(* the triple that a trusted key has signed, if any, as a set.               *)
EXTENDS Naturals, Sequences, SequencesExt

CONSTANTS Tree, Narinfos, Digests,
          Trusted,           \* whether trusted_public_keys is not empty
          force_download_nar,
          MaxCalls

Nodes == DOMAIN Tree
Size(n) == Tree[n].size
Compressions == {"none", "bzip2", "gzip", "xz", "zstd"}
EmptyBlob == 0

VARIABLES blobs, dirs,       \* what the local castore holds
          far,               \* [blobs, dirs] of the remote castore, during this call
          pc, asked, narinfo, queue, answer, calls
vars == <<blobs, dirs, far, pc, asked, narinfo, queue, answer, calls>>

NoAnswer == [kind |-> "", why |-> "", node |-> 0, by |-> ""]
Err(why) == [NoAnswer EXCEPT !.kind = "error", !.why = why]

NoNarinfo == CHOOSE n \in Narinfos : TRUE

AllBlobs == UNION {ToSet(Tree[n].blobs) : n \in Nodes}
AllDirs == UNION {ToSet(Tree[n].dirs) : n \in Nodes}

Init ==
  /\ blobs = {} /\ dirs = {} /\ far = [blobs |-> {}, dirs |-> {}]
  /\ pc = "idle" /\ asked = 0 /\ narinfo = NoNarinfo /\ queue = <<>>
  /\ answer = NoAnswer /\ calls = 0

Return(a) == answer' = a /\ pc' = "idle" /\ queue' = <<>>

-----------------------------------------------------------------------------
get(d) ==
  /\ pc = "idle" /\ calls < MaxCalls /\ calls' = calls + 1
  /\ asked' = d /\ pc' = "narinfo" /\ answer' = NoAnswer
  /\ \E b \in SUBSET AllBlobs, s \in SUBSET AllDirs : far' = [blobs |-> b, dirs |-> s]
  /\ narinfo' = NoNarinfo /\ UNCHANGED <<blobs, dirs, queue>>

(* HEAD, status 0 for no answer: anything but 403 and 404 counts as there.   *)
has(d) ==
  /\ pc = "idle" /\ calls < MaxCalls /\ calls' = calls + 1 /\ asked' = d
  /\ \E status \in {0, 200, 403, 404, 500} :
       Return([NoAnswer EXCEPT !.kind = CASE status = 0            -> "error"
                                          [] status \in {403, 404} -> "false"
                                          [] OTHER                 -> "true"])
  /\ UNCHANGED <<blobs, dirs, far, narinfo>>

Verified(n) == Trusted => \E s \in n.sig : s = <<n.digest, n.nar, n.size>>

(* The answer to the request for the narinfo: none, a status, text that is   *)
(* not a narinfo, or one; the status of any other answer is not looked at.   *)
GotNarinfo ==
  /\ pc = "narinfo"
  /\ \/ Return(Err("Reqwest")) /\ UNCHANGED narinfo
     \/ Return([NoAnswer EXCEPT !.kind = "none"]) /\ UNCHANGED narinfo
     \/ Return(Err("ParseNARInfo")) /\ UNCHANGED narinfo
     \/ \E n \in Narinfos :
          /\ narinfo' = n
          /\ IF n.digest # asked THEN Return(Err("digest doesn't match"))
             ELSE IF ~Verified(n) THEN Return(Err("NoValidSignature"))
             ELSE /\ pc' = IF force_download_nar THEN "download" ELSE "infused"
                  /\ UNCHANGED <<queue, answer>>
  /\ UNCHANGED <<blobs, dirs, far, asked, calls>>

-----------------------------------------------------------------------------
(* try_infused_nar_path. An error is logged, and the NAR is downloaded.      *)
parse_infused_nar_path(n) == IF n.node = 0 THEN <<>> ELSE <<n.node>>

Unusable(why) == pc' = "download" /\ queue' = <<>> /\ UNCHANGED answer

(* The reader fetches all directories through the cache, which puts what far *)
(* has into the local service, and then opens the blobs in order, except     *)
(* empty ones, whose segments it skips. A root directory that neither has is *)
(* an empty stream, taken for a node without directories: the walk panics.   *)
InfusedStart ==
  /\ pc = "infused"
  /\ LET p == parse_infused_nar_path(narinfo)
         n == p[1]
         ds == Tree[n].dirs
     IN  IF p = <<>> THEN Unusable("") /\ UNCHANGED dirs
         ELSE IF narinfo.narsize # narinfo.size
         THEN Unusable("InconsistentNarSizeInURL") /\ UNCHANGED dirs
         ELSE IF ds = <<>> \/ ds[1] \in dirs \/ ToSet(ds) \subseteq far.dirs
         THEN /\ dirs' = dirs \cup ToSet(ds)
              /\ pc' = "render" /\ UNCHANGED answer
              /\ queue' = SelectSeq(Tree[n].blobs, LAMBDA b : b # EmptyBlob)
         ELSE IF ds[1] \notin far.dirs
         THEN Return([NoAnswer EXCEPT !.kind = "panic"]) /\ UNCHANGED dirs
         ELSE Unusable("DirectoryService") /\ UNCHANGED dirs
  /\ UNCHANGED <<blobs, far, asked, narinfo, calls>>

(* The next blob, through the cache, which copies it to the local service.   *)
RenderBlob ==
  /\ pc = "render" /\ queue # <<>>
  /\ IF Head(queue) \in blobs \cup far.blobs
     THEN /\ blobs' = blobs \cup {Head(queue)}
          /\ queue' = Tail(queue) /\ UNCHANGED <<pc, answer>>
     ELSE Unusable("blob not found") /\ UNCHANGED blobs
  /\ UNCHANGED <<dirs, far, asked, narinfo, calls>>

Unreachable ==
  /\ pc \in {"infused", "render"} /\ Unusable("the remote castore fails")
  /\ UNCHANGED <<blobs, dirs, far, asked, narinfo, calls>>

Found(n, by) == [kind |-> "found", why |-> "", node |-> n, by |-> by]

Rendered ==
  /\ pc = "render" /\ queue = <<>>
  /\ IF Size(narinfo.node) # narinfo.size \/ narinfo.node # narinfo.nar
     THEN Unusable("WrongNARHash") ELSE Return(Found(narinfo.node, "infused"))
  /\ UNCHANGED <<blobs, dirs, far, asked, narinfo, calls>>

-----------------------------------------------------------------------------
(* ingest_nar_and_hash checks the CA hash of the narinfo: a NAR hash against *)
(* the NAR, a flat one against the blob of a single file; not a text hash.   *)
CaError(n, ca) ==
  CASE ca.mode = "nar"  -> IF ca.hash = n THEN "" ELSE "HashMismatch"
    [] ca.mode = "flat" -> IF Tree[n].dirs # <<>> \/ Len(Tree[n].blobs) # 1 THEN "TypeMismatch"
                           ELSE IF Tree[n].blobs[1] # ca.hash THEN "HashMismatch" ELSE ""
    [] OTHER -> ""

Mismatch(n) == IF Size(n) # narinfo.size THEN "NARSizeMismatch"
               ELSE IF n # narinfo.nar THEN "NARHashMismatch" ELSE ""

(* The NAR is asked for. No answer, another status than success, an          *)
(* unsupported compression, a body that breaks off or is not a NAR; a NAR's  *)
(* contents are stored before any hash is compared.                          *)
NoNar ==
  /\ pc = "download"
  /\ \E why \in {"Reqwest", "FailedToRequestNAR", "UnsupportedNARCompression", "IngestNAR"} :
       /\ why = "UnsupportedNARCompression" <=> narinfo.comp \notin Compressions
       /\ Return(Err(why))
  /\ UNCHANGED <<blobs, dirs, far, asked, narinfo, calls>>

GotNar ==
  /\ pc = "download" /\ narinfo.comp \in Compressions
  /\ \E n \in Nodes :
       /\ blobs' = blobs \cup ToSet(Tree[n].blobs) /\ dirs' = dirs \cup ToSet(Tree[n].dirs)
       /\ IF CaError(n, narinfo.ca) # "" THEN Return(Err("IngestNAR"))
          ELSE IF Mismatch(n) # "" THEN Return(Err(Mismatch(n)))
          ELSE Return(Found(n, "download"))
  /\ UNCHANGED <<far, asked, narinfo, calls>>

Over == pc = "idle" /\ calls = MaxCalls /\ UNCHANGED vars

Next == \/ \E d \in Digests : get(d) \/ has(d)
        \/ GotNarinfo \/ InfusedStart \/ RenderBlob \/ Unreachable \/ Rendered
        \/ NoNar \/ GotNar \/ Over
Spec == Init /\ [][Next]_vars

-----------------------------------------------------------------------------
TypeOK ==
  /\ blobs \subseteq AllBlobs /\ dirs \subseteq AllDirs
  /\ pc \in {"idle", "narinfo", "infused", "render", "download"}
  /\ queue \in Seq(AllBlobs) /\ calls \in 0..MaxCalls

\* A path info that is returned is for the digest asked for, a trusted key has
\* signed its path, NAR hash and size when there are trusted keys, and its node
\* is the one of the NAR with that hash and size, by either route
\* (NixHTTPPathInfoService::get).
FoundIsGenuine ==
  answer.kind = "found" =>
    /\ narinfo.digest = asked
    /\ Trusted => <<asked, answer.node, Size(answer.node)>> \in narinfo.sig
    /\ narinfo.nar = answer.node /\ narinfo.size = Size(answer.node)

\* When a path info is returned, every directory and every blob of its node is
\* in the local castore services, those of a castore-infused NAR having been
\* copied there on the way ("We rely on Cache to *insert* into 'near'"). The empty
\* blob is excepted on that route: the reader skips it, so it is never copied, and
\* only a local blob service that implies it (the object store's) can open it.
FoundIsLocal ==
  answer.kind = "found" =>
    /\ ToSet(Tree[answer.node].dirs) \subseteq dirs
    /\ ToSet(Tree[answer.node].blobs) \ (IF answer.by = "infused" THEN {EmptyBlob} ELSE {}) \subseteq blobs

\* Whatever is wrong with the castore-infused route, the call goes on to ask for
\* the NAR: it fails only for a reason that the narinfo or the NAR gives, or
\* panics because the root directory is nowhere.
FallsBack ==
  /\ answer.kind = "error" =>
       answer.why \in {"", "Reqwest", "ParseNARInfo", "digest doesn't match", "NoValidSignature",
                       "FailedToRequestNAR", "UnsupportedNARCompression", "IngestNAR",
                       "NARSizeMismatch", "NARHashMismatch"}
  /\ answer.kind = "panic" => Tree[narinfo.node].dirs[1] \notin dirs \cup far.dirs
=============================================================================
