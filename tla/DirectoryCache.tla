--------------------------- MODULE DirectoryCache ---------------------------
(***************************************************************************)
(* Readers of a Cache of directories: a near service in front of a far one *)
(* (directoryservice/combinators/cache.rs), the breadth-first traversal    *)
(* both use (traversal/bfs.rs) and the path descent above them             *)
(* (traversal/descend_to.rs).  Clients run at the same time, miss at the   *)
(* same time, fill near at the same time, and may fail or be dropped       *)
(* between any two steps.  What others upload to far follows ClosedStore.  *)
(*                                                                         *)
(* FarKind "table": every directory of far can be asked for, and a         *)
(* traversal reads them one by one.  "object": only the root of an upload  *)
(* can be asked for, and its closure arrives as one immutable object.      *)
(* NearKind "simple" writes one by one, "redb" in one transaction.         *)
(***************************************************************************)
EXTENDS Directories, TLC

CONSTANTS
    Client,
    NearKind,       \* "simple", "redb"
    FarKind         \* "table", "object"

ASSUME KindsAssumption == NearKind \in {"simple", "redb"} /\ FarKind \in {"table", "object"}

VARIABLES
    dirs, near, far,
    op,         \* per client: "get", "get_recursive", "descend" (get of a linked child)
    pc,         \* per client: "idle", "near", "walk_near", "walk_far", "fill"
    want,       \* per client: the digest asked for
    there,      \* per client: want could be served when the request started
    work,       \* per client: worklist_directory_digests, emptied in any order
    sent,       \* per client: directories yielded by the traversal, in order
    queue,      \* per client: what is still to be put into near
    result      \* per client: outcome of the last request

clients == <<op, pc, want, there, work, sent, queue, result>>
vars == <<dirs, near, far, clients>>

Results == {"none", "found", "absent", "inconsistent", "failed"}

Init ==
    /\ dirs \in Contents /\ SizesAgree(dirs, Digest)   \* uploads went through a validator
    /\ near = {} /\ far = {}
    /\ op = [c \in Client |-> "get"] /\ pc = [c \in Client |-> "idle"]
    /\ want = [c \in Client |-> None] /\ there = [c \in Client |-> FALSE]
    /\ work = [c \in Client |-> {}] /\ sent = [c \in Client |-> <<>>]
    /\ queue = [c \in Client |-> {}] /\ result = [c \in Client |-> "none"]

(* Somebody uploads to far. *)
FarGrows ==
    /\ \E r \in Digest \ far :
          far' = far \cup (IF FarKind = "table" THEN Reachable(dirs, r) ELSE {r})
    /\ UNCHANGED <<dirs, near, clients>>

Start(c, kind, d) ==
    /\ pc[c] = "idle"
    /\ op' = [op EXCEPT ![c] = kind]
    /\ pc' = [pc EXCEPT ![c] = IF kind = "get_recursive" THEN "walk_near" ELSE "near"]
    /\ want' = [want EXCEPT ![c] = d]
    /\ there' = [there EXCEPT ![c] = d \in near \cup far]
    /\ work' = [work EXCEPT ![c] = {d}]
    /\ sent' = [sent EXCEPT ![c] = <<>>]
    /\ queue' = [queue EXCEPT ![c] = {}]
    /\ result' = [result EXCEPT ![c] = "none"]
    /\ UNCHANGED <<dirs, near, far>>

(* descend_to() goes on from a directory it got to one it links. *)
Request(c) ==
    \/ \E d \in Digest, kind \in {"get", "get_recursive"} : Start(c, kind, d)
    \/ /\ op[c] \in {"get", "descend"} /\ result[c] = "found"
       /\ \E d \in Children(dirs[want[c]]) : Start(c, "descend", d)

Done(c, r) ==
    /\ result' = [result EXCEPT ![c] = r]
    /\ pc' = [pc EXCEPT ![c] = "idle"]

(* get(): the requested directory in near answers it. *)
NearGet(c) ==
    /\ pc[c] = "near"
    /\ IF want[c] \in near THEN Done(c, "found")
       ELSE pc' = [pc EXCEPT ![c] = "walk_far"] /\ UNCHANGED result
    /\ UNCHANGED <<dirs, near, far, op, want, there, work, sent, queue>>

-----------------------------------------------------------------------------
(* root_to_leaves(): one directory off the worklist, its children onto it  *)
(* unless they were sent.                                                  *)

Enqueue_Sent(waiting, seen, d) == (waiting \ {d}) \cup Children(dirs[d])

Enqueue(waiting, seen, d) == (waiting \ {d}) \cup (Children(dirs[d]) \ (seen \cup {d}))

Yield(c, d) ==
    /\ work' = [work EXCEPT ![c] = Enqueue(work[c], Range(sent[c]), d)]
    /\ sent' = [sent EXCEPT ![c] = Append(@, d)]
    /\ UNCHANGED <<pc, queue, result>>

WalkNear_NoFar(c) ==
    /\ pc[c] = "walk_near"
    /\ \/ work[c] = {} /\ Done(c, "found") /\ UNCHANGED <<work, sent, queue>>
       \/ \E d \in work[c] \cap near : Yield(c, d)
       \/ /\ \E d \in work[c] \ near : Done(c, "absent")
          /\ UNCHANGED <<work, sent, queue>>
    /\ UNCHANGED <<dirs, near, far, op, want, there>>

WalkNear(c) ==
    /\ pc[c] = "walk_near"
    /\ \/ work[c] = {} /\ Done(c, "found") /\ UNCHANGED <<work, sent, queue>>
       \/ \E d \in work[c] \cap near : Yield(c, d)
       \/ /\ \E d \in work[c] \ near :
                IF d = want[c] THEN pc' = [pc EXCEPT ![c] = "walk_far"] /\ UNCHANGED result
                ELSE Done(c, "inconsistent")
          /\ UNCHANGED <<work, sent, queue>>
    /\ UNCHANGED <<dirs, near, far, op, want, there>>

FarHas_Alone(c, d) == d \in far

FarHas(c, d) == d \in far \/ (FarKind = "object" /\ d # want[c])

(* The stream from far goes through the graph builder; when it has ended   *)
(* the whole graph is put into near.                                       *)
WalkFar(c) ==
    /\ pc[c] = "walk_far"
    /\ \/ /\ work[c] = {}
          /\ pc' = [pc EXCEPT ![c] = "fill"]
          /\ queue' = [queue EXCEPT ![c] = Range(sent[c])]
          /\ UNCHANGED <<work, sent, result>>
       \/ \E d \in work[c] : FarHas(c, d) /\ Yield(c, d)
       \/ /\ \E d \in work[c] :
                /\ ~FarHas(c, d)
                /\ Done(c, IF d = want[c] /\ op[c] # "descend" THEN "absent" ELSE "inconsistent")
          /\ UNCHANGED <<work, sent, queue>>
    /\ UNCHANGED <<dirs, near, far, op, want, there>>

(* The near putter's close(): leaves first, or all at once. *)
Fill_RootFirst(c) ==
    /\ pc[c] = "fill"
    /\ \E d \in queue[c] :
          /\ \A x \in queue[c] : d \notin Children(dirs[x])
          /\ near' = near \cup {d}
          /\ queue' = [queue EXCEPT ![c] = @ \ {d}]
    /\ IF queue'[c] = {} THEN Done(c, "found") ELSE UNCHANGED <<pc, result>>
    /\ UNCHANGED <<dirs, far, op, want, there, work, sent>>

Fill(c) ==
    /\ pc[c] = "fill"
    /\ \E S \in SUBSET queue[c] :
          /\ IF NearKind = "redb" THEN S = queue[c]
             ELSE \E d \in queue[c] : S = {d} /\ Children(dirs[d]) \cap queue[c] = {}
          /\ near' = near \cup S
          /\ queue' = [queue EXCEPT ![c] = @ \ S]
    /\ IF queue'[c] = {} THEN Done(c, "found") ELSE UNCHANGED <<pc, result>>
    /\ UNCHANGED <<dirs, far, op, want, there, work, sent>>

(* A backend call fails, or the future is dropped. *)
Abort(c) ==
    /\ pc[c] # "idle"
    /\ Done(c, "failed")
    /\ UNCHANGED <<dirs, near, far, op, want, there, work, sent, queue>>

Step(c) == NearGet(c) \/ WalkNear(c) \/ WalkFar(c) \/ Fill(c)

Next == FarGrows \/ \E c \in Client : Request(c) \/ Step(c) \/ Abort(c)

Spec == Init /\ [][Next]_vars
FairSpec == Spec /\ \A c \in Client : WF_vars(Step(c))
Symmetry == Permutations(Client)    \* of small instances

-----------------------------------------------------------------------------

TypeOK ==
    /\ dirs \in [Digest -> Directory]
    /\ near \subseteq Digest /\ far \subseteq Digest
    /\ op \in [Client -> {"get", "get_recursive", "descend"}]
    /\ pc \in [Client -> {"idle", "near", "walk_near", "walk_far", "fill"}]
    /\ want \in [Client -> Digest \cup {None}]
    /\ there \in [Client -> BOOLEAN]
    /\ work \in [Client -> SUBSET Digest] /\ sent \in [Client -> Seq(Digest)]
    /\ queue \in [Client -> SUBSET Digest]
    /\ result \in [Client -> Results]

(* However fills overlap, fail or are dropped, near keeps the promise of   *)
(* ClosedStore to its readers: it only grows, and never holds a directory  *)
(* without its children (Cache::get and get_recursive put the whole graph).*)
NearStore == INSTANCE ClosedStore WITH dirs <- dirs, stored <- near
NearKeepsClosedStore == NearStore!Spec

(* "If a child directory of the closure is not there, we have an           *)
(* inconsistent store!": no reader is ever told so, neither in a recursive *)
(* read nor while descending a path.                                       *)
NeverInconsistent == \A c \in Client : result[c] # "inconsistent"

(* A recursive read that ends well has yielded the whole closure, each     *)
(* directory once.                                                         *)
RecursiveComplete ==
    \A c \in Client : op[c] = "get_recursive" /\ result[c] = "found" =>
        /\ Range(sent[c]) = Reachable(dirs, want[c])
        /\ IsInjective(sent[c])

(* "We currently wait for all children to be received before returning the *)
(* requested directory, so subsequent children requests don't fail": after *)
(* an answer everything below it is in near.                               *)
FoundIsCached ==
    \A c \in Client : result[c] = "found" => Reachable(dirs, want[c]) \subseteq near

(* A request for a directory that was there when it started does not       *)
(* answer that it is absent.                                               *)
NoFalseAbsent == \A c \in Client : result[c] = "absent" => ~there[c]

(* Every request ends: the traversal runs out of directories. *)
Busy(c) == pc[c] # "idle"
RequestsEnd == \A c \in Client : Busy(c) ~> ~Busy(c)
=============================================================================
