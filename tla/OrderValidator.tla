-------------------------- MODULE OrderValidator ---------------------------
(***************************************************************************)
(* The two validators of castore directoryservice/order_validator.rs, as   *)
(* their validate_stream drives them: directories arrive one at a time,    *)
(* the first error ends the stream, and its end calls finalize.            *)
(* LeavesToRootValidator checks what is uploaded, RootToLeavesValidator    *)
(* what a client accepts from a store it asked for the closure of          *)
(* root_digest.  A behaviour is one stream through one of them.            *)
(***************************************************************************)
EXTENDS Directories, TLAPS

VARIABLES
    dirs,           \* what each digest hashes; fixed
    validator,      \* "LeavesToRoot" or "RootToLeaves"; fixed
    pending,        \* pending_directories: not referenced by a parent yet, or
                    \* heard about and not received
    poison,
    accepted,       \* LeavesToRoot's accepted_directories: digest -> observed size
    last_inserted,  \* its last_inserted_digest (debug builds)
    root_digest,    \* of RootToLeaves
    referenced,     \* its referenced_directories: digest -> size last pointed with
    yielded,        \* what its stream has handed to the consumer
    result          \* outcome of the stream, "open" while it runs

up == <<accepted, last_inserted>>
down == <<root_digest, referenced, yielded>>
vars == <<dirs, validator, pending, poison, up, down, result>>

Results == {"open", "ok", "WrongSize", "UnknownLTR", "Unexpected", "EmptySet",
            "DirectoriesMissing", "panic"}

new ==
    /\ validator = "LeavesToRoot"
    /\ accepted = <<>> /\ pending = {} /\ last_inserted = None /\ poison = FALSE
    /\ root_digest = None /\ referenced = <<>>

new_with_root_digest(root) ==
    /\ validator = "RootToLeaves"
    /\ root_digest = root /\ referenced = <<>> /\ pending = {root} /\ poison = FALSE
    /\ accepted = <<>> /\ last_inserted = None

Init ==
    /\ dirs \in Contents
    /\ new \/ \E root \in Digest : new_with_root_digest(root)
    /\ yielded = {} /\ result = "open"

-----------------------------------------------------------------------------
(* LeavesToRootValidator.                                                  *)

SizeMatches_NoSize(p) == p.digest \in DOMAIN accepted

SizeMatches(p) == p.digest \in DOMAIN accepted /\ accepted[p.digest] = p.size

(* The loop over directory.nodes() stops at the first pointer that does    *)
(* not match; the pointers before it have been taken out of pending.       *)
FirstBad(ptrs) ==
    {i \in DOMAIN ptrs : /\ ~SizeMatches(ptrs[i])
                         /\ \A j \in 1 .. i - 1 : SizeMatches(ptrs[j])}

RejectUp(d) ==
    \E i \in FirstBad(dirs[d].pointers) :
        LET ptrs == dirs[d].pointers IN
        /\ pending' = pending \ {ptrs[j].digest : j \in 1 .. i - 1}
        /\ poison' = TRUE
        /\ result' = IF ptrs[i].digest \in DOMAIN accepted
                     THEN "WrongSize" ELSE "UnknownLTR"
        /\ UNCHANGED <<dirs, accepted, last_inserted>>

AcceptUp_Repend(d) ==
    /\ \A i \in DOMAIN dirs[d].pointers : SizeMatches(dirs[d].pointers[i])
    /\ accepted' = [x \in DOMAIN accepted \cup {d} |-> dirs[x].size]
    /\ last_inserted' = IF d \in DOMAIN accepted THEN last_inserted ELSE d
    /\ pending' = (pending \ Children(dirs[d])) \cup {d}
    /\ UNCHANGED <<dirs, poison, result>>

AcceptUp(d) ==
    /\ \A i \in DOMAIN dirs[d].pointers : SizeMatches(dirs[d].pointers[i])
    /\ LET rest == pending \ Children(dirs[d]) IN
       IF d \in DOMAIN accepted
       THEN pending' = rest /\ UNCHANGED <<accepted, last_inserted>>
       ELSE /\ accepted' = [x \in DOMAIN accepted \cup {d} |->
                               IF x = d THEN dirs[d].size ELSE accepted[x]]
            /\ last_inserted' = d
            /\ pending' = rest \cup {d}
    /\ UNCHANGED <<dirs, poison, result>>

(* last_inserted is the expect() of debug builds: "panic" when it fails. *)
finalize_up ==
    /\ result = "open"
    /\ result' = CASE DOMAIN accepted = {} -> "EmptySet"
                   [] DOMAIN accepted # {} /\ ~\E d \in Digest : pending = {d}
                        -> "DirectoriesMissing"
                   [] OTHER -> IF last_inserted \in pending THEN "ok" ELSE "panic"
    /\ poison' = (result' = "ok")
    /\ UNCHANGED <<dirs, accepted, pending, last_inserted>>

LeavesToRoot ==
    /\ validator = "LeavesToRoot"
    /\ finalize_up \/ \E d \in Digest : result = "open" /\ (RejectUp(d) \/ AcceptUp(d))
    /\ UNCHANGED <<validator, down>>

-----------------------------------------------------------------------------
(* RootToLeavesValidator.                                                  *)

would_accept_Any(d) == TRUE

would_accept(d) == d = root_digest \/ d \in DOMAIN referenced

(* insert() overwrites: the last pointer to a digest decides its size. *)
LastSize(ptrs, c) ==
    ptrs[CHOOSE i \in DOMAIN ptrs :
            /\ ptrs[i].digest = c
            /\ \A j \in DOMAIN ptrs : j > i => ptrs[j].digest # c].size

introduce_children_of_Late(dir, rest) ==
    /\ referenced' = [c \in DOMAIN referenced \cup Children(dir) |->
                         IF c \in Children(dir) THEN LastSize(dir.pointers, c)
                         ELSE referenced[c]]
    /\ pending' = rest

(* rest is pending_directories without the directory being accepted. *)
introduce_children_of(dir, rest) ==
    /\ referenced' = [c \in DOMAIN referenced \cup Children(dir) |->
                         IF c \in Children(dir) THEN LastSize(dir.pointers, c)
                         ELSE referenced[c]]
    /\ pending' = rest \cup (Children(dir) \ DOMAIN referenced)

AcceptDown(d) ==
    /\ would_accept(d)
    /\ d \in DOMAIN referenced => referenced[d] = dirs[d].size
    /\ introduce_children_of(dirs[d], pending \ {d})
    /\ yielded' = yielded \cup {d}
    /\ UNCHANGED <<dirs, root_digest, poison, result>>

RejectDown(d) ==
    /\ \/ ~would_accept(d) /\ result' = "Unexpected"
       \/ /\ d \in DOMAIN referenced /\ referenced[d] # dirs[d].size
          /\ result' = "WrongSize"
    /\ poison' = TRUE
    /\ UNCHANGED <<dirs, root_digest, referenced, pending, yielded>>

finalize_down ==
    /\ result = "open"
    /\ result' = IF pending # {} THEN "DirectoriesMissing" ELSE "ok"
    /\ poison' = (pending = {})
    /\ UNCHANGED <<dirs, root_digest, referenced, pending, yielded>>

RootToLeaves ==
    /\ validator = "RootToLeaves"
    /\ finalize_down \/ \E d \in Digest : result = "open" /\ (AcceptDown(d) \/ RejectDown(d))
    /\ UNCHANGED <<validator, up>>

Next == LeavesToRoot \/ RootToLeaves

Spec == Init /\ [][Next]_vars

-----------------------------------------------------------------------------

UpTypes ==
    /\ DOMAIN accepted \subseteq Digest
    /\ \A d \in DOMAIN accepted : accepted[d] \in Nat
    /\ pending \subseteq DOMAIN accepted
    /\ last_inserted \in DOMAIN accepted \cup {None}

DownTypes ==
    /\ root_digest \in Digest
    /\ DOMAIN referenced \subseteq Digest
    /\ pending \subseteq DOMAIN referenced \cup {root_digest}
    /\ yielded \subseteq Digest

TypeOK ==
    /\ dirs \in [Digest -> Directory]
    /\ validator \in {"LeavesToRoot", "RootToLeaves"}
    /\ poison \in BOOLEAN
    /\ result \in Results
    /\ IF validator = "LeavesToRoot" THEN UpTypes ELSE DownTypes

(* An upload that finalize() accepts is one complete closure: every        *)
(* directory it held is below the directory that came last, nothing below  *)
(* that one was left out, and every pointer carried the right size,        *)
(* whatever the order, the duplicates and the sharing of subtrees.         *)
FinalizedClosure ==
    validator = "LeavesToRoot" /\ result = "ok" =>
        ValidClosure(dirs, DOMAIN accepted, last_inserted)

(* finalize() does not turn away a complete closure: when it reports       *)
(* missing directories, the ones accepted are not the closure of any of    *)
(* them.                                                                   *)
FinalizeComplete ==
    validator = "LeavesToRoot" /\ result = "DirectoriesMissing" =>
        \A r \in DOMAIN accepted : ~ValidClosure(dirs, DOMAIN accepted, r)

(* The expect("Snix bug: dangling directory is not last inserted one") in  *)
(* finalize() never fires.                                                 *)
LastInsertedIsRoot == result # "panic"

(* The consumer of the stream never sees a directory that is not below the *)
(* root it asked for, at any moment and whatever the peer sends.           *)
OnlyConnectedYielded ==
    validator = "RootToLeaves" => yielded \subseteq Reachable(dirs, root_digest)

(* A stream that finalize() accepts has yielded the whole closure of the   *)
(* root, and finalize() only complains when some of it is missing.         *)
FinalizedComplete ==
    validator = "RootToLeaves" =>
        /\ result = "ok" => yielded = Reachable(dirs, root_digest)
        /\ result = "DirectoriesMissing" => yielded # Reachable(dirs, root_digest)

-----------------------------------------------------------------------------
(* Proofs, for every set of digests and every acyclic content.             *)

Received == DOMAIN accepted
Typed == dirs \in [Digest -> Directory]

(* The pointers of a received directory lead to received directories and   *)
(* carry their size.                                                       *)
PointersReceived ==
    \A d \in Received : \A i \in DOMAIN dirs[d].pointers :
        /\ dirs[d].pointers[i].digest \in Received
        /\ dirs[d].pointers[i].size = accepted[dirs[d].pointers[i].digest]

(* A directory with a received parent is not pending, and is not the last  *)
(* one inserted.                                                           *)
Orphans ==
    \A d \in Received : Children(dirs[d]) \cap (pending \cup {last_inserted}) = {}

(* Everything received is below a pending directory.  Stated without paths *)
(* so that no induction over the graph is needed.                          *)
BelowPending ==
    \A T \in SUBSET Digest : pending \subseteq T /\ Closed(dirs, T) => Received \subseteq T

UpInv ==
    /\ Typed /\ UpTypes
    /\ \A d \in Received : accepted[d] = dirs[d].size
    /\ PointersReceived
    /\ Orphans
    /\ result \notin {"WrongSize", "UnknownLTR"} =>
           /\ BelowPending
           /\ Received # {} => last_inserted \in pending
    /\ result = "ok" => pending = {last_inserted}
    /\ result = "panic" => FALSE
    /\ result = "DirectoriesMissing" => pending # {last_inserted} /\ Received # {}

Heard == DOMAIN referenced

(* What has been heard about or yielded is below the root, stated without  *)
(* paths; what a yielded directory points to has been heard about; what    *)
(* has been heard about is either still pending or yielded.                *)
DownInv ==
    /\ Typed /\ DownTypes
    /\ Acyclic(dirs)
    /\ Heard \cup yielded \subseteq Reachable(dirs, root_digest)
    /\ \A d \in yielded : Children(dirs[d]) \subseteq Heard
    /\ Heard \cup {root_digest} = pending \cup yielded
    /\ pending \cap yielded = {}
    /\ result # "panic"
    /\ result = "ok" => pending = {}
    /\ result = "DirectoriesMissing" => pending # {}

IInv ==
    /\ validator \in {"LeavesToRoot", "RootToLeaves"} /\ poison \in BOOLEAN /\ result \in Results
    /\ validator = "LeavesToRoot" => UpInv
    /\ validator = "RootToLeaves" => DownInv

LEMMA InitIInv == Init => IInv
<1> SUFFICES ASSUME Init PROVE IInv
  BY Zenon
<1>1. dirs \in [Digest -> Directory] /\ Acyclic(dirs)
  BY ContentsAssumption, Zenon DEF Init
<1>2. CASE new
  <2>1. DOMAIN accepted = {}
    BY <1>2 DEF new
  <2> QED
    BY <1>1, <1>2, <2>1, Zenon DEF Init, new, IInv, UpInv, Typed, UpTypes, Results, Received,
       PointersReceived, Orphans, BelowPending
<1>3. ASSUME NEW root \in Digest, new_with_root_digest(root) PROVE IInv
  <2>1. root_digest \in Digest /\ pending = {root_digest} /\ poison = FALSE /\ Heard = {}
    BY <1>3 DEF new_with_root_digest, Heard
  <2> QED
    BY <1>1, <1>3, <2>1, Zenon DEF Init, new_with_root_digest, IInv, DownInv, Typed, DownTypes, Results, Heard
<1> QED
  BY <1>2, <1>3, Zenon DEF Init

LEMMA RejectUpInv ==
    ASSUME UpInv, NEW d \in Digest, result = "open", RejectUp(d)
    PROVE  UpInv'
<1> PICK i \in FirstBad(dirs[d].pointers) :
        /\ pending' \subseteq pending
        /\ poison' = TRUE
        /\ result' \in {"WrongSize", "UnknownLTR"}
        /\ UNCHANGED <<dirs, accepted, last_inserted>>
  BY Zenon DEF RejectUp
<1> QED
  BY ZenonT(30) DEF UpInv, UpTypes, Typed, Received, PointersReceived, Orphans

LEMMA AcceptUpInv ==
    ASSUME UpInv, NEW d \in Digest, result = "open", AcceptUp(d)
    PROVE  UpInv'
<1> DEFINE ptrs == dirs[d].pointers
<1>1. \A i \in DOMAIN ptrs :
          ptrs[i].digest \in Received /\ ptrs[i].size = accepted[ptrs[i].digest]
  BY Zenon DEF AcceptUp, SizeMatches, Received
<1>2. UNCHANGED <<dirs, poison, result>>
  BY Zenon DEF AcceptUp
<1>3. Children(dirs[d]) \subseteq Received
  BY <1>1, Zenon DEF Children
<1>4. dirs[d].size \in Nat
  BY ContentIsTyped, Zenon DEF UpInv, UpTypes, Typed
<1>5. CASE d \in Received
  <2>1. pending' = pending /\ UNCHANGED <<accepted, last_inserted>>
    BY <1>5, Zenon DEF AcceptUp, Received, UpInv, Orphans
  <2> QED
    BY <2>1, <1>2, ZenonT(30) DEF UpInv, UpTypes, Typed, Received, PointersReceived, Orphans,
       BelowPending, Closed
<1>6. CASE d \notin Received
  <2>1. /\ accepted' = [x \in Received \cup {d} |->
                            IF x = d THEN dirs[d].size ELSE accepted[x]]
        /\ last_inserted' = d
        /\ pending' = (pending \ Children(dirs[d])) \cup {d}
    BY <1>6, Zenon DEF AcceptUp, Received
  <2>2. Received' = Received \cup {d}
    BY <2>1, Zenon DEF Received
  <2>3. \A x \in Received : accepted'[x] = accepted[x]
    BY <2>1, <1>6, Zenon
  <2>4. accepted'[d] = dirs[d].size
    BY <2>1, Zenon
  <2>5. UpTypes'
    BY <2>1, <2>2, <2>3, <2>4, <1>2, <1>4, Zenon DEF UpInv, UpTypes, Typed, Received
  <2>6. PointersReceived'
    BY <1>1, <1>2, <2>2, <2>3 DEF UpInv, PointersReceived
  <2>7. Orphans'
    <3>1. \A x \in Received : Children(dirs[x]) \subseteq Received
      BY Zenon DEF UpInv, PointersReceived, Children
    <3> QED
      BY <3>1, <1>2, <1>3, <1>6, <2>1, <2>2, Zenon DEF UpInv, Orphans
  <2>8. BelowPending'
    <3> SUFFICES ASSUME NEW T \in SUBSET Digest, pending' \subseteq T, Closed(dirs, T)
                 PROVE  Received' \subseteq T
      BY <1>2, Zenon DEF BelowPending, Closed
    <3>1. d \in T
      BY <2>1, Zenon
    <3>2. Children(dirs[d]) \subseteq T
      BY <3>1, Zenon DEF Closed
    <3>3. pending \subseteq T
      BY <2>1, <3>2, Zenon
    <3> QED
      BY <2>2, <3>1, <3>3, Zenon DEF UpInv, BelowPending
  <2>9. \A x \in Received' : accepted'[x] = dirs'[x].size
    BY <1>2, <2>2, <2>3, <2>4, Zenon DEF UpInv
  <2> QED
    BY <1>2, <2>1, <2>5, <2>6, <2>7, <2>8, <2>9, Zenon DEF UpInv, Typed
<1> QED
  BY <1>5, <1>6, Zenon

LEMMA FinalizeUpInv == ASSUME UpInv, finalize_up PROVE UpInv'
<1>1. UNCHANGED <<dirs, accepted, pending, last_inserted>> /\ result = "open"
  BY Zenon DEF finalize_up
<1>2. /\ result' \in {"EmptySet", "DirectoriesMissing", "ok", "panic"}
      /\ result' = "DirectoriesMissing" =>
            Received # {} /\ ~\E d \in Digest : pending = {d}
      /\ result' \in {"ok", "panic"} =>
            Received # {} /\ \E d \in Digest : pending = {d}
      /\ result' = "panic" => last_inserted \notin pending
      /\ poison' \in BOOLEAN
  BY Zenon DEF finalize_up, Received
<1>3. Received # {} => last_inserted \in pending /\ last_inserted \in Digest
  BY <1>1, Zenon DEF UpInv, UpTypes, Typed
<1>4. /\ result' # "panic"
      /\ result' = "ok" => pending = {last_inserted}
      /\ result' = "DirectoriesMissing" => pending # {last_inserted}
  BY <1>2, <1>3, Zenon
<1> QED
  BY <1>1, <1>2, <1>4, ZenonT(30) DEF UpInv, UpTypes, Typed, Received, PointersReceived,
     Orphans, BelowPending, Closed

LEMMA AcceptDownInv ==
    ASSUME DownInv, NEW d \in Digest, result = "open", AcceptDown(d)
    PROVE  DownInv'
<1>1. UNCHANGED <<dirs, root_digest, poison, result>> /\ yielded' = yielded \cup {d}
  BY Zenon DEF AcceptDown
<1>2. Heard' = Heard \cup Children(dirs[d])
  BY Zenon DEF AcceptDown, introduce_children_of, Heard
<1>3. pending' = (pending \ {d}) \cup (Children(dirs[d]) \ Heard)
  BY Zenon DEF AcceptDown, introduce_children_of, Heard
<1>4. d \in Heard \cup {root_digest}
  BY Zenon DEF AcceptDown, would_accept, Heard
<1>5. d \in Reachable(dirs, root_digest)
  BY <1>4, ReachableRoot, Zenon DEF DownInv, DownTypes, Typed
<1>6. Children(dirs[d]) \subseteq Reachable(dirs, root_digest)
  BY <1>5, ReachableStep, Zenon DEF DownInv, DownTypes, Typed
<1>7. Children(dirs[d]) \subseteq Digest
  BY ContentIsTyped, Zenon DEF DownInv, DownTypes, Typed
<1>8. root_digest \notin Children(dirs[d])
  BY <1>5, Zenon DEF DownInv, Acyclic, DownTypes, Typed
<1>9. d \notin Children(dirs[d])
  BY ReachableRoot, Zenon DEF DownInv, Acyclic
<1>10. DownTypes'
  BY <1>1, <1>2, <1>3, <1>7, Zenon DEF DownInv, DownTypes, Typed, Heard
<1>11. pending' \cap yielded' = {}
  BY <1>1, <1>3, <1>8, <1>9, Zenon DEF DownInv
<1>12. Heard' \cup {root_digest} = pending' \cup yielded'
  BY <1>1, <1>2, <1>3, <1>4, Zenon DEF DownInv
<1>13. Heard' \cup yielded' \subseteq Reachable(dirs, root_digest)
  BY <1>1, <1>2, <1>5, <1>6, Zenon DEF DownInv
<1>14. \A x \in yielded' : Children(dirs[x]) \subseteq Heard'
  BY <1>1, <1>2, Zenon DEF DownInv
<1> QED
  BY <1>1, <1>10, <1>11, <1>12, <1>13, <1>14, Zenon DEF DownInv, Typed

LEMMA StopDownInv ==
    ASSUME DownInv, result = "open", finalize_down \/ \E d \in Digest : RejectDown(d)
    PROVE  DownInv'
<1>1. /\ UNCHANGED <<dirs, root_digest, referenced, pending, yielded>>
      /\ poison' \in BOOLEAN
      /\ result' \notin {"open", "panic"}
      /\ result' = "ok" => pending = {}
      /\ result' = "DirectoriesMissing" => pending # {}
  BY Zenon DEF finalize_down, RejectDown
<1> QED
  BY <1>1, Zenon DEF DownInv, DownTypes, Typed, Heard

(* One step of the stream through either validator keeps the invariant. *)
LEMMA StepIInv == IInv /\ [Next]_vars => IInv'
<1> SUFFICES ASSUME IInv, [Next]_vars PROVE IInv'
  BY Zenon
<1>1. CASE LeavesToRoot
  <2>1. UpInv /\ UpInv'
    BY <1>1, RejectUpInv, AcceptUpInv, FinalizeUpInv, Zenon DEF IInv, LeavesToRoot
  <2>2. validator' = "LeavesToRoot" /\ poison' \in BOOLEAN /\ result' \in Results
    BY <1>1, Zenon DEF IInv, LeavesToRoot, RejectUp, AcceptUp, finalize_up, Results
  <2> QED
    BY <2>1, <2>2, Zenon DEF IInv
<1>2. CASE RootToLeaves
  <2>1. DownInv'
    BY <1>2, AcceptDownInv, StopDownInv, Zenon DEF IInv, RootToLeaves, finalize_down
  <2>2. validator' = "RootToLeaves" /\ poison' \in BOOLEAN /\ result' \in Results
    BY <1>2, Zenon DEF IInv, RootToLeaves, RejectDown, AcceptDown, finalize_down, Results
  <2> QED
    BY <2>1, <2>2, Zenon DEF IInv
<1>3. CASE UNCHANGED vars
  BY <1>3, ZenonT(30) DEF vars, up, down, IInv, UpInv, DownInv, Typed, UpTypes, DownTypes, Received, PointersReceived,
     Orphans, BelowPending, Closed, Heard
<1> QED
  BY <1>1, <1>2, <1>3, Zenon DEF Next

(* The inductive invariant holds in every state of every stream. *)
THEOREM Invariance == Spec => []IInv
  BY InitIInv, StepIInv, PTL DEF Spec

LEMMA ReceivedIsClosed == UpInv => Closed(dirs, Received) /\ Received \subseteq Digest
  BY Zenon DEF UpInv, UpTypes, Typed, PointersReceived, Closed, Children, Received

(* A pending directory has no parent among the received ones, so a closure *)
(* that consists of the received ones can only be rooted there.            *)
LEMMA PendingIsRoot ==
    ASSUME UpInv, NEW r \in Received, Received = Reachable(dirs, r), NEW p \in pending
    PROVE  p = r
<1> SUFFICES ASSUME p # r PROVE FALSE
  BY Zenon
<1> DEFINE T == Received \ {p}
<1>1. T \in SUBSET Digest /\ r \in T
  BY ReceivedIsClosed, Zenon
<1>2. Closed(dirs, T)
  BY ReceivedIsClosed, Zenon DEF Closed, UpInv, Orphans
<1>3. p \in Reachable(dirs, r)
  BY Zenon DEF UpInv, UpTypes, Typed, Received
<1> QED
  BY <1>1, <1>2, <1>3, Zenon DEF Reachable

(* Both validators' states keep their types. *)
THEOREM TypeCorrect == Spec => []TypeOK
<1>1. IInv => TypeOK
  BY Zenon DEF IInv, UpInv, DownInv, Typed, TypeOK
<1> QED
  BY Invariance, <1>1, PTL

(* finalize() of an upload accepts only complete closures. *)
THEOREM FinalizeSound == Spec => []FinalizedClosure
<1>1. IInv => FinalizedClosure
  <2> SUFFICES ASSUME UpInv, result = "ok"
               PROVE  ValidClosure(dirs, DOMAIN accepted, last_inserted)
    BY Zenon DEF IInv, FinalizedClosure
  <2>1. pending = {last_inserted} /\ last_inserted \in Received
    BY Zenon DEF UpInv, UpTypes, Received
  <2>2. Received \subseteq Reachable(dirs, last_inserted)
    <3> SUFFICES ASSUME NEW T \in SUBSET Digest, last_inserted \in T, Closed(dirs, T)
                 PROVE  Received \subseteq T
      BY ReceivedIsClosed, Zenon DEF Reachable
    <3> QED
      BY <2>1, Zenon DEF UpInv, BelowPending
  <2>3. Reachable(dirs, last_inserted) \subseteq Received
    BY <2>1, ReceivedIsClosed, Zenon DEF Reachable
  <2>4. SizesAgree(dirs, Received)
    BY Zenon DEF UpInv, SizesAgree, PointersReceived
  <2> QED
    BY <2>1, <2>2, <2>3, <2>4, ReceivedIsClosed, Zenon DEF ValidClosure, Received
<1> QED
  BY Invariance, <1>1, PTL

(* finalize() of an upload accepts every complete closure. *)
THEOREM FinalizeIsComplete == Spec => []FinalizeComplete
<1>1. IInv => FinalizeComplete
  <2> SUFFICES ASSUME UpInv, result = "DirectoriesMissing", NEW r \in Received,
                      ValidClosure(dirs, Received, r)
               PROVE  FALSE
    BY Zenon DEF IInv, FinalizeComplete, Received
  <2>1. last_inserted \in pending /\ pending # {last_inserted}
    BY Zenon DEF UpInv
  <2>2. \A p \in pending : p = r
    BY PendingIsRoot, Zenon DEF ValidClosure
  <2> QED
    BY <2>1, <2>2, Zenon
<1> QED
  BY Invariance, <1>1, PTL

(* The directory finalize() expects to be pending always is. *)
THEOREM NoFinalizePanic == Spec => []LastInsertedIsRoot
<1>1. IInv => LastInsertedIsRoot
  BY Zenon DEF IInv, UpInv, DownInv, LastInsertedIsRoot
<1> QED
  BY Invariance, <1>1, PTL

(* No unrelated directory reaches the consumer of a stream. *)
THEOREM Connected == Spec => []OnlyConnectedYielded
<1>1. IInv => OnlyConnectedYielded
  BY Zenon DEF IInv, DownInv, OnlyConnectedYielded
<1> QED
  BY Invariance, <1>1, PTL

(* finalize() of a stream succeeds exactly when the whole closure of the   *)
(* root has been yielded.                                                  *)
THEOREM FinalizeExact == Spec => []FinalizedComplete
<1>1. ASSUME DownInv, result = "ok" PROVE yielded = Reachable(dirs, root_digest)
  <2>1. Closed(dirs, yielded) /\ root_digest \in yielded /\ yielded \in SUBSET Digest
    BY <1>1, Zenon DEF DownInv, DownTypes, Closed
  <2>2. Reachable(dirs, root_digest) \subseteq yielded
    BY <2>1, Zenon DEF Reachable
  <2> QED
    BY <1>1, <2>2, Zenon DEF DownInv
<1>2. ASSUME DownInv, result = "DirectoriesMissing" PROVE yielded # Reachable(dirs, root_digest)
  <2>1. PICK p : p \in pending
    BY <1>2, Zenon DEF DownInv
  <2>2. p \in Reachable(dirs, root_digest) /\ p \notin yielded
    BY <1>2, <2>1, ReachableRoot, Zenon DEF DownInv, DownTypes
  <2> QED
    BY <2>2, Zenon
<1>3. IInv => FinalizedComplete
  BY <1>1, <1>2, Zenon DEF IInv, FinalizedComplete
<1> QED
  BY Invariance, <1>3, PTL
=============================================================================
