------------------------ MODULE DirectoryCacheProofs ------------------------
(***************************************************************************)
(* What the directory cache promises its readers, for every set of digests *)
(* and contents, any number of clients, and both kinds of near and far.    *)
(***************************************************************************)
EXTENDS DirectoryCache, TLAPS

(* What root_to_leaves() has yielded, for the root asked for. *)
Traversal(c) == want[c] \in Digest /\ PartialWalk(dirs, want[c], work[c], sent[c])

(* Where the yielded directories are, and where the root was. *)
Phase(c) ==
    /\ result[c] = "none"
    /\ pc[c] = "near" => /\ op[c] # "get_recursive"
                         /\ sent[c] = <<>> /\ work[c] = {want[c]}
    /\ op[c] = "descend" => pc[c] = "near" /\ want[c] \in near
    /\ pc[c] = "walk_near" => Range(sent[c]) \subseteq near
    /\ pc[c] = "walk_far" /\ FarKind = "table" => Range(sent[c]) \subseteq far
    /\ pc[c] = "walk_far" /\ there[c] => want[c] \in far
    /\ pc[c] = "fill" => /\ work[c] = {} /\ queue[c] \subseteq Range(sent[c])
                         /\ Range(sent[c]) \ queue[c] \subseteq near
    /\ there[c] => want[c] \in near \cup far

(* What an answer means. *)
Answered(c) ==
    /\ result[c] = "found" =>
          /\ want[c] \in Digest /\ Reachable(dirs, want[c]) \subseteq near
          /\ op[c] = "get_recursive" =>
                Range(sent[c]) = Reachable(dirs, want[c]) /\ IsInjective(sent[c])
    /\ result[c] = "absent" => ~there[c]
    /\ result[c] # "inconsistent"

CInv(c) == (pc[c] # "idle" => Traversal(c) /\ Phase(c)) /\ Answered(c)

GInv ==
    /\ TypeOK
    /\ Closed(dirs, near)
    /\ FarKind = "table" => Closed(dirs, far)

IInv == GInv /\ \A c \in Client : CInv(c)

(* A step of c, as the other clients see it. *)
OthersKept(c) ==
    /\ dirs' = dirs /\ near \subseteq near' /\ far \subseteq far'
    /\ \A b \in Client \ {c} :
          /\ op'[b] = op[b] /\ pc'[b] = pc[b] /\ want'[b] = want[b] /\ there'[b] = there[b]
          /\ work'[b] = work[b] /\ sent'[b] = sent[b] /\ queue'[b] = queue[b]
          /\ result'[b] = result[b]
-----------------------------------------------------------------------------
(* One directory taken off the worklist. *)
LEMMA YieldStep ==
    ASSUME TypeOK, NEW c \in Client, Traversal(c), NEW d \in work[c], Yield(c, d),
           dirs' = dirs, want' = want
    PROVE  /\ Traversal(c)'
           /\ sent' \in [Client -> Seq(Digest)] /\ work' \in [Client -> SUBSET Digest]
           /\ Range(sent'[c]) = Range(sent[c]) \cup {d}
<1> DEFINE new == (work[c] \ {d}) \cup (Children(dirs[d]) \ (Range(sent[c]) \cup {d}))
<1>1. d \in Digest /\ sent[c] \in Seq(Digest) /\ want[c] \in Digest
  BY Zenon DEF TypeOK, Traversal, PartialWalk
<1>2. sent'[c] = Append(sent[c], d) /\ work'[c] = new
  BY Zenon DEF Yield, Enqueue, TypeOK
<1>3. Append(sent[c], d) \in Seq(Digest) /\ Range(sent'[c]) = Range(sent[c]) \cup {d}
  BY <1>1, <1>2, RangeAppend
<1>4. new \in SUBSET Digest /\ PartialWalk(dirs, want[c], new, Append(sent[c], d))
  <2>1. /\ dirs \in [Digest -> Directory] /\ work[c] \in SUBSET Digest
        /\ PartialWalk(dirs, want[c], work[c], sent[c])
    BY Zenon DEF TypeOK, Traversal
  <2> QED
    BY <1>1, <2>1, WalkStep, Zenon
<1>5. Traversal(c)'
  BY <1>1, <1>2, <1>4, Zenon DEF Traversal, PartialWalk
<1>6. sent' \in [Client -> Seq(Digest)] /\ work' \in [Client -> SUBSET Digest]
  BY <1>3, <1>4, Zenon DEF Yield, Enqueue, TypeOK
<1> QED
  BY <1>3, <1>5, <1>6, Zenon

(* The worklist is empty: everything below the root has been yielded. *)
LEMMA TraversalEnds ==
    ASSUME TypeOK, NEW c \in Client, Traversal(c), work[c] = {}
    PROVE  Range(sent[c]) = Reachable(dirs, want[c]) /\ Closed(dirs, Range(sent[c]))
  BY WalkEnds, Zenon DEF TypeOK, Traversal, PartialWalk

(* What a client knows is not disturbed by stores that grow. *)
LEMMA Bystander ==
    ASSUME NEW c \in Client, CInv(c), dirs' = dirs, near \subseteq near', far \subseteq far',
           op'[c] = op[c], pc'[c] = pc[c], want'[c] = want[c], there'[c] = there[c],
           work'[c] = work[c], sent'[c] = sent[c], queue'[c] = queue[c], result'[c] = result[c]
    PROVE  CInv(c)'
<1>1. Traversal(c) => Traversal(c)'
  BY Zenon DEF Traversal, PartialWalk
<1>2. Phase(c) => Phase(c)'
  BY Zenon DEF Phase
<1>3. Answered(c) => Answered(c)'
  BY Zenon DEF Answered
<1> QED
  BY <1>1, <1>2, <1>3, Zenon DEF CInv

LEMMA OwnStep ==
    ASSUME IInv, NEW c \in Client, GInv', CInv(c)', OthersKept(c)
    PROVE  IInv'
<1>1. ASSUME NEW b \in Client \ {c} PROVE CInv(b)'
  BY Bystander, Zenon DEF IInv, OthersKept
<1> QED
  BY <1>1, Zenon DEF IInv
-----------------------------------------------------------------------------
LEMMA InitHolds == Init => IInv
<1> SUFFICES ASSUME Init PROVE IInv
  BY Zenon
<1>1. dirs \in [Digest -> Directory]
  BY ContentsAssumption, Zenon DEF Init
<1>2. TypeOK
  BY <1>1 DEF Init, TypeOK, Results
<1>3. \A c \in Client : CInv(c)
  BY Zenon DEF Init, CInv, Answered
<1> QED
  BY <1>2, <1>3, Zenon DEF IInv, GInv, Init, Closed

LEMMA FarGrowsKeeps == IInv /\ FarGrows => IInv'
<1> SUFFICES ASSUME IInv, FarGrows PROVE IInv'
  BY Zenon
<1>1. PICK r \in Digest \ far :
          far' = far \cup (IF FarKind = "table" THEN Reachable(dirs, r) ELSE {r})
  BY Zenon DEF FarGrows
<1>2. Reachable(dirs, r) \subseteq Digest
  BY Zenon DEF Reachable
<1>3. far' \subseteq Digest /\ far \subseteq far'
  BY <1>1, <1>2, Zenon DEF IInv, GInv, TypeOK
<1>4. FarKind = "table" => Closed(dirs, far')
  BY <1>1, ReachableClosed, ClosedUnion, Zenon DEF IInv, GInv, TypeOK
<1>5. UNCHANGED <<dirs, near, op, pc, want, there, work, sent, queue, result>>
  BY Zenon DEF FarGrows, clients
<1>6. GInv'
  BY <1>3, <1>4, <1>5, Zenon DEF IInv, GInv, TypeOK, Closed
<1>7. ASSUME NEW b \in Client PROVE CInv(b)'
  BY <1>3, <1>5, Bystander, Zenon DEF IInv
<1> QED
  BY <1>6, <1>7, Zenon DEF IInv

(* A request: descend_to() asks for a child of a directory that it got,    *)
(* and that child is in near.                                              *)
LEMMA RequestKeeps == ASSUME IInv, NEW c \in Client, Request(c) PROVE IInv'
<1>1. PICK kind \in {"get", "get_recursive", "descend"}, d \in Digest :
          Start(c, kind, d) /\ (kind = "descend" => d \in near)
  <2>1. CASE \E d \in Digest, kind \in {"get", "get_recursive"} : Start(c, kind, d)
    BY <2>1, Zenon
  <2>2. CASE /\ op[c] \in {"get", "descend"} /\ result[c] = "found"
             /\ \E d \in Children(dirs[want[c]]) : Start(c, "descend", d)
    <3>1. PICK d \in Children(dirs[want[c]]) : Start(c, "descend", d)
      BY <2>2, Zenon
    <3>2. want[c] \in Digest /\ Reachable(dirs, want[c]) \subseteq near
      BY <2>2, Zenon DEF IInv, CInv, Answered
    <3>3. d \in Reachable(dirs, want[c])
      BY <3>1, <3>2, ReachableRoot, ReachableStep, Zenon DEF IInv, GInv, TypeOK
    <3> QED
      BY <3>1, <3>2, <3>3, Zenon DEF Reachable
  <2> QED
    BY <2>1, <2>2, Zenon DEF Request
<1>2. GInv'
  BY <1>1 DEF IInv, GInv, TypeOK, Start, Closed, Results
<1>3. /\ op'[c] = kind /\ pc'[c] = (IF kind = "get_recursive" THEN "walk_near" ELSE "near")
      /\ want'[c] = d /\ there'[c] = (d \in near \cup far) /\ work'[c] = {d}
      /\ sent'[c] = <<>> /\ queue'[c] = {} /\ result'[c] = "none"
      /\ dirs' = dirs /\ near' = near /\ far' = far
  BY <1>1, Zenon DEF Start, IInv, GInv, TypeOK
<1>4. Range(<<>>) = {} /\ IsInjective(<<>>)
  BY DEF Range, IsInjective
<1>5. d \in Reachable(dirs, d)
  BY ReachableRoot, Zenon
<1>6. Traversal(c)'
  BY <1>3, <1>4, <1>5, Zenon DEF Traversal, PartialWalk
<1>7. Phase(c)' /\ Answered(c)'
  BY <1>1, <1>3, <1>4, Zenon DEF Phase, Answered
<1>8. OthersKept(c)
  BY <1>1, Zenon DEF Start, OthersKept, IInv, GInv, TypeOK
<1> QED
  BY <1>2, <1>6, <1>7, <1>8, OwnStep, Zenon DEF CInv

(* What is in near is there with everything below it. *)
LEMMA NearGetKeeps == ASSUME IInv, NEW c \in Client, NearGet(c) PROVE IInv'
<1>1. Traversal(c) /\ Phase(c) /\ TypeOK /\ pc[c] = "near" /\ Closed(dirs, near)
  BY Zenon DEF NearGet, IInv, CInv, GInv
<1>2. GInv'
  BY Zenon DEF IInv, GInv, TypeOK, NearGet, Done, Closed, Results
<1>3. OthersKept(c)
  BY Zenon DEF NearGet, Done, OthersKept, IInv, GInv, TypeOK
<1>4. CASE want[c] \in near
  <2>1. Reachable(dirs, want[c]) \subseteq near
    BY <1>1, <1>4, ReachableLeast, Zenon DEF TypeOK
  <2>2. pc'[c] = "idle" /\ result'[c] = "found" /\ op[c] # "get_recursive"
    BY <1>1, <1>4, Zenon DEF NearGet, Done, TypeOK, Phase
  <2> QED
    BY <1>1, <1>2, <1>3, <1>4, <2>1, <2>2, OwnStep, Zenon DEF CInv, Answered, NearGet, Traversal, PartialWalk
<1>5. CASE want[c] \notin near
  <2>1. pc'[c] = "walk_far" /\ result' = result
    BY <1>5, Zenon DEF NearGet, IInv, GInv, TypeOK
  <2>2. Traversal(c)' /\ Answered(c)'
    BY <1>1, <2>1, Zenon DEF NearGet, Traversal, PartialWalk, Answered, Phase
  <2>3. Phase(c)'
    BY SMTT(30), <1>1, <1>5, <2>1 DEF NearGet, Phase, Range
  <2> QED
    BY <1>2, <1>3, <2>2, <2>3, OwnStep, Zenon DEF CInv
<1> QED
  BY <1>4, <1>5, Zenon

(* A child that near does not have would contradict that near is closed.   *)
LEMMA WalkNearKeeps == ASSUME IInv, NEW c \in Client, WalkNear(c) PROVE IInv'
<1>1. Traversal(c) /\ Phase(c) /\ TypeOK /\ pc[c] = "walk_near" /\ Closed(dirs, near)
  BY Zenon DEF WalkNear, IInv, CInv, GInv
<1>2. UNCHANGED <<dirs, near, far, op, want, there>>
  BY Zenon DEF WalkNear
<1>3. CASE work[c] = {} /\ Done(c, "found") /\ UNCHANGED <<work, sent, queue>>
  <2>1. Range(sent[c]) = Reachable(dirs, want[c])
    BY <1>1, <1>3, TraversalEnds, Zenon
  <2>2. pc'[c] = "idle" /\ result'[c] = "found"
    BY <1>1, <1>3, Zenon DEF Done, TypeOK
  <2>3. GInv' /\ OthersKept(c)
    BY <1>2, <1>3, Zenon DEF IInv, GInv, TypeOK, Done, Closed, Results, OthersKept
  <2>4. CInv(c)'
    BY <1>1, <1>2, <1>3, <2>1, <2>2, Zenon DEF CInv, Answered, Traversal, PartialWalk, Phase
  <2> QED
    BY <2>3, <2>4, OwnStep, Zenon
<1>4. CASE \E d \in work[c] \cap near : Yield(c, d)
  <2>1. PICK d \in work[c] \cap near : Yield(c, d)
    BY <1>4, Zenon
  <2>2. /\ Traversal(c)' /\ Range(sent'[c]) = Range(sent[c]) \cup {d}
        /\ sent' \in [Client -> Seq(Digest)] /\ work' \in [Client -> SUBSET Digest]
    BY <1>1, <1>2, <2>1, YieldStep, Zenon
  <2>3. UNCHANGED <<pc, queue, result>>
    BY <2>1, Zenon DEF Yield
  <2>4. GInv'
    BY <1>2, <2>2, <2>3, Zenon DEF IInv, GInv, TypeOK, Closed
  <2>5. OthersKept(c)
    BY <1>2, <2>1, <2>3, Zenon DEF Yield, OthersKept, IInv, GInv, TypeOK
  <2>6. Phase(c)' /\ Answered(c)'
    BY <1>1, <1>2, <2>1, <2>2, <2>3, Zenon DEF Phase, Answered
  <2> QED
    BY <2>2, <2>4, <2>5, <2>6, OwnStep, Zenon DEF CInv
<1>5. CASE /\ \E d \in work[c] \ near :
                  IF d = want[c] THEN pc' = [pc EXCEPT ![c] = "walk_far"] /\ UNCHANGED result
                  ELSE Done(c, "inconsistent")
           /\ UNCHANGED <<work, sent, queue>>
  <2>1. \A d \in work[c] \ near : d = want[c]
    BY <1>1, Zenon DEF Traversal, PartialWalk, Phase, Closed
  <2>2. want[c] \in work[c] \ near /\ pc' = [pc EXCEPT ![c] = "walk_far"] /\ result' = result
    BY <1>5, <2>1, Zenon
  <2>3. sent[c] = <<>>
    BY <1>1, <2>2, Zenon DEF Traversal, PartialWalk
  <2>4. GInv' /\ OthersKept(c)
    BY <1>2, <1>5, <2>2, Zenon DEF IInv, GInv, TypeOK, Closed, OthersKept
  <2>5. pc'[c] = "walk_far"
    BY <1>1, <2>2, Zenon DEF TypeOK
  <2>6. Traversal(c)' /\ Answered(c)'
    BY <1>1, <1>2, <1>5, <2>2, Zenon DEF Traversal, PartialWalk, Answered, Phase
  <2>7. Phase(c)'
    <3>1. /\ result[c] = "none" /\ op[c] # "descend"
          /\ there[c] => want[c] \in near \cup far
      BY <1>1, Zenon DEF Phase
    <3>2. there[c] => want[c] \in far
      BY <2>2, <3>1, Zenon
    <3>3. Range(sent[c]) = {}
      BY <2>3 DEF Range
    <3>4. result'[c] = "none" /\ sent'[c] = sent[c]
      BY <1>5, <2>2, <3>1, Zenon
    <3> QED
      BY <1>2, <2>5, <3>1, <3>2, <3>3, <3>4, Zenon DEF Phase
  <2> QED
    BY <2>4, <2>6, <2>7, OwnStep, Zenon DEF CInv
<1> QED
  BY <1>3, <1>4, <1>5, Zenon DEF WalkNear

(* A root that was there when the request started is in far once near has  *)
(* been found not to have it, and far only grows.                          *)
LEMMA WalkFarKeeps == ASSUME IInv, NEW c \in Client, WalkFar(c) PROVE IInv'
<1>1. Traversal(c) /\ Phase(c) /\ TypeOK /\ pc[c] = "walk_far"
  BY Zenon DEF WalkFar, IInv, CInv, GInv
<1>2. UNCHANGED <<dirs, near, far, op, want, there>>
  BY Zenon DEF WalkFar
<1>3. CASE /\ work[c] = {}
           /\ pc' = [pc EXCEPT ![c] = "fill"]
           /\ queue' = [queue EXCEPT ![c] = Range(sent[c])]
           /\ UNCHANGED <<work, sent, result>>
  <2>1. Range(sent[c]) \subseteq Digest
    BY <1>1, Zenon DEF Traversal, PartialWalk, Reachable
  <2>2. GInv' /\ OthersKept(c)
    BY <1>2, <1>3, <2>1, Zenon DEF IInv, GInv, TypeOK, Closed, OthersKept
  <2>3. pc'[c] = "fill" /\ queue'[c] = Range(sent[c])
    BY <1>1, <1>3, Zenon DEF TypeOK
  <2>4. Traversal(c)' /\ Answered(c)'
    BY <1>1, <1>2, <1>3, Zenon DEF Traversal, PartialWalk, Answered, Phase
  <2>5. Phase(c)'
    BY <1>1, <1>2, <1>3, <2>3, Zenon DEF Phase
  <2> QED
    BY <2>2, <2>4, <2>5, OwnStep, Zenon DEF CInv
<1>4. CASE \E d \in work[c] : FarHas(c, d) /\ Yield(c, d)
  <2>1. PICK d \in work[c] : FarHas(c, d) /\ Yield(c, d)
    BY <1>4, Zenon
  <2>2. /\ Traversal(c)' /\ Range(sent'[c]) = Range(sent[c]) \cup {d}
        /\ sent' \in [Client -> Seq(Digest)] /\ work' \in [Client -> SUBSET Digest]
    BY <1>1, <1>2, <2>1, YieldStep, Zenon
  <2>3. UNCHANGED <<pc, queue, result>>
    BY <2>1, Zenon DEF Yield
  <2>4. GInv'
    BY <1>2, <2>2, <2>3, Zenon DEF IInv, GInv, TypeOK, Closed
  <2>5. OthersKept(c)
    BY <1>2, <2>1, <2>3, Zenon DEF Yield, OthersKept, IInv, GInv, TypeOK
  <2>6. FarKind = "table" => d \in far
    BY <2>1, Zenon DEF FarHas
  <2>7. Phase(c)' /\ Answered(c)'
    BY <1>1, <1>2, <2>2, <2>3, <2>6, Zenon DEF Phase, Answered
  <2> QED
    BY <2>2, <2>4, <2>5, <2>7, OwnStep, Zenon DEF CInv
<1>5. CASE /\ \E d \in work[c] :
                  /\ ~FarHas(c, d)
                  /\ Done(c, IF d = want[c] /\ op[c] # "descend" THEN "absent" ELSE "inconsistent")
           /\ UNCHANGED <<work, sent, queue>>
  <2>1. PICK d \in work[c] :
            /\ ~FarHas(c, d)
            /\ Done(c, IF d = want[c] /\ op[c] # "descend" THEN "absent" ELSE "inconsistent")
    BY <1>5, Zenon
  <2>2. d \notin far /\ (FarKind = "table" \/ d = want[c])
    BY <2>1, KindsAssumption, Zenon DEF FarHas
  <2>3. d = want[c]
    BY <1>1, <2>2, Zenon DEF Traversal, PartialWalk, Phase, Closed, IInv, GInv
  <2>4. op[c] # "descend" /\ ~there[c]
    BY <1>1, <2>2, <2>3, Zenon DEF Phase
  <2>5. pc'[c] = "idle" /\ result'[c] = "absent"
    BY <1>1, <2>1, <2>3, <2>4, Zenon DEF Done, TypeOK
  <2>6. GInv' /\ OthersKept(c)
    BY <1>2, <1>5, <2>1, <2>3, <2>4, Zenon DEF IInv, GInv, TypeOK, Done, Closed, Results, OthersKept
  <2>7. CInv(c)'
    BY <1>2, <2>4, <2>5, Zenon DEF CInv, Answered
  <2> QED
    BY <2>6, <2>7, OwnStep, Zenon
<1> QED
  BY <1>3, <1>4, <1>5, Zenon DEF WalkFar

(* What is put into near has its children there: they were all received,   *)
(* and are not in the queue any more, or arrive with it.                   *)
LEMMA FillKeeps == ASSUME IInv, NEW c \in Client, Fill(c) PROVE IInv'
<1>1. Traversal(c) /\ Phase(c) /\ TypeOK /\ pc[c] = "fill" /\ Closed(dirs, near)
  BY Zenon DEF Fill, IInv, CInv, GInv
<1>2. UNCHANGED <<dirs, far, op, want, there, work, sent>>
  BY Zenon DEF Fill
<1>3. PICK S \in SUBSET queue[c] :
          /\ IF NearKind = "redb" THEN S = queue[c]
             ELSE \E d \in queue[c] : S = {d} /\ Children(dirs[d]) \cap queue[c] = {}
          /\ near' = near \cup S
          /\ queue' = [queue EXCEPT ![c] = @ \ S]
  BY Zenon DEF Fill
<1>4. /\ Range(sent[c]) = Reachable(dirs, want[c]) /\ Closed(dirs, Range(sent[c]))
      /\ queue[c] \subseteq Range(sent[c]) /\ Range(sent[c]) \ queue[c] \subseteq near
  BY <1>1, TraversalEnds, Zenon DEF Phase
<1>5. Closed(dirs, near')
  <2> SUFFICES ASSUME NEW x \in S PROVE Children(dirs[x]) \subseteq near'
    BY <1>1, <1>3, Zenon DEF Closed
  <2>1. Children(dirs[x]) \subseteq Range(sent[c])
    BY <1>3, <1>4, Zenon DEF Closed
  <2>2. CASE NearKind = "redb"
    BY <1>3, <1>4, <2>1, <2>2, Zenon
  <2>3. CASE NearKind # "redb"
    BY <1>3, <1>4, <2>1, <2>3, Zenon
  <2> QED
    BY <2>2, <2>3, Zenon
<1>6. near' \subseteq Digest /\ queue' \in [Client -> SUBSET Digest] /\ queue'[c] = queue[c] \ S
  BY <1>1, <1>3, Zenon DEF TypeOK
<1>7. Range(sent[c]) \ queue'[c] \subseteq near'
  BY <1>3, <1>4, <1>6, Zenon
<1>8. CASE queue'[c] = {} /\ Done(c, "found")
  <2>1. pc'[c] = "idle" /\ result'[c] = "found"
    BY <1>1, <1>8, Zenon DEF Done, TypeOK
  <2>2. GInv' /\ OthersKept(c)
    BY <1>2, <1>3, <1>5, <1>6, <1>8, Zenon DEF IInv, GInv, TypeOK, Done, Results, OthersKept
  <2>3. CInv(c)'
    BY <1>1, <1>2, <1>4, <1>7, <1>8, <2>1, Zenon DEF CInv, Answered, Traversal, PartialWalk
  <2> QED
    BY <2>2, <2>3, OwnStep, Zenon
<1>9. CASE UNCHANGED <<pc, result>>
  <2>1. GInv' /\ OthersKept(c)
    BY <1>2, <1>3, <1>5, <1>6, <1>9, Zenon DEF IInv, GInv, TypeOK, OthersKept
  <2>2. Traversal(c)' /\ Answered(c)'
    BY <1>1, <1>2, <1>9, Zenon DEF Traversal, PartialWalk, Answered, Phase
  <2>3. Phase(c)'
    BY <1>1, <1>2, <1>3, <1>4, <1>6, <1>7, <1>9, Zenon DEF Phase
  <2> QED
    BY <2>1, <2>2, <2>3, OwnStep, Zenon DEF CInv
<1> QED
  BY <1>8, <1>9, Zenon DEF Fill

LEMMA AbortKeeps == ASSUME IInv, NEW c \in Client, Abort(c) PROVE IInv'
<1>1. UNCHANGED <<dirs, near, far, op, want, there, work, sent, queue>> /\ Done(c, "failed")
  BY Zenon DEF Abort
<1>2. GInv' /\ OthersKept(c)
  BY <1>1, Zenon DEF IInv, GInv, TypeOK, Done, Closed, Results, OthersKept
<1>3. pc'[c] = "idle" /\ result'[c] = "failed"
  BY <1>1, Zenon DEF Done, IInv, GInv, TypeOK
<1> QED
  BY <1>2, <1>3, OwnStep, Zenon DEF CInv, Answered

LEMMA StutterKeeps == IInv /\ UNCHANGED vars => IInv'
<1> SUFFICES ASSUME IInv, UNCHANGED vars PROVE IInv'
  BY Zenon
<1>1. UNCHANGED <<dirs, near, far, op, pc, want, there, work, sent, queue, result>>
  BY Zenon DEF vars, clients
<1>2. GInv'
  BY <1>1, Zenon DEF IInv, GInv, TypeOK, Closed
<1>3. ASSUME NEW b \in Client PROVE CInv(b)'
  BY <1>1, Bystander, Zenon DEF IInv
<1> QED
  BY <1>2, <1>3, Zenon DEF IInv
-----------------------------------------------------------------------------
(* The inductive invariant: what each client has yielded is what is below  *)
(* its root, near and far are closed, and the root of a request that was   *)
(* there is still somewhere.                                               *)
THEOREM Invariance == Spec => []IInv
<1>1. IInv /\ [Next]_vars => IInv'
  BY FarGrowsKeeps, RequestKeeps, NearGetKeeps, WalkNearKeeps, WalkFarKeeps, FillKeeps,
     AbortKeeps, StutterKeeps, Zenon DEF Next, Step
<1> QED
  BY InitHolds, <1>1, PTL DEF Spec

(* Requests, streams and both services keep their types. *)
THEOREM TypeCorrect == Spec => []TypeOK
<1>1. IInv => TypeOK
  BY Zenon DEF IInv, GInv
<1> QED
  BY Invariance, <1>1, PTL

(* No reader of a Cache is told that the store is inconsistent, however    *)
(* fills of near and uploads to far run between its steps (cache.rs,       *)
(* bfs.rs and descend_to.rs).                                              *)
THEOREM ReadersSeeNoInconsistency == Spec => []NeverInconsistent
<1>1. IInv => NeverInconsistent
  BY Zenon DEF IInv, CInv, Answered, NeverInconsistent
<1> QED
  BY Invariance, <1>1, PTL

(* A get_recursive() that ends well has yielded exactly what is below its  *)
(* root, each directory once.                                              *)
THEOREM RecursiveIsComplete == Spec => []RecursiveComplete
<1>1. IInv => RecursiveComplete
  BY Zenon DEF IInv, CInv, Answered, RecursiveComplete
<1> QED
  BY Invariance, <1>1, PTL

(* What was there when it was asked for is not answered to be absent, near *)
(* being asked before far.                                                 *)
THEOREM AbsentIsTrue == Spec => []NoFalseAbsent
<1>1. IInv => NoFalseAbsent
  BY Zenon DEF IInv, CInv, Answered, NoFalseAbsent
<1> QED
  BY Invariance, <1>1, PTL

(* After an answer everything below the directory is in near: the comment  *)
(* of Cache::get() on subsequent requests for children.                    *)
THEOREM AnswersAreCached == Spec => []FoundIsCached
<1>1. IInv => FoundIsCached
  BY Zenon DEF IInv, CInv, Answered, FoundIsCached
<1> QED
  BY Invariance, <1>1, PTL

(* However the fills of near overlap, fail or are dropped, near implements *)
(* ClosedStore: it is a directory service of its own to whoever reads it.  *)
THEOREM NearRefinement == Spec => NearKeepsClosedStore
<1>1. Init => NearStore!Init
  BY Zenon DEF Init, NearStore!Init
<1>2. IInv /\ IInv' /\ [Next]_vars => [NearStore!Grow]_<<dirs, near>>
  <2> SUFFICES ASSUME IInv, IInv', [Next]_vars PROVE [NearStore!Grow]_<<dirs, near>>
    BY Zenon
  <2>1. dirs' = dirs /\ near \subseteq near'
    BY Zenon DEF Next, vars, clients, FarGrows, Request, Start, Step, NearGet, WalkNear, WalkFar, Fill, Abort
  <2>2. near' \subseteq Digest /\ Closed(dirs, near')
    BY <2>1, Zenon DEF IInv, GInv, TypeOK
  <2> QED
    BY <2>1, <2>2, Zenon DEF NearStore!Grow, NearStore!Closed, Closed, NearStore!Children, Children
<1> QED
  BY <1>1, <1>2, Invariance, PTL DEF Spec, NearKeepsClosedStore, NearStore!Spec
=============================================================================
