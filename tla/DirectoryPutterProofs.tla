----------------------- MODULE DirectoryPutterProofs -----------------------
(***************************************************************************)
(* For every set of digests, every content and any number of putters of    *)
(* every kind: a store fed through putters whose callers give up on error  *)
(* stays closed, implements ClosedStore and never loses what a successful  *)
(* close() promised.                                                       *)
(***************************************************************************)
EXTENDS DirectoryPutter, TLAPS

(* The graph a putter holds while nothing was refused: closed, every       *)
(* pointer drawn and rightly sized, and all of it below the nodes without  *)
(* a parent.                                                               *)
GraphGood(p) ==
    /\ Closed(dirs, nodes[p])
    /\ SizesAgree(dirs, nodes[p])
    /\ \A e \in edges[p] : e[2] \in Children(dirs[e[1]])
    /\ \A d \in nodes[p] : \A c \in Children(dirs[d]) : <<d, c>> \in edges[p]
    /\ \A T \in SUBSET Digest :
          Closed(dirs, T) /\ Externals(p) \subseteq T => nodes[p] \subseteq T

PInv(p) ==
    /\ rejected[p] => state[p] = "closed" /\ result[p] \notin Digest
    /\ ~rejected[p] => GraphGood(p)
    /\ state[p] # "closed" => result[p] = None
    /\ state[p] = "writing" => kind[p] = "simple" /\ nodes[p] \ queue[p] \subseteq stored
    /\ state[p] = "head" => kind[p] = "object"
    /\ result[p] \in Digest =>
          /\ Externals(p) = {result[p]}
          /\ kind[p] # "object" => nodes[p] \subseteq stored
          /\ kind[p] = "object" => \E o \in objects : o[1] = result[p]

IInv ==
    /\ TypeOK
    /\ dirs \in Contents
    /\ StoreClosed
    /\ ObjectsComplete
    /\ \A p \in Putter : PInv(p)

(* A directory does not point to itself. *)
LEMMA NoSelfPointer ==
    ASSUME NEW c \in Contents, NEW d \in Digest PROVE d \notin Children(c[d])
<1>1. Acyclic(c)
  BY ContentsAssumption, Zenon
<1>2. d \in Reachable(c, d)
  BY Zenon DEF Reachable
<1> QED
  BY <1>1, <1>2, Zenon DEF Acyclic

(* A good graph with one parentless node is the closure of that node. *)
LEMMA GraphIsClosure ==
    ASSUME TypeOK, NEW p \in Putter, GraphGood(p), NEW r \in Digest, Externals(p) = {r}
    PROVE  ValidClosure(dirs, nodes[p], r)
<1>1. nodes[p] \subseteq Digest /\ r \in nodes[p]
  BY Zenon DEF TypeOK, Externals
<1>2. Closed(dirs, nodes[p]) /\ SizesAgree(dirs, nodes[p])
  BY Zenon DEF GraphGood
<1>3. ASSUME NEW d \in nodes[p] PROVE d \in Reachable(dirs, r)
  <2>1. \A T \in SUBSET Digest : r \in T /\ Closed(dirs, T) => d \in T
    BY Zenon DEF GraphGood
  <2> QED
    BY <1>1, <2>1, Zenon DEF Reachable
<1>4. ASSUME NEW d \in Reachable(dirs, r) PROVE d \in nodes[p]
  BY <1>1, <1>2, Zenon DEF Reachable
<1> QED
  BY <1>1, <1>2, <1>3, <1>4, Zenon DEF ValidClosure

LEMMA InitIInv == Init => IInv
<1> SUFFICES ASSUME Init PROVE IInv
  BY Zenon
<1>1. dirs \in [Digest -> Directory] /\ dirs \in Contents
  BY ContentsAssumption, Zenon DEF Init
<1>2. ASSUME NEW p \in Putter PROVE GraphGood(p)
  BY Zenon DEF Init, put_multiple_start, GraphGood, Closed, SizesAgree
<1>k. kind \in [Putter -> {"simple", "redb", "object"}]
  BY ContentsAssumption, Zenon DEF Init
<1>3. TypeOK /\ StoreClosed /\ ObjectsComplete
  BY <1>1, <1>k, Zenon DEF Init, put_multiple_start, TypeOK, StoreClosed, Closed, ObjectsComplete
<1> QED
  BY <1>1, <1>2, <1>3, ContentsAssumption, Zenon DEF Init, put_multiple_start, IInv, PInv

(* What a step leaves alone for the putters that do not take it. *)
Untouched(q) ==
    /\ state'[q] = state[q] /\ nodes'[q] = nodes[q] /\ edges'[q] = edges[q]
    /\ rejected'[q] = rejected[q] /\ queue'[q] = queue[q] /\ result'[q] = result[q]

(* Nothing a reader could find disappears. *)
Grows ==
    /\ dirs' = dirs /\ kind' = kind
    /\ stored \subseteq stored'
    /\ \A o \in objects : \E n \in objects' : n[1] = o[1]

LEMMA Bystander ==
    ASSUME NEW q \in Putter, PInv(q), Untouched(q), Grows PROVE PInv(q)'
<1>1. GraphGood(q) => GraphGood(q)'
  BY DEF GraphGood, Untouched, Grows, Closed, SizesAgree, Externals
<1>2. Externals(q)' = Externals(q)
  BY Zenon DEF Externals, Untouched
<1> QED
  BY <1>1, <1>2, Zenon DEF PInv, Untouched, Grows

(* Accepting a directory whose pointers are all known and rightly sized    *)
(* keeps the graph good.                                                   *)
LEMMA PutOkGood ==
    ASSUME IInv, NEW p \in Putter, NEW d \in Digest, d \notin nodes[p], GraphGood(p),
           dirs' = dirs, nodes' = [nodes EXCEPT ![p] = @ \cup {d}], PutOk(p, d)
    PROVE  GraphGood(p)'
<1> DEFINE ptrs == dirs[d].pointers
<1>1. /\ nodes'[p] = nodes[p] \cup {d}
      /\ edges'[p] = edges[p] \cup {<<d, ptrs[i].digest>> : i \in DOMAIN ptrs}
  BY Zenon DEF IInv, TypeOK, PutOk, Drawn
<1>2. d \notin Children(dirs[d])
  BY NoSelfPointer, Zenon DEF IInv
<1>3. Children(dirs[d]) \subseteq nodes[p]
  BY <1>2, Zenon DEF PutOk, PointerOk, Children
<1>4. edges'[p] = edges[p] \cup {<<d, c>> : c \in Children(dirs[d])}
  BY <1>1, Zenon DEF Children
<1>5. Closed(dirs, nodes[p] \cup {d})
  BY <1>3, Zenon DEF GraphGood, Closed
<1>6. SizesAgree(dirs, nodes[p] \cup {d})
  BY Zenon DEF GraphGood, SizesAgree, PutOk, PointerOk
<1>7. ASSUME NEW e \in edges'[p] PROVE e[2] \in Children(dirs[e[1]])
  BY <1>4 DEF GraphGood
<1>8. ASSUME NEW x \in nodes[p] \cup {d}, NEW c \in Children(dirs[x])
      PROVE  <<x, c>> \in edges'[p]
  BY <1>4, Zenon DEF GraphGood
<1>9. ASSUME NEW T \in SUBSET Digest, Closed(dirs, T), Externals(p)' \subseteq T
      PROVE  nodes[p] \cup {d} \subseteq T
  <2>1. \A e \in edges'[p] : e[2] # d
    <3>1. \A e \in edges[p] : e[2] \in nodes[p]
      BY Zenon DEF IInv, TypeOK
    <3> QED
      BY <1>2, <1>4, <3>1
  <2>2. d \in T
    BY <1>1, <1>9, <2>1, Zenon DEF Externals
  <2>3. Children(dirs[d]) \subseteq T
    BY <1>9, <2>2, Zenon DEF Closed
  <2>4. ASSUME NEW x \in Externals(p) PROVE x \in T
    <3>1. CASE x \in Children(dirs[d])
      BY <2>3, <3>1, Zenon
    <3>2. CASE x \notin Children(dirs[d])
      <4>1. \A e \in edges'[p] : e[2] # x
        BY <1>4, <3>2 DEF Externals
      <4> QED
        BY <1>1, <1>9, <4>1, Zenon DEF Externals
    <3> QED
      BY <3>1, <3>2, Zenon
  <2> QED
    BY <1>9, <2>2, <2>4, Zenon DEF GraphGood
<1> QED
  BY <1>1, <1>5, <1>6, <1>7, <1>8, <1>9, Zenon DEF GraphGood

(* Steps that only move a putter towards its end: the graphs stay as they  *)
(* are, and nothing is stored.                                             *)
LEMMA QuietStep ==
    ASSUME IInv, NEW p \in Putter,
           UNCHANGED <<dirs, kind, stored, objects, nodes, edges, rejected, queue>>,
           \A q \in Putter \ {p} : state'[q] = state[q] /\ result'[q] = result[q],
           TypeOK', PInv(p)'
    PROVE  IInv'
<1>1. StoreClosed' /\ ObjectsComplete' /\ (dirs \in Contents)'
  BY Zenon DEF IInv, StoreClosed, ObjectsComplete
<1>2. ASSUME NEW q \in Putter \ {p} PROVE PInv(q)'
  BY Bystander, Zenon DEF IInv, Untouched, Grows
<1> QED
  BY <1>1, <1>2, Zenon DEF IInv

LEMMA PutStep ==
    ASSUME CallerGivesUp, IInv, NEW p \in Putter, NEW d \in Digest, put(p, d)
    PROVE  IInv'
<1>1. CASE UNCHANGED vars
  BY <1>1, Zenon DEF IInv, PInv, GraphGood, TypeOK, StoreClosed, ObjectsComplete, Externals, vars
<1>2. CASE /\ d \notin nodes[p]
           /\ nodes' = [nodes EXCEPT ![p] = @ \cup {d}]
           /\ PutOk(p, d) \/ PutFails(p, d)
           /\ UNCHANGED <<dirs, kind, stored, objects, queue, result>>
  <2>1. StoreClosed' /\ ObjectsComplete' /\ (dirs \in Contents)'
    BY <1>2, Zenon DEF IInv, StoreClosed, ObjectsComplete
  <2>2. ASSUME NEW q \in Putter \ {p} PROVE PInv(q)'
    BY <1>2, Bystander, ZenonT(30) DEF IInv, TypeOK, Untouched, Grows, PutOk, PutFails, Drawn
  <2>3. state[p] = "open" /\ result[p] = None /\ ~rejected[p] /\ GraphGood(p)
    BY Zenon DEF put, IInv, PInv
  <2>4. CASE PutOk(p, d)
    <3>1. GraphGood(p)'
      BY <1>2, <2>3, <2>4, PutOkGood, Zenon
    <3>2. PInv(p)'
      BY <1>2, <2>3, <2>4, <3>1, ContentsAssumption, Zenon DEF PInv, PutOk
    <3>3. d \notin Children(dirs[d])
      BY NoSelfPointer, Zenon DEF IInv
    <3>4. \A i \in DOMAIN dirs[d].pointers : dirs[d].pointers[i].digest \in nodes[p] \cup {d}
      BY <2>4, Zenon DEF PutOk, PointerOk
    <3>5. TypeOK'
      BY <1>2, <2>4, <3>4 DEF IInv, TypeOK, PutOk, Drawn
    <3> QED
      BY <2>1, <2>2, <3>2, <3>5, Zenon DEF IInv
  <2>5. CASE PutFails(p, d)
    <3>1. PICK i \in DOMAIN dirs[d].pointers :
             /\ \A j \in 1 .. i - 1 : PointerOk(p, d, j)
             /\ Drawn(p, d, 1 .. i - 1)
      BY <2>5, Zenon DEF PutFails
    <3>2. \A j \in 1 .. i - 1 : dirs[d].pointers[j].digest \in nodes[p] \cup {d}
      BY <3>1, Zenon DEF PointerOk
    <3>s. /\ state' \in [Putter -> {"open", "head", "writing", "closed"}]
          /\ rejected' \in [Putter -> BOOLEAN]
      BY <2>5, Zenon DEF IInv, TypeOK, PutFails
    <3>e. /\ edges' \in [Putter -> SUBSET (Digest \X Digest)]
          /\ nodes' \in [Putter -> SUBSET Digest]
          /\ \A q \in Putter : edges'[q] \subseteq nodes'[q] \X nodes'[q]
                               /\ queue[q] \subseteq nodes'[q]
      BY <1>2, <3>1, <3>2 DEF IInv, TypeOK, Drawn
    <3>3. TypeOK'
      BY <1>2, <3>s, <3>e, Zenon DEF IInv, TypeOK
    <3>4. PInv(p)'
      BY <1>2, <2>3, <2>5, ContentsAssumption, ZenonT(30) DEF IInv, TypeOK, PInv, PutFails
    <3> QED
      BY <2>1, <2>2, <3>3, <3>4, Zenon DEF IInv
  <2> QED
    BY <1>2, <2>4, <2>5, Zenon
<1> QED
  BY <1>1, <1>2, Zenon DEF put

(* A putter that returns r has stored or found all of its graph. *)
LEMMA ReturnInv ==
    ASSUME IInv, NEW p \in Putter, state[p] # "closed", NEW r \in Digest, Externals(p) = {r},
           Return(p, r), UNCHANGED <<dirs, kind, nodes, edges, rejected, queue>>, Grows,
           kind[p] # "object" => nodes[p] \subseteq stored',
           kind[p] = "object" => \E o \in objects' : o[1] = r
    PROVE  PInv(p)'
<1>1. state'[p] = "closed" /\ result'[p] = r
  BY Zenon DEF IInv, TypeOK, Return
<1>2. GraphGood(p)' /\ ~rejected'[p]
  BY SMTT(30) DEF IInv, PInv, GraphGood, Closed, SizesAgree, Externals
<1>3. Externals(p)' = {r}
  BY Zenon DEF Externals
<1> QED
  BY <1>1, <1>2, <1>3, Zenon DEF PInv

(* A putter that ends with an error, or dies, leaves a good graph behind. *)
LEMMA EndInv ==
    ASSUME IInv, NEW p \in Putter, state[p] # "closed",
           state' = [state EXCEPT ![p] = "closed"],
           result' = result \/ result' = [result EXCEPT ![p] = None],
           UNCHANGED <<dirs, kind, stored, objects, nodes, edges, rejected, queue>>
    PROVE  IInv'
<1>1. state'[p] = "closed" /\ result'[p] \notin Digest
  BY ContentsAssumption DEF IInv, TypeOK, PInv
<1>2. GraphGood(p)' /\ ~rejected'[p]
  BY SMTT(30) DEF IInv, PInv, GraphGood, Closed, SizesAgree, Externals
<1>3. PInv(p)'
  BY <1>1, <1>2, Zenon DEF PInv
<1>4. TypeOK'
  BY Zenon DEF IInv, TypeOK
<1>5. \A q \in Putter \ {p} : state'[q] = state[q] /\ result'[q] = result[q]
  BY Zenon DEF IInv, TypeOK
<1> QED
  BY <1>3, <1>4, <1>5, QuietStep, Zenon

LEMMA CloseStep ==
    ASSUME IInv, NEW p \in Putter, close(p) \/ Crash(p) PROVE IInv'
<1>g. state[p] # "closed" => GraphGood(p) /\ ~rejected[p]
  BY Zenon DEF IInv, PInv
<1>1. CASE BuildFails(p)
  BY <1>1, EndInv, Zenon DEF BuildFails, Return
<1>2. CASE SimpleClose(p)
  <2>1. TypeOK'
    BY <1>2, Zenon DEF SimpleClose, IInv, TypeOK
  <2>2. PInv(p)'
    <3>1. GraphGood(p)'
      BY <1>2, <1>g, ZenonT(30) DEF SimpleClose, GraphGood, Closed, SizesAgree, Externals
    <3>2. state'[p] = "writing" /\ queue'[p] = nodes'[p] /\ result'[p] = None
      BY <1>2, ZenonT(30) DEF SimpleClose, IInv, TypeOK, PInv
    <3> QED
      BY <1>2, <1>g, <3>1, <3>2, ContentsAssumption, Zenon DEF SimpleClose, PInv
  <2>3. ASSUME NEW q \in Putter \ {p} PROVE PInv(q)'
    BY <1>2, Bystander, Zenon DEF SimpleClose, IInv, TypeOK, Untouched, Grows
  <2> QED
    BY <1>2, <2>1, <2>2, <2>3, Zenon DEF SimpleClose, IInv, StoreClosed, ObjectsComplete
<1>3. CASE PutOne(p)
  <2>1. PICK d \in Digest : /\ NextInOrder(p, d) /\ stored' = stored \cup {d}
                            /\ queue' = [queue EXCEPT ![p] = @ \ {d}]
    BY <1>3, Zenon DEF PutOne
  <2>2. d \in nodes[p] /\ Children(dirs[d]) \subseteq nodes[p] \ queue[p]
    <3>1. d \in nodes[p]
      BY <2>1, Zenon DEF NextInOrder, IInv, TypeOK
    <3>2. ASSUME NEW c \in Children(dirs[d]) PROVE c \in nodes[p] \ queue[p]
      <4>1. <<d, c>> \in edges[p] /\ c \in nodes[p]
        BY <1>3, <1>g, <3>1, Zenon DEF PutOne, GraphGood, Closed
      <4> QED
        BY <2>1, <4>1, Zenon DEF NextInOrder
    <3> QED
      BY <3>1, <3>2, Zenon
  <2>3. Children(dirs[d]) \subseteq stored
    BY <1>3, <2>2, Zenon DEF PutOne, IInv, PInv
  <2>4. StoreClosed'
    BY <1>3, <2>1, <2>3, Zenon DEF PutOne, StoreClosed, Closed, IInv
  <2>5. PInv(p)'
    <3>1. GraphGood(p)'
      BY SMTT(30), <1>3, <1>g DEF PutOne, GraphGood, Closed, SizesAgree, Externals
    <3>2. queue'[p] = queue[p] \ {d}
      BY <2>1, Zenon DEF IInv, TypeOK
    <3> QED
      BY <1>3, <1>g, <2>1, <3>1, <3>2, ContentsAssumption, Zenon DEF PutOne, PInv, IInv
  <2>6. ASSUME NEW q \in Putter \ {p} PROVE PInv(q)'
    BY <1>3, <2>1, Bystander, Zenon DEF PutOne, IInv, TypeOK, Untouched, Grows
  <2>7. TypeOK'
    BY <1>3, <2>1, Zenon DEF PutOne, IInv, TypeOK
  <2> QED
    BY <1>3, <2>4, <2>5, <2>6, <2>7, Zenon DEF PutOne, IInv, ObjectsComplete
<1>4. CASE PutOneFails(p)
  BY <1>4, EndInv, Zenon DEF PutOneFails, Return
<1>5. CASE SimpleDone(p)
  <2>1. PICK r \in Digest : Externals(p) = {r} /\ Return(p, r)
    BY <1>5, Zenon DEF SimpleDone
  <2>2. TypeOK'
    BY <1>5, <2>1, Zenon DEF SimpleDone, Return, IInv, TypeOK
  <2>3. Grows /\ nodes[p] \subseteq stored'
    BY <1>5, Zenon DEF SimpleDone, IInv, PInv, Grows
  <2>4. PInv(p)'
    BY <1>5, <2>1, <2>3, ReturnInv, Zenon DEF SimpleDone
  <2>5. \A q \in Putter \ {p} : state'[q] = state[q] /\ result'[q] = result[q]
    BY <2>1, Zenon DEF IInv, TypeOK, Return
  <2> QED
    BY <1>5, <2>2, <2>4, <2>5, QuietStep, Zenon DEF SimpleDone
<1>6. CASE RedbClose(p)
  <2>1. PICK r \in Digest :
           /\ Externals(p) = {r}
           /\ \/ Return(p, r) /\ stored' = stored \cup nodes[p]
              \/ Return(p, None) /\ UNCHANGED stored
    BY <1>6, Zenon DEF RedbClose
  <2>2. CASE Return(p, None) /\ UNCHANGED stored
    BY <1>6, <2>2, EndInv, Zenon DEF RedbClose, Return
  <2>3. CASE Return(p, r) /\ stored' = stored \cup nodes[p]
    <3>1. TypeOK'
      BY <1>6, <2>3, Zenon DEF RedbClose, Return, IInv, TypeOK
    <3>2. Grows
      BY <1>6, <2>3, Zenon DEF RedbClose, Grows
    <3>3. PInv(p)'
      BY <1>6, <2>1, <2>3, <3>2, ReturnInv, Zenon DEF RedbClose
    <3>4. ASSUME NEW q \in Putter \ {p} PROVE PInv(q)'
      BY <1>6, <2>3, <3>2, Bystander, Zenon DEF RedbClose, Return, IInv, TypeOK, Untouched
    <3>5. StoreClosed'
      BY <1>6, <1>g, <2>3, Zenon DEF RedbClose, IInv, StoreClosed, Closed, GraphGood
    <3> QED
      BY <1>6, <3>1, <3>3, <3>4, <3>5, Zenon DEF RedbClose, IInv, ObjectsComplete
  <2> QED
    BY <2>1, <2>2, <2>3, Zenon
<1>7. CASE ObjectHead(p)
  <2>1. PICK r \in Digest :
           /\ Externals(p) = {r}
           /\ \/ (\E o \in objects : o[1] = r) /\ Return(p, r)
              \/ state' = [state EXCEPT ![p] = "head"] /\ UNCHANGED result
              \/ Return(p, None)
    BY <1>7, Zenon DEF ObjectHead
  <2>2. CASE Return(p, None)
    BY <1>7, <2>2, EndInv, Zenon DEF ObjectHead, Return
  <2>3. CASE (\E o \in objects : o[1] = r) /\ Return(p, r)
    <3>1. TypeOK'
      BY <1>7, <2>3, Zenon DEF ObjectHead, Return, IInv, TypeOK
    <3>2. PInv(p)'
      BY <1>7, <2>1, <2>3, ReturnInv, Zenon DEF ObjectHead, Grows
    <3>3. \A q \in Putter \ {p} : state'[q] = state[q] /\ result'[q] = result[q]
      BY <2>3, Zenon DEF IInv, TypeOK, Return
    <3> QED
      BY <1>7, <3>1, <3>2, <3>3, QuietStep, Zenon DEF ObjectHead
  <2>4. CASE state' = [state EXCEPT ![p] = "head"] /\ UNCHANGED result
    <3>1. TypeOK'
      BY <1>7, <2>4, Zenon DEF ObjectHead, IInv, TypeOK
    <3>2. PInv(p)'
      <4>1. GraphGood(p)'
        BY SMTT(30), <1>7, <1>g DEF ObjectHead, GraphGood, Closed, SizesAgree, Externals
      <4>2. state'[p] = "head" /\ result'[p] = None
        BY <1>7, <2>4, Zenon DEF ObjectHead, IInv, TypeOK, PInv
      <4> QED
        BY <1>7, <1>g, <4>1, <4>2, ContentsAssumption, Zenon DEF ObjectHead, PInv
    <3>3. \A q \in Putter \ {p} : state'[q] = state[q] /\ result'[q] = result[q]
      BY <2>4, Zenon DEF IInv, TypeOK
    <3> QED
      BY <1>7, <3>1, <3>2, <3>3, QuietStep, Zenon DEF ObjectHead
  <2> QED
    BY <2>1, <2>2, <2>3, <2>4, Zenon
<1>8. CASE ObjectUpload(p)
  <2>1. PICK r \in Digest :
           /\ Externals(p) = {r}
           /\ \/ /\ Return(p, r)
                 /\ objects' = {o \in objects : o[1] # r} \cup {<<r, nodes[p]>>}
              \/ Return(p, None) /\ UNCHANGED objects
    BY <1>8, Zenon DEF ObjectUpload
  <2>2. CASE Return(p, None) /\ UNCHANGED objects
    BY <1>8, <2>2, EndInv, Zenon DEF ObjectUpload, Return
  <2>3. CASE /\ Return(p, r)
             /\ objects' = {o \in objects : o[1] # r} \cup {<<r, nodes[p]>>}
    <3>1. TypeOK'
      BY <1>8, <2>3 DEF ObjectUpload, Return, IInv, TypeOK
    <3>2. Grows
      BY <1>8, <2>3, Zenon DEF ObjectUpload, Grows
    <3>3. kind[p] = "object"
      BY <1>8, Zenon DEF ObjectUpload, IInv, PInv
    <3>4. PInv(p)'
      <4>1. <<r, nodes[p]>> \in objects' /\ <<r, nodes[p]>>[1] = r
        BY <2>3, Zenon
      <4>2. \E o \in objects' : o[1] = r
        BY <4>1, Zenon
      <4> QED
        BY <1>8, <2>1, <2>3, <3>2, <3>3, <4>2, ReturnInv, Zenon DEF ObjectUpload
    <3>5. ASSUME NEW q \in Putter \ {p} PROVE PInv(q)'
      BY <1>8, <2>3, <3>2, Bystander, Zenon DEF ObjectUpload, Return, IInv, TypeOK, Untouched
    <3>6. ValidClosure(dirs, nodes[p], r)
      BY <1>8, <1>g, <2>1, GraphIsClosure, Zenon DEF ObjectUpload, IInv
    <3>7. ObjectsComplete'
      BY <1>8, <2>3, <3>6 DEF ObjectUpload, IInv, ObjectsComplete
    <3> QED
      BY <1>8, <3>1, <3>4, <3>5, <3>7, Zenon DEF ObjectUpload, IInv, StoreClosed
  <2> QED
    BY <2>1, <2>2, <2>3, Zenon
<1>9. CASE Crash(p)
  BY <1>9, EndInv, Zenon DEF Crash
<1> QED
  BY <1>1, <1>2, <1>3, <1>4, <1>5, <1>6, <1>7, <1>8, <1>9, Zenon DEF close

(* The inductive invariant holds as long as callers give up on error. *)
THEOREM Invariance == ASSUME CallerGivesUp PROVE Spec => []IInv
<1>1. IInv /\ UNCHANGED vars => IInv'
  BY DEF IInv, PInv, GraphGood, TypeOK, StoreClosed, ObjectsComplete, Externals, vars
<1>2. IInv /\ [Next]_vars => IInv'
  BY <1>1, PutStep, CloseStep, Zenon DEF Next
<1> QED
  BY <1>2, InitIInv, PTL DEF Spec

(* The putters' and the store's state keep their types. *)
THEOREM TypeCorrect == ASSUME CallerGivesUp PROVE Spec => []TypeOK
<1>1. IInv => TypeOK
  BY Zenon DEF IInv
<1> QED
  BY Invariance, <1>1, PTL

(* No interleaving, failed backend call or crash leaves a directory in the *)
(* store without its children, and no object holds less or more than its   *)
(* closure.                                                                *)
THEOREM StoreStaysClosed ==
    ASSUME CallerGivesUp PROVE Spec => [](StoreClosed /\ ObjectsComplete)
<1>1. IInv => StoreClosed /\ ObjectsComplete
  BY Zenon DEF IInv
<1> QED
  BY Invariance, <1>1, PTL

(* What a successful close() returned can be read in full ever after. *)
THEOREM UploadStaysReadable == ASSUME CallerGivesUp PROVE Spec => []UploadReadable
<1>1. IInv => UploadReadable
  <2> SUFFICES ASSUME IInv, NEW p \in Putter, result[p] \in Digest
               PROVE  IF kind[p] = "object"
                      THEN <<result[p], Reachable(dirs, result[p])>> \in objects
                      ELSE Reachable(dirs, result[p]) \subseteq stored
    BY Zenon DEF UploadReadable
  <2>1. GraphGood(p) /\ Externals(p) = {result[p]}
    BY Zenon DEF IInv, PInv
  <2>2. nodes[p] = Reachable(dirs, result[p])
    BY <2>1, GraphIsClosure, Zenon DEF IInv, ValidClosure
  <2>3. CASE kind[p] # "object"
    BY <2>2, <2>3, Zenon DEF IInv, PInv
  <2>4. CASE kind[p] = "object"
    <3>1. PICK o \in objects : o[1] = result[p]
      BY <2>4, Zenon DEF IInv, PInv
    <3>2. o[2] = Reachable(dirs, result[p]) /\ o = <<o[1], o[2]>>
      BY <3>1 DEF IInv, ObjectsComplete, ValidClosure, TypeOK
    <3> QED
      BY <2>4, <3>1, <3>2, Zenon
  <2> QED
    BY <2>3, <2>4, Zenon
<1> QED
  BY Invariance, <1>1, PTL

(* The store fed by putters implements ClosedStore: to its readers it only *)
(* grows, from one closed set of directories to the next.                  *)
THEOREM Refinement == ASSUME CallerGivesUp PROVE Spec => KeepsClosedStore
<1>1. Init => Abstract!Init
  BY Zenon DEF Init, Abstract!Init
<1>2. IInv /\ IInv' /\ [Next]_vars => [Abstract!Grow]_<<dirs, stored>>
  <2> SUFFICES ASSUME IInv, IInv', [Next]_vars PROVE [Abstract!Grow]_<<dirs, stored>>
    BY Zenon
  <2>1. dirs' = dirs /\ stored \subseteq stored'
    BY Zenon DEF Next, vars, put, close, BuildFails, SimpleClose, PutOne, PutOneFails, SimpleDone,
           RedbClose, ObjectHead, ObjectUpload, Crash
  <2>2. stored' \subseteq Digest /\ Closed(dirs, stored')
    BY <2>1, Zenon DEF IInv, TypeOK, StoreClosed
  <2> QED
    BY <2>1, <2>2, Zenon DEF Abstract!Grow, Abstract!Closed, Closed, Abstract!Children, Children
<1> QED
  BY <1>1, <1>2, Invariance, PTL DEF Spec, KeepsClosedStore, Abstract!Spec

=============================================================================
