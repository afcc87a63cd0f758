---------------------------- MODULE Directories ----------------------------
(***************************************************************************)
(* The part of the castore data model that the directory services compare: *)
(* a Directory is known by its digest, holds pointers (digest, size) to    *)
(* other directories in the order of their names, and has a size.  Files,  *)
(* symlinks and names are abstracted: no check in this layer reads them.   *)
(* Module DirectoryNode models how the size is computed.                   *)
(***************************************************************************)
EXTENDS Naturals, Sequences, FiniteSets, Functions

CONSTANTS
    Digest,
    Contents,       \* the assignments of directories to digests considered
    None            \* no digest

Pointer == [digest : Digest, size : Nat]
Directory == [pointers : Seq(Pointer), size : Nat]

Children(dir) == {dir.pointers[i].digest : i \in DOMAIN dir.pointers}

(* Every pointer of a member of S leads to a member of S. *)
Closed(dirs, S) == \A d \in S : Children(dirs[d]) \subseteq S

(* The directories a reader starting at r needs: those in every closed set *)
(* that contains r.                                                        *)
Reachable(dirs, r) ==
    {d \in Digest : \A T \in SUBSET Digest : r \in T /\ Closed(dirs, T) => d \in T}

(* No directory is below itself: a digest cannot be hashed into a content  *)
(* that it depends on.                                                     *)
Acyclic(dirs) ==
    \A d \in Digest : \A x \in Reachable(dirs, d) : d \notin Children(dirs[x])

ASSUME ContentsAssumption ==
    /\ Contents \subseteq [Digest -> Directory]
    /\ \A c \in Contents : Acyclic(c)
    /\ None \notin Digest

(* The size written next to a pointer is the size of its directory. *)
SizesAgree(dirs, S) ==
    \A d \in S : \A i \in DOMAIN dirs[d].pointers :
        dirs[d].pointers[i].size = dirs[dirs[d].pointers[i].digest].size

(* S is exactly what is below r, with nothing missing, nothing unrelated   *)
(* and no wrong size.                                                      *)
ValidClosure(dirs, S, r) ==
    r \in S /\ S = Reachable(dirs, r) /\ Closed(dirs, S) /\ SizesAgree(dirs, S)
-----------------------------------------------------------------------------
(* Small instances for model checking: digest n may only point to lower    *)
(* digests (a hash cannot refer to itself), has up to two pointers, and    *)
(* every pointer carries the right size or a wrong one.  A directory's     *)
(* size is 2 for each entry and the size of each pointer, as               *)
(* Directory::size() has it; each has a file of its own, so that different *)
(* digests have different contents.                                        *)
SizeOf(ptrs) == FoldFunction(LAMBDA p, sum : sum + 2 + p.size, 2, ptrs)
DirectoriesOver(lower) ==
    LET ptr == UNION {{[digest |-> d, size |-> lower[d].size + wrong] : wrong \in {0, 1}} :
                      d \in DOMAIN lower}
    IN {[pointers |-> ptrs, size |-> SizeOf(ptrs)] : ptrs \in UNION {[1 .. n -> ptr] : n \in 0 .. 2}}
Universe[n \in 0 .. 4] ==
    IF n = 0 THEN {<<>>}
    ELSE UNION {{Append(lower, dir) : dir \in DirectoriesOver(lower)} : lower \in Universe[n - 1]}

Three == 1 .. 3
ContentsOfThree == Universe[3]
OneTree == {u \in Universe[3] : \A d \in 1 .. 2 : \E x \in d + 1 .. 3 : d \in Children(u[x])}
Chains == {u \in Universe[3] : \A d \in 1 .. 3 : Len(u[d].pointers) <= 1}

(* Of four directories those with at most one wrong size.                  *)
Wrong(u) == {w \in (1 .. 4) \X (1 .. 2) :
               /\ w[2] \in DOMAIN u[w[1]].pointers
               /\ u[w[1]].pointers[w[2]].size # u[u[w[1]].pointers[w[2]].digest].size}
Four == 1 .. 4
ContentsOfFour == {u \in Universe[4] : Cardinality(Wrong(u)) <= 1}
-----------------------------------------------------------------------------
(* Facts about closures, for every set of digests and every content c.     *)

(* Pointers lead to digests. *)
LEMMA ContentIsTyped ==
    ASSUME NEW c \in [Digest -> Directory], NEW d \in Digest
    PROVE  /\ c[d].size \in Nat
           /\ \A i \in DOMAIN c[d].pointers : c[d].pointers[i] \in Pointer
           /\ Children(c[d]) \subseteq Digest
<1>1. c[d] \in Directory
  OBVIOUS
<1>2. c[d].size \in Nat /\ c[d].pointers \in Seq(Pointer)
  BY <1>1 DEF Directory
<1>3. \A i \in DOMAIN c[d].pointers : c[d].pointers[i] \in Pointer
  BY <1>2
<1> QED
  BY <1>2, <1>3 DEF Children, Pointer

(* What is below a directory begins with it, and is closed. *)
LEMMA ReachableRoot ==
    ASSUME NEW c, NEW r \in Digest
    PROVE  r \in Reachable(c, r)
  BY DEF Reachable

LEMMA ReachableStep ==
    ASSUME NEW c \in [Digest -> Directory], NEW r \in Digest, NEW d \in Reachable(c, r)
    PROVE  Children(c[d]) \subseteq Reachable(c, r)
<1> SUFFICES ASSUME NEW x \in Children(c[d]), NEW T \in SUBSET Digest,
                    r \in T, Closed(c, T)
             PROVE  x \in T
  BY ContentIsTyped DEF Reachable
<1>1. d \in T
  BY DEF Reachable
<1> QED
  BY <1>1 DEF Closed

LEMMA ReachableClosed ==
    ASSUME NEW c \in [Digest -> Directory], NEW r \in Digest
    PROVE  Closed(c, Reachable(c, r)) /\ Reachable(c, r) \subseteq Digest
<1>1. Reachable(c, r) \subseteq Digest
  BY DEF Reachable
<1> QED
  BY <1>1, ReachableStep DEF Closed

(* It is the least closed set with that directory in it. *)
LEMMA ReachableLeast ==
    ASSUME NEW c, NEW r, NEW S \in SUBSET Digest, r \in S, Closed(c, S)
    PROVE  Reachable(c, r) \subseteq S
  BY DEF Reachable

LEMMA ReachableBelow ==
    ASSUME NEW c \in [Digest -> Directory], NEW r \in Digest, NEW d \in Reachable(c, r)
    PROVE  Reachable(c, d) \subseteq Reachable(c, r)
  BY ReachableClosed, ReachableLeast

LEMMA ClosedUnion ==
    ASSUME NEW c, NEW S, NEW T, Closed(c, S), Closed(c, T)
    PROVE  Closed(c, S \cup T)
  BY DEF Closed

(* A list with one more directory at its end. *)
LEMMA RangeAppend ==
    ASSUME NEW S, NEW s \in Seq(S), NEW d \in S
    PROVE  /\ Append(s, d) \in Seq(S)
           /\ Range(Append(s, d)) = Range(s) \cup {d}
           /\ d \notin Range(s) /\ IsInjective(s) => IsInjective(Append(s, d))
<1>1. /\ Append(s, d) \in Seq(S)
      /\ DOMAIN Append(s, d) = 1 .. Len(s) + 1 /\ DOMAIN s = 1 .. Len(s) /\ Len(s) \in Nat
      /\ \A i \in 1 .. Len(s) : Append(s, d)[i] = s[i]
      /\ Append(s, d)[Len(s) + 1] = d
  OBVIOUS
<1>2. Range(Append(s, d)) = Range(s) \cup {d}
  <2>1. \A i \in 1 .. Len(s) + 1 : i \in 1 .. Len(s) \/ i = Len(s) + 1
    BY <1>1
  <2>2. Range(Append(s, d)) \subseteq Range(s) \cup {d}
    BY <1>1, <2>1 DEF Range
  <2>3. Range(s) \cup {d} \subseteq Range(Append(s, d))
    BY <1>1 DEF Range
  <2> QED
    BY <2>2, <2>3
<1>3. d \notin Range(s) /\ IsInjective(s) => IsInjective(Append(s, d))
  <2> SUFFICES ASSUME d \notin Range(s), IsInjective(s),
                      NEW i \in 1 .. Len(s) + 1, NEW j \in 1 .. Len(s) + 1,
                      Append(s, d)[i] = Append(s, d)[j]
               PROVE  i = j
    BY <1>1 DEF IsInjective
  <2>1. CASE i \in 1 .. Len(s) /\ j \in 1 .. Len(s)
    BY <1>1, <2>1 DEF IsInjective
  <2>2. CASE i = Len(s) + 1 /\ j \in 1 .. Len(s)
    BY <1>1, <2>2 DEF Range
  <2>3. CASE i \in 1 .. Len(s) /\ j = Len(s) + 1
    BY <1>1, <2>3 DEF Range
  <2> QED
    BY <1>1, <2>1, <2>2, <2>3
<1> QED
  BY <1>1, <1>2, <1>3

(* A breadth-first walk from r that has yielded the directories of s and   *)
(* has those of W still before it: what was yielded is complete but for W, *)
(* and what is in W is r or was found in something yielded.                *)
PartialWalk(c, r, W, s) ==
    /\ r \in Range(s) \/ (s = <<>> /\ W = {r})
    /\ Range(s) \cup W \subseteq Reachable(c, r)
    /\ \A x \in Range(s) : Children(c[x]) \subseteq Range(s) \cup W
    /\ \A d \in W : d = r \/ \E x \in Range(s) : d \in Children(c[x])
    /\ W \cap Range(s) = {}
    /\ IsInjective(s)

LEMMA WalkStarts ==
    ASSUME NEW c \in [Digest -> Directory], NEW r \in Digest
    PROVE  PartialWalk(c, r, {r}, <<>>) /\ Range(<<>>) = {}
<1>1. Range(<<>>) = {} /\ IsInjective(<<>>)
  BY DEF Range, IsInjective
<1> QED
  BY <1>1, ReachableRoot DEF PartialWalk

(* One directory off the worklist, its children onto it unless they were   *)
(* yielded.                                                                *)
LEMMA WalkStep ==
    ASSUME NEW c \in [Digest -> Directory], NEW r \in Digest, NEW W \in SUBSET Digest,
           NEW s \in Seq(Digest), PartialWalk(c, r, W, s), NEW d \in W
    PROVE  LET new == (W \ {d}) \cup (Children(c[d]) \ (Range(s) \cup {d}))
           IN new \in SUBSET Digest /\ PartialWalk(c, r, new, Append(s, d))
<1> DEFINE seen == Range(s)
           new == (W \ {d}) \cup (Children(c[d]) \ (seen \cup {d}))
<1>1. d \notin seen /\ IsInjective(s)
  BY DEF PartialWalk
<1>2. Range(Append(s, d)) = seen \cup {d} /\ IsInjective(Append(s, d))
  BY <1>1, RangeAppend
<1>3. new \in SUBSET Digest
  BY ContentIsTyped
<1>4. r \in seen \cup {d}
  BY DEF PartialWalk
<1>5. d \in Reachable(c, r) /\ Children(c[d]) \subseteq Reachable(c, r)
  BY ReachableStep DEF PartialWalk
<1>6. seen \cup {d} \cup new \subseteq Reachable(c, r)
  BY <1>5 DEF PartialWalk
<1>7. \A x \in seen \cup {d} : Children(c[x]) \subseteq seen \cup {d} \cup new
  BY DEF PartialWalk
<1>8. \A y \in new : y = r \/ \E x \in seen \cup {d} : y \in Children(c[x])
  BY DEF PartialWalk
<1>9. new \cap (seen \cup {d}) = {}
  BY DEF PartialWalk
<1>10. PartialWalk(c, r, new, Append(s, d))
  <2> HIDE DEF seen, new
  <2> QED
    BY <1>2, <1>4, <1>6, <1>7, <1>8, <1>9 DEF PartialWalk
<1> QED
  BY <1>3, <1>10

(* The worklist is empty: everything below the root has been yielded. *)
LEMMA WalkEnds ==
    ASSUME NEW c \in [Digest -> Directory], NEW r \in Digest, NEW s, PartialWalk(c, r, {}, s)
    PROVE  Range(s) = Reachable(c, r) /\ Closed(c, Range(s))
<1>1. r \in Range(s) /\ Range(s) \subseteq Reachable(c, r) /\ Closed(c, Range(s))
  BY DEF PartialWalk, Closed
<1>2. Range(s) \subseteq Digest
  BY <1>1 DEF Reachable
<1> QED
  BY <1>1, <1>2, ReachableLeast
=============================================================================
