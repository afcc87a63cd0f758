--------------------------- MODULE DirectoryNode ---------------------------
(***************************************************************************)
(* castore's Directory (nodes/directory.rs): a directory built entry by    *)
(* entry with add(), or decoded from a protobuf message (proto/mod.rs).    *)
(* A name is its rank in byte order; 0 is the empty name.  An entry keeps  *)
(* its type and, for a directory, the size next to its digest; digests,    *)
(* file sizes and targets are not compared here.  u64 is 0 .. MaxU64.      *)
(***************************************************************************)
EXTENDS Naturals, Sequences, FiniteSets, FiniteSetsExt

CONSTANTS
    MaxU64,
    ChildSizes,         \* sizes found next to child directories
    MaxName,            \* names are 0 .. MaxName
    BadNames,           \* names PathComponent does not take
    Messages,           \* the messages decoded
    OverflowChecks      \* arithmetic overflow panics (debug) or wraps (release)

VARIABLES
    nodes,      \* name -> node
    msg,        \* the message nodes were decoded from, <<>> when built by add()
    outcome     \* of the last operation

vars == <<nodes, msg, outcome>>

Name == 0 .. MaxName
ValidName == Name \ BadNames
Node == {[type |-> "directory", size |-> s] : s \in ChildSizes}
        \cup {[type |-> t, size |-> 0] : t \in {"file", "symlink"}}
Outcomes == {"ok", "SizeOverflow", "DuplicateName", "WrongSorting", "InvalidName", "panic"}

new == nodes = <<>> /\ msg = <<>> /\ outcome = "ok"

Sum(ns) == MapThenSumSet(LAMBDA n : 1 + ns[n].size, DOMAIN ns)

(* size() before it is cut to 64 bits. *)
RawSize(ns) == Cardinality(DOMAIN ns) + Sum(ns)

size(ns) == RawSize(ns) % (MaxU64 + 1)

(* The size is checked before the name. *)
check_insert_node(current, ns, name, node) ==
    IF current + 1 + node.size > MaxU64
    THEN [err |-> "SizeOverflow", nodes |-> ns, size |-> current]
    ELSE IF name \in DOMAIN ns
    THEN [err |-> "DuplicateName", nodes |-> ns, size |-> current]
    ELSE [err |-> "ok", nodes |-> [n \in DOMAIN ns \cup {name} |-> IF n = name THEN node ELSE ns[n]],
          size |-> current + 1 + node.size]

add(name, node) ==
    /\ msg = <<>> /\ outcome # "panic"
    /\ \/ /\ OverflowChecks /\ RawSize(nodes) > MaxU64
          /\ outcome' = "panic" /\ UNCHANGED nodes
       \/ /\ ~(OverflowChecks /\ RawSize(nodes) > MaxU64)
          /\ LET r == check_insert_node(size(nodes), nodes, name, node) IN
             outcome' = r.err /\ nodes' = r.nodes
    /\ UNCHANGED msg

-----------------------------------------------------------------------------
(* Messages: three lists of entries, <<name, node>>. *)

(* The entries folded through check_insert_node, counting from 0. *)
try_from_iter(elems) ==
    LET fold[i \in 0 .. Len(elems)] ==
            IF i = 0 THEN [err |-> "ok", nodes |-> <<>>, size |-> 0]
            ELSE IF fold[i - 1].err # "ok" THEN fold[i - 1]
            ELSE check_insert_node(fold[i - 1].size, fold[i - 1].nodes, elems[i][1], elems[i][2])
    IN fold[Len(elems)]

PrevName(list, i) == IF i = 1 THEN 0 ELSE list[i - 1][1]

(* The first entry whose name is not above the one before it. *)
SortError(list) ==
    LET bad == {i \in DOMAIN list : list[i][1] <= PrevName(list, i)}
        i == Min(bad)
    IN CASE bad = {} -> "ok"
         [] bad # {} /\ list[i][1] < PrevName(list, i) -> "WrongSorting"
         [] bad # {} /\ list[i][1] = PrevName(list, i) ->
                IF list[i][1] \in BadNames THEN "InvalidName" ELSE "DuplicateName"

FirstError(errs) ==
    IF \A i \in DOMAIN errs : errs[i] = "ok" THEN "ok"
    ELSE errs[Min({i \in DOMAIN errs : errs[i] # "ok"})]

(* TryFrom<proto::Directory>.  nodes is only there when err is "ok". *)
try_from(value) ==
    LET elems == value.directories \o value.files \o value.symlinks
        err == FirstError(<<SortError(value.directories), SortError(value.files),
                            SortError(value.symlinks),
                            IF \E i \in DOMAIN elems : elems[i][1] \in BadNames
                            THEN "InvalidName" ELSE "ok">>)
    IN IF err # "ok" THEN [err |-> err, nodes |-> <<>>, size |-> 0] ELSE try_from_iter(elems)

(* From<Directory>: into_nodes() yields in name order. *)
Listed(ns, type) ==
    LET names == {n \in DOMAIN ns : ns[n].type = type}
    IN [i \in 1 .. Cardinality(names) |->
          LET n == CHOOSE x \in names : Cardinality({y \in names : y <= x}) = i
          IN <<n, ns[n]>>]

from(ns) ==
    [directories |-> Listed(ns, "directory"), files |-> Listed(ns, "file"),
     symlinks |-> Listed(ns, "symlink")]

decode ==
    /\ nodes = <<>> /\ msg = <<>> /\ outcome = "ok"
    /\ \E value \in Messages :
          LET r == try_from(value) IN outcome' = r.err /\ nodes' = r.nodes /\ msg' = value

-----------------------------------------------------------------------------

Init == new

Next ==
    \/ \E name \in ValidName, node \in Node : add(name, node)
    \/ decode

Spec == Init /\ [][Next]_vars

TypeOK ==
    /\ DOMAIN nodes \subseteq ValidName
    /\ \A n \in DOMAIN nodes : nodes[n] \in Node
    /\ outcome \in Outcomes

Decoded == msg # <<>>

(* A message that decodes is the one encoding of the directory it decodes  *)
(* to: encoding it again gives the same bytes, hence the same digest.      *)
DecodedIsCanonical == Decoded /\ outcome = "ok" => from(nodes) = msg

(* A directory made with add() can be encoded, sent and decoded by a peer. *)
RoundTrip ==
    ~Decoded => LET r == try_from(from(nodes)) IN r.err = "ok" /\ r.nodes = nodes

(* A message is only refused when it is no directory's encoding, or when   *)
(* its sizes do not fit.                                                   *)
RefusesOnlyInvalid ==
    Decoded /\ outcome # "ok" =>
        \A S \in SUBSET ValidName : \A ns \in [S -> Node] :
            from(ns) = msg => Sum(ns) > MaxU64

(* "It's impossible to create a Directory where the size overflows,        *)
(* because we check before every add() that the size won't overflow."      *)
(* Does not hold: the check adds one per entry, size() adds two.           *)
SizeFits == RawSize(nodes) <= MaxU64
=============================================================================
