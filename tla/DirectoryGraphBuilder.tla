----------------------- MODULE DirectoryGraphBuilder -----------------------
(***************************************************************************)
(* DirectoryGraphBuilder (castore directoryservice/directory_graph.rs) in  *)
(* both insertion orders.  Every putter collects an upload in one, and the *)
(* cache collects what it fetches in one.                                  *)
(*                                                                         *)
(* digest_to_node_idx_size is not a variable of its own: its keys are the  *)
(* nodes, its indices their positions, its sizes the sizes of directories. *)
(* Parallel edges are one edge: neither externals() nor a traversal counts *)
(* them.                                                                   *)
(***************************************************************************)
EXTENDS Directories, SequencesExt

VARIABLES
    dirs,               \* what each digest hashes; fixed
    insertion_order,
    exp_root_digest,
    root,               \* the root digest asked for (RootToLeaves); fixed
    nodes,              \* graph nodes, in order of insertion
    edges,              \* graph edges <<parent, child>>
    rtl_edges_todo,     \* digest -> [size, from]: edges to nodes not yet there
    rejected,           \* some try_insert has returned an error
    outcome             \* "open", or what build() or a panic ended with

builder == <<insertion_order, exp_root_digest, nodes, edges, rtl_edges_todo>>
vars == <<dirs, insertion_order, exp_root_digest, root, nodes, edges,
          rtl_edges_todo, rejected, outcome>>

Outcomes == {"open", "ok", "EmptySet", "DirectoriesMissing", "panic"}

new_leaves_to_root ==
    insertion_order = "LeavesToRoot" /\ exp_root_digest = None

new_root_to_leaves(r) ==
    insertion_order = "RootToLeaves" /\ exp_root_digest = r

Init ==
    /\ dirs \in Contents
    /\ \/ new_leaves_to_root
       \/ \E r \in Digest : new_root_to_leaves(r)
    /\ root = exp_root_digest
    /\ nodes = <<>>
    /\ edges = {}
    /\ rtl_edges_todo = <<>>
    /\ rejected = FALSE
    /\ outcome = "open"

Known == Range(nodes)

(* The pointers of d are looked at in name order until one is refused:     *)
(* Refused(d, todo, i) says that pointer i is, given the edges still to do *)
(* when d's own entry has been popped.  A pointer to a digest not seen yet *)
(* must agree with the size of the first pointer to it, which may be an    *)
(* earlier one of d itself.                                                *)
FirstTo(ptrs, c) ==
    CHOOSE j \in DOMAIN ptrs : ptrs[j].digest = c
                               /\ \A k \in 1 .. j - 1 : ptrs[k].digest # c

ExpectedSize(d, todo, c) ==
    IF c \in Known \cup {d} THEN dirs[c].size
    ELSE IF c \in DOMAIN todo THEN todo[c].size
    ELSE dirs[d].pointers[FirstTo(dirs[d].pointers, c)].size

Refused_NoSize(d, todo, i) ==
    insertion_order = "LeavesToRoot"
    /\ dirs[d].pointers[i].digest \notin Known \cup {d}

Refused(d, todo, i) ==
    LET p == dirs[d].pointers[i] IN
    \/ p.size # ExpectedSize(d, todo, p.digest)
    \/ insertion_order = "LeavesToRoot" /\ p.digest \notin Known \cup {d}

(* Draws an edge for each of the pointers in S to a directory already      *)
(* there, and remembers the others.                                        *)
DrawEdges(d, S, drawn, todo) ==
    LET to == {dirs[d].pointers[i].digest : i \in S}
        later == to \ (Known \cup {d})
    IN
    /\ edges' = drawn \cup ({d} \X (to \cap (Known \cup {d})))
    /\ rtl_edges_todo' =
         [c \in DOMAIN todo \cup later |->
            [size |-> IF c \in DOMAIN todo THEN todo[c].size
                      ELSE ExpectedSize(d, todo, c),
             from |-> (IF c \in DOMAIN todo THEN todo[c].from ELSE {})
                      \cup (IF c \in later THEN {d} ELSE {})]]

(* The loop over the outgoing pointers; an error leaves the edges drawn so *)
(* far, and the node, in the graph.                                        *)
LookAtOutgoing(d, drawn, todo) ==
    LET all == DOMAIN dirs[d].pointers
        bad == {i \in all : Refused(d, todo, i)}
    IN \/ /\ bad = {}
          /\ DrawEdges(d, all, drawn, todo)
          /\ UNCHANGED rejected
       \/ /\ \E i \in bad :
                /\ \A j \in 1 .. i - 1 : j \notin bad
                /\ DrawEdges(d, 1 .. i - 1, drawn, todo)
          /\ rejected' = TRUE

Fail == rejected' = TRUE /\ UNCHANGED edges

InsertRoot(d) ==
    /\ nodes = <<>>
    /\ exp_root_digest' = None
    /\ IF d # exp_root_digest
       THEN Fail /\ UNCHANGED rtl_edges_todo
       ELSE LookAtOutgoing(d, edges, rtl_edges_todo)

InsertBelow(d) ==
    /\ nodes # <<>>
    /\ UNCHANGED exp_root_digest
    /\ IF d \notin DOMAIN rtl_edges_todo
       THEN Fail /\ UNCHANGED rtl_edges_todo
       ELSE LET todo == [c \in DOMAIN rtl_edges_todo \ {d} |-> rtl_edges_todo[c]] IN
            IF rtl_edges_todo[d].size # dirs[d].size
            THEN Fail /\ rtl_edges_todo' = todo
            ELSE LookAtOutgoing(d, edges \cup (rtl_edges_todo[d].from \X {d}), todo)

InsertLeavesFirst(d) ==
    /\ UNCHANGED exp_root_digest
    /\ LookAtOutgoing(d, edges, rtl_edges_todo)

(* A directory received before is Ok without a look at it. *)
try_insert(d) ==
    /\ outcome = "open"
    /\ \/ d \in Known /\ UNCHANGED vars
       \/ /\ d \notin Known
          /\ nodes' = Append(nodes, d)
          /\ IF insertion_order = "RootToLeaves" THEN InsertRoot(d) \/ InsertBelow(d)
             ELSE InsertLeavesFirst(d)
          /\ UNCHANGED <<dirs, root, insertion_order, outcome>>

(* externals(Incoming): the nodes nobody points to. *)
Externals == {d \in Known : \A e \in edges : e[2] # d}

(* "panic" is the debug_assert of the RootToLeaves case. *)
build ==
    /\ outcome = "open"
    /\ outcome' =
         IF insertion_order = "RootToLeaves"
         THEN CASE nodes = <<>> -> "EmptySet"
                [] nodes # <<>> /\ DOMAIN rtl_edges_todo # {} -> "DirectoriesMissing"
                [] OTHER -> IF \E d \in Known : Externals = {d} THEN "ok" ELSE "panic"
         ELSE CASE Externals = {} -> "EmptySet"
                [] \E d \in Known : Externals = {d} -> "ok"
                [] OTHER -> "DirectoriesMissing"
    /\ UNCHANGED <<dirs, root, rejected, builder>>

Next == build \/ \E d \in Digest : try_insert(d)

Spec == Init /\ [][Next]_vars

(* root_idx of the DirectoryGraph that build() returns. *)
RootOfGraph ==
    IF insertion_order = "RootToLeaves" THEN nodes[1]
    ELSE CHOOSE d \in Known : Externals = {d}

-----------------------------------------------------------------------------

TypeOK ==
    /\ dirs \in [Digest -> Directory]
    /\ insertion_order \in {"RootToLeaves", "LeavesToRoot"}
    /\ exp_root_digest \in Digest \cup {None}
    /\ root \in Digest \cup {None}
    /\ nodes \in Seq(Digest)
    /\ edges \subseteq Known \X Known
    /\ DOMAIN rtl_edges_todo \subseteq Digest \ Known
    /\ \A c \in DOMAIN rtl_edges_todo : rtl_edges_todo[c].from \subseteq Known
    /\ rejected \in BOOLEAN
    /\ outcome \in Outcomes

(* A graph built from an upload in which nothing was refused is exactly    *)
(* the closure of its root, and every pointer in it carries the size of    *)
(* the directory it leads to: "insertion order, completeness,              *)
(* connectivity, correct sizes referenced".                                *)
BuiltClosure ==
    outcome = "ok" /\ ~rejected => ValidClosure(dirs, Known, RootOfGraph)

(* build() reports missing directories only for an incomplete set. *)
BuildComplete ==
    outcome = "DirectoriesMissing" /\ ~rejected =>
        \A r \in Known : ~ValidClosure(dirs, Known, r)

(* The edges of a built graph are the pointers of its directories, so that *)
(* draining it from the root meets every directory, children first in the  *)
(* leaves-to-root order.                                                   *)
BuiltEdges ==
    outcome = "ok" /\ ~rejected =>
        edges = {e \in Known \X Known : e[2] \in Children(dirs[e[1]])}

(* In root-to-leaves order the graph is the one asked for, and the         *)
(* debug_assert in build() that one node has no parent does not fire.      *)
RootAsAsked ==
    insertion_order = "RootToLeaves" /\ ~rejected =>
        outcome # "panic" /\ (outcome = "ok" => RootOfGraph = root)
=============================================================================
