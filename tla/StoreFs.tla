------------------------------- MODULE StoreFs -------------------------------
(***************************************************************************)
(* SnixStoreFs (castore fs/mod.rs) with its InodeTracker                   *)
(* (fs/inode_tracker.rs, fs/inodes.rs) and RootNodes (fs/root_nodes.rs):   *)
(* worker threads serve requests of the kernel at the same time.  A        *)
(* request is cut where the code releases a lock or waits for a service.   *)
(*                                                                         *)
(* A node is [kind, key, x, size]: directory or blob digest or symlink     *)
(* target, the executable bit and the size it declares.  Attributes are    *)
(* the kind, the bit and the size.                                         *)
(***************************************************************************)
EXTENDS Naturals, Sequences, FiniteSets, TLC

CONSTANTS
    Roots,          \* sequence of [name, node]: what the provider lists
    Dirs,           \* digest -> sequence of [name, node]
    Missing,        \* digests the directory service does not have
    Names,          \* names the kernel asks for
    Thread,
    Sizes,          \* how many entries fit into a reply
    MaxHandles,     \* bound on handles
    MaxRequests     \* bound on requests

VARIABLES
    provided,       \* names in the root that exist by now
    data,           \* inode -> [node, populated, children: seq of [ino, name, node]]
    ino_of,         \* the three lookup tables: <<kind, key>> -> inode
    next_inode,
    root_nodes,     \* name -> inode
    dir_handles,    \* handle -> its stream: what it lists, and the last item it gave
    file_handles,   \* handle -> blob digest
    handles,        \* next_dir_handle, next_file_handle (one counter here)
    th,             \* thread -> the request it serves
    out,            \* thread -> the last answer
    known,          \* inodes the kernel has been given
    requests,       \* how many there have been
    listing         \* thread -> its walk through one directory

tracker == <<data, ino_of, next_inode>>
opened == <<dir_handles, file_handles, handles>>
vars == <<provided, tracker, root_nodes, opened, th, out, known, requests, listing>>

ROOT_ID == 1
With(f, k, v) == [x \in DOMAIN f \cup {k} |-> IF x = k THEN v ELSE f[x]]
Key(n) == <<n.kind, n.key>>
InodeData(n) == [node |-> n, populated |-> FALSE, children |-> <<>>]
Attr(d) == [kind |-> d.node.kind, x |-> d.node.x,
            size |-> IF d.populated THEN Len(d.children) ELSE d.node.size]
RootNames == {Roots[i].name : i \in DOMAIN Roots}
RootNode(name) == (CHOOSE i \in DOMAIN Roots : Roots[i].name = name)
Nodes == {Roots[i].node : i \in DOMAIN Roots}
         \cup UNION {{Dirs[d][i].node : i \in DOMAIN Dirs[d]} : d \in DOMAIN Dirs}

(* What a store holds: the names in its root differ, and a directory is    *)
(* either there or missing.  A reply has room for one entry at least.      *)
ASSUME StoreAssumption ==
    /\ Roots \in Seq({Roots[i] : i \in DOMAIN Roots})
    /\ \A d \in DOMAIN Dirs : Dirs[d] \in Seq({Dirs[d][i] : i \in DOMAIN Dirs[d]})
    /\ \A i, j \in DOMAIN Roots : Roots[i].name = Roots[j].name => i = j
    /\ \A n \in Nodes : n.kind = "dir" => n.key \in DOMAIN Dirs \cup Missing
    /\ Sizes \subseteq Nat \ {0}

Idle == [pc |-> "idle", op |-> "none", ino |-> 0, name |-> "", node |-> <<>>, handle |-> 0, left |-> 0]
Nothing == [what |-> "none", ino |-> 0]
NoListing == [ino |-> 0, handle |-> 0, names |-> <<>>, fresh |-> TRUE, end |-> FALSE]

Init ==
    /\ provided \in {{}, RootNames}
    /\ data = <<>> /\ ino_of = <<>> /\ next_inode = 2
    /\ root_nodes = <<>>
    /\ dir_handles = <<>> /\ file_handles = <<>> /\ handles = 1
    /\ th = [t \in Thread |-> Idle] /\ out = [t \in Thread |-> Nothing]
    /\ known = {ROOT_ID} /\ requests = 0 /\ listing = [t \in Thread |-> NoListing]

-----------------------------------------------------------------------------
(* InodeTracker.                                                           *)

insert_and_increment(tr, n) ==
    [data |-> With(tr.data, tr.next, InodeData(n)),
     ino_of |-> With(tr.ino_of, Key(n), tr.next),
     next |-> tr.next + 1]

put_Always(tr, n) == insert_and_increment(tr, n)
put(tr, n) == IF Key(n) \in DOMAIN tr.ino_of THEN tr ELSE insert_and_increment(tr, n)

replace(inodes, ino, children) ==
    [inodes EXCEPT ![ino] = [@ EXCEPT !.populated = TRUE, !.children = children]]

Tracker == [data |-> data, ino_of |-> ino_of, next |-> next_inode]
Becomes(tr) == data' = tr.data /\ ino_of' = tr.ino_of /\ next_inode' = tr.next

-----------------------------------------------------------------------------
(* Requests.                                                               *)

Starts(t) == th[t].pc = "idle" /\ requests < MaxRequests /\ requests' = requests + 1
Goes(t, pc) == th[t].pc = pc /\ UNCHANGED requests
Goto(t, r) == th' = [th EXCEPT ![t] = r]
Answer(t, a) == out' = [out EXCEPT ![t] = a] /\ th' = [th EXCEPT ![t].pc = "idle"]
Error(e) == [what |-> e, ino |-> 0]
quiet == <<provided, tracker, root_nodes, opened, listing>>

(* lookup(), with the beginning of name_in_root_to_ino_and_data() and of   *)
(* get_directory_children().                                               *)
Child(children, name) == {i \in DOMAIN children : children[i].name = name}

FoundOrNot(t, children, r) ==
    IF Child(children, r.name) = {} THEN Answer(t, Error("ENOENT"))
    ELSE \E i \in Child(children, r.name) :
            Goto(t, [r EXCEPT !.pc = "attr", !.left = children[i].ino]) /\ UNCHANGED out

lookup(t, parent, name) ==
    LET r == [Idle EXCEPT !.op = "lookup", !.ino = parent, !.name = name] IN
    /\ Starts(t) /\ parent \in known
    /\ IF parent = ROOT_ID
       THEN /\ Goto(t, IF name \in DOMAIN root_nodes
                       THEN [r EXCEPT !.pc = "attr", !.left = root_nodes[name]]
                       ELSE [r EXCEPT !.pc = "get_by_basename"])
            /\ UNCHANGED out
       ELSE IF data[parent].node.kind # "dir" THEN Answer(t, Error("ENOTDIR"))
       ELSE IF data[parent].populated THEN FoundOrNot(t, data[parent].children, r)
       ELSE Goto(t, [r EXCEPT !.pc = "get_directory"]) /\ UNCHANGED out
    /\ UNCHANGED <<quiet, known>>

(* name_in_root_to_ino_and_data(): the provider, a second look, and then   *)
(* both locks.                                                             *)
GetByBasename(t) ==
    /\ Goes(t, "get_by_basename")
    /\ \/ Answer(t, Error("EIO"))
       \/ th[t].name \notin provided /\ Answer(t, Error("ENOENT"))
       \/ th[t].name \in provided /\ Goto(t, [th[t] EXCEPT !.pc = "second_look"]) /\ UNCHANGED out
    /\ UNCHANGED <<quiet, known>>

SecondLook(t) ==
    /\ Goes(t, "second_look")
    /\ Goto(t, IF th[t].name \in DOMAIN root_nodes
               THEN [th[t] EXCEPT !.pc = "attr", !.left = root_nodes[th[t].name]]
               ELSE [th[t] EXCEPT !.pc = "insert_root"])
    /\ UNCHANGED <<quiet, out, known>>

InsertRoot(t) ==
    LET n == Roots[RootNode(th[t].name)].node
        tr == put(Tracker, n)
        ino == tr.ino_of[Key(n)]
    IN /\ Goes(t, "insert_root")
       /\ Becomes(tr)
       /\ root_nodes' = With(root_nodes, th[t].name, ino)
       /\ Goto(t, [th[t] EXCEPT !.pc = "attr", !.left = ino])
       /\ UNCHANGED <<provided, opened, out, known, listing>>

(* The answer has the attributes of what is stored for the inode. *)
LookupAttr(t) ==
    /\ Goes(t, "attr")
    /\ IF th[t].left \in DOMAIN data
       THEN /\ Answer(t, [what |-> "entry", ino |-> th[t].left, attr |-> Attr(data[th[t].left])])
            /\ known' = known \cup {th[t].left}
       ELSE Answer(t, Error("ENOENT")) /\ UNCHANGED known
    /\ UNCHANGED quiet

(* get_directory_children(): the directory comes without any lock held. *)
GetDirectory(t) ==
    /\ Goes(t, "get_directory")
    /\ \/ Answer(t, Error("EIO"))
       \/ /\ data[th[t].ino].node.key \notin Missing
          /\ Goto(t, [th[t] EXCEPT !.pc = "populate"]) /\ UNCHANGED out
    /\ UNCHANGED <<quiet, known>>

(* put() of one node after the other.  gave[ino] is the node for which ino *)
(* was given out: contents without an inode get the next ones in the order *)
(* in which they are first met.  There is just one way to do so.           *)
GivenOut(nodes, last) ==
    {gave \in [next_inode .. last -> DOMAIN nodes] :
        /\ \A a, b \in DOMAIN gave :
              a < b => gave[a] < gave[b] /\ Key(nodes[gave[a]].node) # Key(nodes[gave[b]].node)
        /\ \A a \in DOMAIN gave : Key(nodes[gave[a]].node) \notin DOMAIN ino_of
        /\ \A i \in DOMAIN nodes :
              \/ Key(nodes[i].node) \in DOMAIN ino_of
              \/ \E a \in DOMAIN gave : gave[a] <= i /\ Key(nodes[gave[a]].node) = Key(nodes[i].node)}

AfterPuts(nodes, gave, last) ==
    [data |-> [ino \in DOMAIN data \cup DOMAIN gave |->
                 IF ino \in DOMAIN data THEN data[ino] ELSE InodeData(nodes[gave[ino]].node)],
     ino_of |-> [k \in DOMAIN ino_of \cup {Key(nodes[i].node) : i \in DOMAIN nodes} |->
                 IF k \in DOMAIN ino_of THEN ino_of[k]
                 ELSE CHOOSE ino \in DOMAIN gave : Key(nodes[gave[ino]].node) = k],
     next |-> last + 1]

PutAll(nodes) ==
    UNION {{AfterPuts(nodes, gave, last) : gave \in GivenOut(nodes, last)} :
              last \in next_inode - 1 .. next_inode - 1 + Len(nodes)}

Populated(inos, nodes) ==
    [i \in DOMAIN nodes |-> [ino |-> inos[Key(nodes[i].node)], name |-> nodes[i].name, node |-> nodes[i].node]]

-----------------------------------------------------------------------------
(* opendir(), readdir(), readdirplus(), releasedir().  One call returns as *)
(* many entries as fit; the next one goes on at the offset of the last.    *)

(* The part of a directory's children that one reply takes, from where the *)
(* kernel is.                                                              *)
Reply(children, from, size) ==
    LET last == IF from + size > Len(children) THEN Len(children) ELSE from + size
    IN SubSeq(children, from + 1, last)

Took(l, entries) ==
    [l EXCEPT !.names = @ \o entries, !.fresh = FALSE, !.end = (entries = <<>>)]

GiveEntries(t, children, size) ==
    LET l == listing[t]
        entries == Reply(children, Len(l.names), size)
    IN /\ listing' = [listing EXCEPT ![t] = Took(l, entries)]
       /\ known' = known \cup {entries[i].ino : i \in DOMAIN entries}
       /\ Answer(t, [what |-> "entries", ino |-> l.ino])

Populate(t) ==
    LET r == th[t]
        nodes == Dirs[data[r.ino].node.key]
    IN /\ Goes(t, "populate")
       /\ \E tr \in PutAll(nodes) : LET children == Populated(tr.ino_of, nodes) IN
          /\ data' = replace(tr.data, r.ino, children)
          /\ ino_of' = tr.ino_of /\ next_inode' = tr.next
          /\ IF r.op = "lookup" THEN FoundOrNot(t, children, r) /\ UNCHANGED <<known, listing>>
             ELSE GiveEntries(t, children, r.left)
       /\ UNCHANGED <<provided, root_nodes, opened>>

opendir(t, ino) ==
    /\ Starts(t) /\ ino \in known /\ handles <= MaxHandles
    /\ listing[t].ino = 0
    /\ IF ino = ROOT_ID
       THEN /\ dir_handles' = With(dir_handles, handles, [lists |-> provided, last |-> 0])
            /\ handles' = handles + 1
            /\ listing' = [listing EXCEPT ![t] = [NoListing EXCEPT !.ino = ino, !.handle = handles]]
       ELSE /\ data[ino].node.kind = "dir"
            /\ listing' = [listing EXCEPT ![t] = [NoListing EXCEPT !.ino = ino]]
            /\ UNCHANGED <<dir_handles, handles>>
    /\ UNCHANGED <<provided, tracker, root_nodes, file_handles, th, out, known>>

readdir(t, size) ==
    LET l == listing[t]
        r == [Idle EXCEPT !.op = "readdir", !.ino = l.ino, !.handle = l.handle, !.left = size] IN
    /\ Starts(t) /\ l.ino # 0 /\ ~l.end
    /\ IF l.ino = ROOT_ID
       THEN /\ Goto(t, [r EXCEPT !.pc = "root_item"])
            /\ listing' = [listing EXCEPT ![t].fresh = TRUE]
            /\ UNCHANGED <<out, known>>
       ELSE IF data[l.ino].populated THEN GiveEntries(t, data[l.ino].children, size)
       ELSE Goto(t, [r EXCEPT !.pc = "get_directory"]) /\ UNCHANGED <<out, known, listing>>
    /\ UNCHANGED <<provided, tracker, root_nodes, opened>>

(* The root (list_root is set): the next item of the stream, which only    *)
(* this call has locked, and its inode if it has one.                      *)
Items(stream) == {i \in DOMAIN Roots : i > stream.last /\ Roots[i].name \in stream.lists}

RootItem(t) ==
    LET r == th[t]
        items == Items(dir_handles[r.handle]) IN
    /\ Goes(t, "root_item")
    /\ \/ Answer(t, Error("EIO")) /\ UNCHANGED <<dir_handles, listing>>
       \/ /\ items = {}
          /\ Answer(t, [what |-> "entries", ino |-> ROOT_ID])
          /\ listing' = [listing EXCEPT ![t].end = @ \/ listing[t].fresh]
          /\ UNCHANGED dir_handles
       \/ \E i \in items :
          /\ \A j \in items : i <= j
          /\ dir_handles' = [dir_handles EXCEPT ![r.handle].last = i]
          /\ LET item == [r EXCEPT !.name = Roots[i].name, !.node = Roots[i].node] IN
             Goto(t, IF Roots[i].name \in DOMAIN root_nodes
                     THEN [item EXCEPT !.pc = "add_entry", !.ino = root_nodes[Roots[i].name]]
                     ELSE [item EXCEPT !.pc = "root_put"])
          /\ UNCHANGED <<out, listing>>
    /\ UNCHANGED <<provided, tracker, root_nodes, file_handles, handles, known>>

RootPut(t) ==
    LET tr == put(Tracker, th[t].node) IN
    /\ Goes(t, "root_put")
    /\ Becomes(tr)
    /\ Goto(t, [th[t] EXCEPT !.pc = "root_insert", !.ino = tr.ino_of[Key(th[t].node)]])
    /\ UNCHANGED <<provided, root_nodes, opened, out, known, listing>>

RootInsert_Replaces(t) ==
    /\ Goes(t, "root_insert")
    /\ root_nodes' = With(<<>>, th[t].name, th[t].ino)
    /\ Goto(t, [th[t] EXCEPT !.pc = "add_entry"])
    /\ UNCHANGED <<provided, tracker, opened, out, known, listing>>

RootInsert(t) ==
    /\ Goes(t, "root_insert")
    /\ root_nodes' = With(root_nodes, th[t].name, th[t].ino)
    /\ Goto(t, [th[t] EXCEPT !.pc = "add_entry"])
    /\ UNCHANGED <<provided, tracker, opened, out, known, listing>>

(* add_entry() answers 0 when the buffer is full, and the loop ends. *)
RootAddEntry(t) ==
    LET r == th[t]
        e == [ino |-> r.ino, name |-> r.name, node |-> r.node] IN
    /\ Goes(t, "add_entry")
    /\ IF r.left = 0
       THEN Answer(t, [what |-> "entries", ino |-> ROOT_ID]) /\ UNCHANGED <<known, listing>>
       ELSE /\ listing' = [listing EXCEPT ![t].names = Append(@, e), ![t].fresh = FALSE]
            /\ known' = known \cup {e.ino}
            /\ Goto(t, [r EXCEPT !.pc = "root_item", !.left = r.left - 1]) /\ UNCHANGED out
    /\ UNCHANGED <<provided, tracker, root_nodes, opened>>

releasedir(t) ==
    /\ Starts(t) /\ listing[t].ino # 0
    /\ dir_handles' = [h \in DOMAIN dir_handles \ {listing[t].handle} |-> dir_handles[h]]
    /\ listing' = [listing EXCEPT ![t] = NoListing]
    /\ UNCHANGED <<provided, tracker, root_nodes, file_handles, handles, th, out, known>>

-----------------------------------------------------------------------------
(* open(), read(), release(), and what only looks at an inode.  Taking the *)
(* data of an unknown inode is an unwrap() in open() and readlink().       *)

Looks(t, ino, a) ==
    /\ Starts(t) /\ ino \in known
    /\ Answer(t, a)
    /\ UNCHANGED <<provided, tracker, root_nodes, opened, known, listing>>

getattr(t, ino) ==
    Looks(t, ino, IF ino = ROOT_ID THEN [what |-> "attr", ino |-> ino, attr |-> [kind |-> "dir", x |-> FALSE, size |-> 0]]
                  ELSE IF ino \notin DOMAIN data THEN Error("ENOENT")
                  ELSE [what |-> "attr", ino |-> ino, attr |-> Attr(data[ino])])

readlink(t, ino) ==
    Looks(t, ino, IF ino = ROOT_ID THEN Error("ENOSYS")
                  ELSE IF ino \notin DOMAIN data THEN Error("panic")
                  ELSE IF data[ino].node.kind # "symlink" THEN Error("EINVAL")
                  ELSE [what |-> "target", ino |-> ino, key |-> data[ino].node.key])

getxattr(t, ino, kind) ==
    Looks(t, ino, IF ino \notin DOMAIN data THEN Error("ENODATA")
                  ELSE IF data[ino].node.kind # kind THEN Error("ENODATA")
                  ELSE [what |-> "digest", ino |-> ino, key |-> data[ino].node.key])

listxattr(t, ino) ==
    Looks(t, ino, [what |-> "xattrs", ino |-> ino,
                   key |-> IF ino \notin DOMAIN data THEN "none" ELSE data[ino].node.kind])

open(t, ino) ==
    /\ Starts(t) /\ ino \in known /\ handles <= MaxHandles
    /\ IF ino = ROOT_ID THEN Answer(t, Error("ENOSYS")) /\ UNCHANGED <<file_handles, handles>>
       ELSE IF ino \notin DOMAIN data THEN Answer(t, Error("panic")) /\ UNCHANGED <<file_handles, handles>>
       ELSE IF data[ino].node.kind # "file" THEN Answer(t, Error("EISDIR")) /\ UNCHANGED <<file_handles, handles>>
       ELSE \/ Answer(t, Error("EIO")) /\ UNCHANGED <<file_handles, handles>>
            \/ /\ file_handles' = With(file_handles, handles, [ino |-> ino, key |-> data[ino].node.key])
               /\ handles' = handles + 1
               /\ Answer(t, [what |-> "opened", ino |-> ino])
    /\ UNCHANGED <<provided, tracker, root_nodes, dir_handles, known, listing>>

read(t, h) ==
    /\ Starts(t) /\ h \in DOMAIN file_handles
    /\ Answer(t, [what |-> "read", ino |-> file_handles[h].ino, key |-> file_handles[h].key])
    /\ UNCHANGED <<provided, tracker, root_nodes, opened, known, listing>>

release(t, h) ==
    /\ Starts(t) /\ h \in DOMAIN file_handles
    /\ file_handles' = [g \in DOMAIN file_handles \ {h} |-> file_handles[g]]
    /\ UNCHANGED <<provided, tracker, root_nodes, dir_handles, handles, th, out, known, listing>>

RootAppears ==
    /\ \E n \in RootNames \ provided : provided' = provided \cup {n}
    /\ UNCHANGED <<tracker, root_nodes, opened, th, out, known, requests, listing>>

Steps(t) == \/ GetByBasename(t) \/ SecondLook(t) \/ InsertRoot(t) \/ LookupAttr(t)
            \/ GetDirectory(t) \/ Populate(t)
            \/ RootItem(t) \/ RootPut(t) \/ RootInsert(t) \/ RootAddEntry(t)

Next ==
    \/ RootAppears
    \/ \E t \in Thread :
        \/ Steps(t) \/ releasedir(t) \/ \E n \in Sizes : readdir(t, n)
        \/ \E ino \in known : \/ opendir(t, ino) \/ getattr(t, ino) \/ readlink(t, ino) \/ listxattr(t, ino)
                              \/ open(t, ino)
                              \/ \E k \in {"dir", "file"} : getxattr(t, ino, k)
                              \/ \E n \in Names : lookup(t, ino, n)
        \/ \E h \in DOMAIN file_handles : read(t, h) \/ release(t, h)

Spec == Init /\ [][Next]_vars

-----------------------------------------------------------------------------

TypeOK ==
    /\ DOMAIN data \subseteq 2 .. next_inode - 1
    /\ DOMAIN root_nodes \subseteq RootNames
    /\ DOMAIN file_handles \cup DOMAIN dir_handles \subseteq 1 .. handles - 1
    /\ \A ino \in DOMAIN data : data[ino].populated \in BOOLEAN

(* The unwrap()s, "must exist" and "replace called on unknown inode" never *)
(* panic: an inode that the kernel knows, a root name maps to, a populated *)
(* directory lists, or a thread is about to populate, has its data.        *)
KnownInodes ==
    /\ known \subseteq {ROOT_ID} \cup DOMAIN data
    /\ \A n \in DOMAIN root_nodes : root_nodes[n] \in DOMAIN data
    /\ \A ino \in DOMAIN data : \A i \in DOMAIN data[ino].children : data[ino].children[i].ino \in DOMAIN data
    /\ \A t \in Thread : th[t].pc = "populate" => th[t].ino \in DOMAIN data
    /\ \A t \in Thread : out[t].what # "panic"

(* "we need to have a stable mapping of inode numbers": contents keep      *)
(* their inode and an inode its contents, whichever requests race.         *)
KeepsInodes ==
    /\ \A ino \in DOMAIN data : ino \in DOMAIN data' /\ Key(data'[ino].node) = Key(data[ino].node)
                                /\ (data[ino].populated => data'[ino] = data[ino])
    /\ \A n \in DOMAIN root_nodes : n \in DOMAIN root_nodes' /\ root_nodes'[n] = root_nodes[n]
InodesStable == [][KeepsInodes]_vars

(* "Things pointing to the same contents get the same inodes": and things  *)
(* of different contents different ones.                                   *)
OneInodePerContents ==
    \A i, j \in DOMAIN data : Key(data[i].node) = Key(data[j].node) => i = j

(* lookup() answers with the inode of the node of that name in that        *)
(* directory, however the directory was populated meanwhile.               *)
LookupFinds ==
    \A t \in Thread : out[t].what = "entry" /\ th[t].op = "lookup" /\ th[t].pc = "idle" =>
        LET here == IF th[t].ino = ROOT_ID THEN Roots ELSE Dirs[data[th[t].ino].node.key] IN
        \E i \in DOMAIN here : here[i].name = th[t].name /\ Key(here[i].node) = Key(data[out[t].ino].node)

(* Walking a directory with any buffer sizes yields every child once, in   *)
(* order, with the inode lookup() answers.                                 *)
ListingComplete ==
    \A t \in Thread : LET l == listing[t] IN
        l.end /\ l.ino # ROOT_ID =>
            LET here == Dirs[data[l.ino].node.key] IN
            /\ [i \in DOMAIN l.names |-> l.names[i].name] = [i \in DOMAIN here |-> here[i].name]
            /\ \A i \in DOMAIN here : Key(data[l.names[i].ino].node) = Key(here[i].node)

(* Attributes that lookup() and getattr() have answered stay those of what *)
(* is stored for the inode, also if other threads have populated it since, *)
(* and readdirplus(), which answers from the node, agrees with them.  The  *)
(* size of a directory is excepted: it is the one in its node, and once    *)
(* its children are known it is their number for lookup() and getattr().   *)
(* readdirplus() agrees as long as nodes with equal contents are equal:    *)
(* otherwise the one seen first decides for lookup() and getattr().        *)
Fits(attr, d) ==
    /\ attr.kind = d.node.kind /\ attr.x = d.node.x
    /\ \/ attr.size = d.node.size
       \/ d.populated /\ d.node.kind = "dir" /\ attr.size = Len(Dirs[d.node.key])
NodesAgree ==
    \A m, n \in Nodes : Key(m) = Key(n) => m = n
AttributesAgree == \A t \in Thread :
    /\ out[t].what \in {"entry", "attr"} /\ out[t].ino # ROOT_ID => Fits(out[t].attr, data[out[t].ino])
    /\ NodesAgree => \A i \in DOMAIN listing[t].names :
          LET c == listing[t].names[i] IN Fits(Attr(InodeData(c.node)), data[c.ino])

(* All that the kernel can rely on, however its requests race: every inode *)
(* it was told of is known, contents have one inode, lookup() finds what   *)
(* the directory has, a directory read in pieces is complete, and lookup() *)
(* getattr() and readdirplus() agree on all but a directory's size.        *)
InodesCoherent ==
    /\ KnownInodes
    /\ OneInodePerContents
    /\ LookupFinds
    /\ ListingComplete
    /\ AttributesAgree

-----------------------------------------------------------------------------
(* A small store: a file's contents are met in the root, and in a nested   *)
(* directory, beside a link to a target that is written like its digest.   *)
(* The outer directory has two children, and three things below it.        *)

Node(kind, key, size) == [kind |-> kind, key |-> key, x |-> FALSE, size |-> size]
FewRoots ==
    << [name |-> "r", node |-> Node("dir", "d1", 3)], [name |-> "s", node |-> Node("file", "b1", 1)] >>
FewDirs ==
    "d1" :> << [name |-> "a", node |-> Node("dir", "d2", 1)], [name |-> "c", node |-> Node("symlink", "b1", 2)] >>
    @@ "d2" :> << [name |-> "a", node |-> Node("file", "b1", 1)] >>
Symmetry == Permutations(Thread)

=============================================================================
