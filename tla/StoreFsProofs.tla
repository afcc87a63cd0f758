---------------------------- MODULE StoreFsProofs ----------------------------
(***************************************************************************)
(* What SnixStoreFs promises the kernel, for every store, every number of  *)
(* threads and requests, and every size of a reply: inodes are coherent    *)
(* and stable.                                                             *)
(***************************************************************************)
EXTENDS StoreFs, TLAPS

-----------------------------------------------------------------------------
(* The inductive invariant.                                                *)

AllNames == RootNames \cup UNION {{Dirs[d][i].name : i \in DOMAIN Dirs[d]} : d \in DOMAIN Dirs}
Entries == [ino : Nat, name : AllNames, node : Nodes]

(* The data and the lookup tables of a tracker are each other's inverse,   *)
(* and every inode has been given out.                                     *)
TrackerOK(d, o, n) ==
    /\ n \in Nat \ {0, 1}
    /\ DOMAIN d \subseteq 2 .. n - 1
    /\ \A ino \in DOMAIN d :
          /\ d[ino] \in [node : Nodes, populated : BOOLEAN, children : Seq(Entries)]
          /\ Key(d[ino].node) \in DOMAIN o
          /\ o[Key(d[ino].node)] = ino
    /\ \A k \in DOMAIN o : o[k] \in DOMAIN d /\ Key(d[o[k]].node) = k

(* A populated directory has just its nodes for children, each with the    *)
(* inode of its contents.                                                  *)
HasInodes(o, nodes) == \A i \in DOMAIN nodes : Key(nodes[i].node) \in DOMAIN o
PopulatedOK(d, o) ==
    \A ino \in DOMAIN d :
        IF d[ino].populated
        THEN /\ d[ino].node.kind = "dir" /\ d[ino].node.key \in DOMAIN Dirs
             /\ HasInodes(o, Dirs[d[ino].node.key])
             /\ d[ino].children = Populated(o, Dirs[d[ino].node.key])
        ELSE d[ino].children = <<>>

(* Inode ino is the one of contents n. *)
Stands(ino, n) == ino \in DOMAIN data /\ Key(data[ino].node) = Key(n)

RootInv ==
    /\ provided \subseteq RootNames
    /\ \A n \in DOMAIN root_nodes : n \in RootNames /\ Stands(root_nodes[n], Roots[RootNode(n)].node)

HandlesInv ==
    handles \in Nat \ {0} /\ DOMAIN file_handles \cup DOMAIN dir_handles \subseteq 1 .. handles - 1

IsDir(ino) == ino \in DOMAIN data /\ data[ino].node.kind = "dir"

(* ino is what directory parent has under that name. *)
Found(parent, name, ino) ==
    \/ parent = ROOT_ID /\ \E i \in DOMAIN Roots : Roots[i].name = name /\ Stands(ino, Roots[i].node)
    \/ /\ IsDir(parent)
       /\ \E i \in DOMAIN Dirs[data[parent].node.key] : LET e == Dirs[data[parent].node.key][i] IN
             e.name = name /\ Stands(ino, e.node)

Pcs == {"idle", "attr", "get_by_basename", "second_look", "insert_root", "get_directory", "populate",
        "root_item", "root_put", "root_insert", "add_entry"}

Fields == {"pc", "op", "ino", "name", "node", "handle", "left"}

(* What a thread carries from one lock to the next is still true. *)
RequestInv(t) == LET r == th[t] IN
    /\ DOMAIN r = Fields
    /\ r.pc \in Pcs
    /\ r.pc \in {"get_by_basename", "second_look", "insert_root"} => r.op = "lookup" /\ r.ino = ROOT_ID
    /\ r.pc \in {"second_look", "insert_root"} => r.name \in RootNames
    /\ r.pc = "attr" => r.op = "lookup" /\ Found(r.ino, r.name, r.left)
    /\ r.pc \in {"get_directory", "populate"} =>
          /\ IsDir(r.ino)
          /\ r.op # "lookup" => r.ino = listing[t].ino /\ r.left \in Nat \ {0} /\ ~listing[t].end
    /\ r.pc = "populate" => data[r.ino].node.key \notin Missing
    /\ r.pc \in {"root_item", "root_put", "root_insert", "add_entry"} =>
          r.op = "readdir" /\ listing[t].ino = ROOT_ID /\ r.left \in Nat
    /\ r.pc \in {"root_put", "root_insert", "add_entry"} =>
          \E i \in DOMAIN Roots : Roots[i].name = r.name /\ Roots[i].node = r.node
    /\ r.pc \in {"root_insert", "add_entry"} => Stands(r.ino, r.node)

(* The attributes in an answer are still those of the inode. *)
Describes(a, d) == a.what \in {"entry", "attr"} /\ a.ino # ROOT_ID => a.ino \in DOMAIN d /\ Fits(a.attr, d[a.ino])

AnswerInv(t) ==
    /\ out[t].what # "panic"
    /\ Describes(out[t], data)
    /\ out[t].what = "entry" /\ th[t].op = "lookup" /\ th[t].pc = "idle" => Found(th[t].ino, th[t].name, out[t].ino)

(* A walk has taken the first children of its directory, all at its end. *)
ListingInv(t) == LET l == listing[t] IN
    /\ DOMAIN l = {"ino", "handle", "names", "fresh", "end"}
    /\ l.fresh \in BOOLEAN /\ l.end \in BOOLEAN
    /\ l.names \in Seq(Entries)
    /\ \A i \in DOMAIN l.names : Stands(l.names[i].ino, l.names[i].node)
    /\ l.ino = 0 => ~l.end
    /\ l.ino \notin {0, ROOT_ID} =>
          /\ IsDir(l.ino)
          /\ IF data[l.ino].populated
             THEN LET c == data[l.ino].children IN
                  /\ Len(l.names) <= Len(c) /\ l.names = SubSeq(c, 1, Len(l.names))
                  /\ l.end => Len(l.names) = Len(c)
             ELSE l.names = <<>> /\ ~l.end

IInv ==
    /\ TrackerOK(data, ino_of, next_inode) /\ PopulatedOK(data, ino_of)
    /\ RootInv /\ HandlesInv
    /\ known \subseteq {ROOT_ID} \cup DOMAIN data
    /\ th = [t \in Thread |-> th[t]] /\ out = [t \in Thread |-> out[t]]
    /\ listing = [t \in Thread |-> listing[t]]
    /\ \A t \in Thread : RequestInv(t) /\ AnswerInv(t) /\ ListingInv(t)

-----------------------------------------------------------------------------
(* The tracker: what a tracker keeps when it grows.                        *)

Extends(d, o, d2, o2) ==
    /\ \A ino \in DOMAIN d : /\ ino \in DOMAIN d2 /\ d2[ino].node = d[ino].node
                             /\ d[ino].populated => d2[ino] = d[ino]
    /\ \A k \in DOMAIN o : k \in DOMAIN o2 /\ o2[k] = o[k]

(* Contents have the inodes they had when a table has grown. *)
LEMMA SamePopulated ==
    ASSUME NEW o, NEW o2, NEW nodes, HasInodes(o, nodes),
           \A k \in DOMAIN o : k \in DOMAIN o2 /\ o2[k] = o[k]
    PROVE  HasInodes(o2, nodes) /\ Populated(o2, nodes) = Populated(o, nodes)
BY Zenon DEF HasInodes, Populated

(* New inodes above all others, one for each of some new contents. *)
LEMMA AddInodes ==
    ASSUME NEW d, NEW o, NEW n, NEW d2, NEW o2, NEW n2,
           TrackerOK(d, o, n), PopulatedOK(d, o),
           n2 \in Nat, n2 >= n,
           \A ino \in DOMAIN d : ino \in DOMAIN d2 /\ d2[ino] = d[ino],
           \A ino \in DOMAIN d2 \ DOMAIN d :
              /\ ino \in n .. n2 - 1
              /\ \E m \in Nodes : /\ d2[ino] = InodeData(m)
                                 /\ Key(m) \in DOMAIN o2 /\ o2[Key(m)] = ino,
           \A k \in DOMAIN o : k \in DOMAIN o2 /\ o2[k] = o[k],
           \A k \in DOMAIN o2 \ DOMAIN o : o2[k] \in DOMAIN d2 /\ Key(d2[o2[k]].node) = k
    PROVE  TrackerOK(d2, o2, n2) /\ PopulatedOK(d2, o2) /\ Extends(d, o, d2, o2)
<1>1. \A ino \in DOMAIN d2 \ DOMAIN d :
         /\ d2[ino] \in [node : Nodes, populated : BOOLEAN, children : Seq(Entries)]
         /\ d2[ino].populated = FALSE /\ d2[ino].children = <<>>
         /\ Key(d2[ino].node) \in DOMAIN o2
         /\ o2[Key(d2[ino].node)] = ino
  <2> TAKE ino \in DOMAIN d2 \ DOMAIN d
  <2>1. PICK m \in Nodes : d2[ino] = InodeData(m) /\ Key(m) \in DOMAIN o2 /\ o2[Key(m)] = ino
    BY Zenon
  <2>2. d2[ino].node = m /\ d2[ino].populated = FALSE /\ d2[ino].children = <<>>
    BY <2>1 DEF InodeData
  <2>3. InodeData(m) \in [node : Nodes, populated : BOOLEAN, children : Seq(Entries)]
    BY <2>1 DEF InodeData
  <2> QED  BY <2>1, <2>2, <2>3, Zenon
<1>2. TrackerOK(d2, o2, n2)
  <2>1. n2 \in Nat \ {0, 1} /\ DOMAIN d2 \subseteq 2 .. n2 - 1
    BY DEF TrackerOK
  <2>2. \A ino \in DOMAIN d2 :
          /\ d2[ino] \in [node : Nodes, populated : BOOLEAN, children : Seq(Entries)]
          /\ Key(d2[ino].node) \in DOMAIN o2
          /\ o2[Key(d2[ino].node)] = ino
    BY <1>1 DEF TrackerOK
  <2>3. \A k \in DOMAIN o2 : o2[k] \in DOMAIN d2 /\ Key(d2[o2[k]].node) = k
    BY DEF TrackerOK
  <2> QED  BY <2>1, <2>2, <2>3, Zenon DEF TrackerOK
<1>3. PopulatedOK(d2, o2)
  <2> SUFFICES ASSUME NEW ino \in DOMAIN d2
               PROVE IF d2[ino].populated
                     THEN /\ d2[ino].node.kind = "dir" /\ d2[ino].node.key \in DOMAIN Dirs
                          /\ HasInodes(o2, Dirs[d2[ino].node.key])
                          /\ d2[ino].children = Populated(o2, Dirs[d2[ino].node.key])
                     ELSE d2[ino].children = <<>>
    BY Zenon DEF PopulatedOK
  <2>1. CASE ino \notin DOMAIN d
    BY <2>1, <1>1, Zenon
  <2>2. CASE ino \in DOMAIN d /\ d[ino].populated
    <3>1. /\ d2[ino] = d[ino] /\ HasInodes(o, Dirs[d[ino].node.key])
          /\ d[ino].node.kind = "dir" /\ d[ino].node.key \in DOMAIN Dirs
          /\ d[ino].children = Populated(o, Dirs[d[ino].node.key])
      BY <2>2, Zenon DEF PopulatedOK
    <3>2. /\ HasInodes(o2, Dirs[d[ino].node.key])
          /\ Populated(o2, Dirs[d[ino].node.key]) = Populated(o, Dirs[d[ino].node.key])
      BY <3>1, SamePopulated
    <3> QED  BY <3>1, <3>2, <2>2, Zenon
  <2>3. CASE ino \in DOMAIN d /\ ~d[ino].populated
    BY <2>3, Zenon DEF PopulatedOK
  <2> QED  BY <2>1, <2>2, <2>3, Zenon
<1> QED  BY <1>2, <1>3, Zenon DEF Extends

(* put() gives contents the inode they have, or a new one. *)
LEMMA PutAdds ==
    ASSUME TrackerOK(data, ino_of, next_inode), PopulatedOK(data, ino_of),
           NEW m \in Nodes, NEW tr, tr = put(Tracker, m)
    PROVE  /\ TrackerOK(tr.data, tr.ino_of, tr.next) /\ PopulatedOK(tr.data, tr.ino_of)
           /\ Extends(data, ino_of, tr.data, tr.ino_of)
           /\ Key(m) \in DOMAIN tr.ino_of
           /\ tr.ino_of[Key(m)] \in DOMAIN tr.data /\ Key(tr.data[tr.ino_of[Key(m)]].node) = Key(m)
<1>1. CASE Key(m) \in DOMAIN ino_of
  <2>1. tr = Tracker
    BY <1>1, Zenon DEF put, Tracker
  <2> QED  BY <1>1, <2>1 DEF Tracker, Extends, TrackerOK
<1>2. CASE Key(m) \notin DOMAIN ino_of
  <2> DEFINE d2 == tr.data
             o2 == tr.ino_of
             n2 == tr.next
  <2>1. /\ d2 = With(data, next_inode, InodeData(m))
        /\ o2 = With(ino_of, Key(m), next_inode)
        /\ n2 = next_inode + 1
    BY <1>2, Zenon DEF put, Tracker, insert_and_increment
  <2>2. next_inode \notin DOMAIN data /\ n2 \in Nat /\ n2 >= next_inode
    BY <2>1 DEF TrackerOK
  <2>3. /\ DOMAIN d2 = DOMAIN data \cup {next_inode} /\ d2[next_inode] = InodeData(m)
        /\ \A ino \in DOMAIN data : d2[ino] = data[ino]
    BY <2>1, <2>2, Zenon DEF With
  <2>4. /\ DOMAIN o2 = DOMAIN ino_of \cup {Key(m)} /\ o2[Key(m)] = next_inode
        /\ \A k \in DOMAIN ino_of : o2[k] = ino_of[k]
    BY <1>2, <2>1, Zenon DEF With
  <2>5. next_inode \in next_inode .. n2 - 1
    BY <2>1 DEF TrackerOK
  <2>6. d2[next_inode].node = m
    BY <2>3 DEF InodeData
  <2> HIDE DEF d2, o2, n2
  <2>7. TrackerOK(d2, o2, n2) /\ PopulatedOK(d2, o2) /\ Extends(data, ino_of, d2, o2)
    BY <2>2, <2>3, <2>4, <2>5, <2>6, AddInodes, Zenon
  <2> QED  BY <2>3, <2>4, <2>6, <2>7, Zenon DEF d2, o2, n2
<1> QED  BY <1>1, <1>2, Zenon

(* put() of every node of a directory gives each contents one inode. *)
LEMMA PutAllAdds ==
    ASSUME TrackerOK(data, ino_of, next_inode), PopulatedOK(data, ino_of),
           NEW nodes, nodes \in Seq({nodes[i] : i \in DOMAIN nodes}),
           \A i \in DOMAIN nodes : nodes[i].node \in Nodes,
           NEW tr \in PutAll(nodes)
    PROVE  /\ TrackerOK(tr.data, tr.ino_of, tr.next) /\ PopulatedOK(tr.data, tr.ino_of)
           /\ Extends(data, ino_of, tr.data, tr.ino_of)
           /\ HasInodes(tr.ino_of, nodes)
<1>1. PICK last \in next_inode - 1 .. next_inode - 1 + Len(nodes) :
         \E gave \in GivenOut(nodes, last) : tr = AfterPuts(nodes, gave, last)
  BY Zenon DEF PutAll
<1>2. PICK gave \in GivenOut(nodes, last) : tr = AfterPuts(nodes, gave, last)
  BY <1>1, Zenon
<1>3. PICK d2, o2, n2 : d2 = tr.data /\ o2 = tr.ino_of /\ n2 = tr.next
  BY Zenon
<1>4. /\ d2 = [ino \in DOMAIN data \cup DOMAIN gave |->
                 IF ino \in DOMAIN data THEN data[ino] ELSE InodeData(nodes[gave[ino]].node)]
      /\ o2 = [k \in DOMAIN ino_of \cup {Key(nodes[i].node) : i \in DOMAIN nodes} |->
                 IF k \in DOMAIN ino_of THEN ino_of[k]
                 ELSE CHOOSE ino \in DOMAIN gave : Key(nodes[gave[ino]].node) = k]
      /\ n2 = last + 1
  BY <1>2, <1>3, Zenon DEF AfterPuts
<1>5. /\ next_inode \in Nat \ {0, 1} /\ DOMAIN data \subseteq 2 .. next_inode - 1
      /\ Len(nodes) \in Nat
  BY DEF TrackerOK
<1>6. n2 \in Nat /\ n2 >= next_inode /\ last = n2 - 1
  BY <1>1, <1>4, <1>5
<1>7. /\ DOMAIN gave = next_inode .. n2 - 1 /\ \A a \in DOMAIN gave : gave[a] \in DOMAIN nodes
      /\ \A a \in DOMAIN gave : Key(nodes[gave[a]].node) \notin DOMAIN ino_of
  BY <1>2, <1>6, Zenon DEF GivenOut
<1>8. \A a, b \in DOMAIN gave : Key(nodes[gave[a]].node) = Key(nodes[gave[b]].node) => a = b
  <2> SUFFICES ASSUME NEW a \in DOMAIN gave, NEW b \in DOMAIN gave, a # b
               PROVE  Key(nodes[gave[a]].node) # Key(nodes[gave[b]].node)
    BY Zenon
  <2>1. a < b \/ b < a
    BY <1>5, <1>6, <1>7
  <2> QED  BY <1>2, <2>1, Zenon DEF GivenOut
<1>9. \A a \in DOMAIN gave : a \notin DOMAIN data
  BY <1>5, <1>6, <1>7
<1>10. \A a \in DOMAIN gave : /\ a \in DOMAIN d2 /\ d2[a] = InodeData(nodes[gave[a]].node)
                             /\ Key(nodes[gave[a]].node) \in DOMAIN o2 /\ o2[Key(nodes[gave[a]].node)] = a
  BY <1>4, <1>7, <1>8, <1>9, Zenon
<1>11. \A i \in DOMAIN nodes : Key(nodes[i].node) \notin DOMAIN ino_of =>
          \E a \in DOMAIN gave : Key(nodes[gave[a]].node) = Key(nodes[i].node)
  BY <1>2, Zenon DEF GivenOut
<1>12. \A ino \in DOMAIN data : ino \in DOMAIN d2 /\ d2[ino] = data[ino]
  BY <1>4, Zenon
<1>13. \A k \in DOMAIN ino_of : k \in DOMAIN o2 /\ o2[k] = ino_of[k]
  BY <1>4, Zenon
<1>14. ASSUME NEW ino \in DOMAIN d2 \ DOMAIN data
       PROVE  /\ ino \in next_inode .. n2 - 1
              /\ \E m \in Nodes : /\ d2[ino] = InodeData(m)
                                 /\ Key(m) \in DOMAIN o2 /\ o2[Key(m)] = ino
  <2>1. ino \in DOMAIN gave
    BY <1>4, Zenon
  <2>2. nodes[gave[ino]].node \in Nodes
    BY <1>7, <2>1, Zenon
  <2> QED  BY <1>7, <1>10, <2>1, <2>2, Zenon
<1>15. ASSUME NEW k \in DOMAIN o2 \ DOMAIN ino_of
       PROVE  o2[k] \in DOMAIN d2 /\ Key(d2[o2[k]].node) = k
  <2>1. PICK i \in DOMAIN nodes : k = Key(nodes[i].node)
    BY <1>4, Zenon
  <2>2. PICK a \in DOMAIN gave : Key(nodes[gave[a]].node) = k
    BY <1>11, <2>1, Zenon
  <2>3. o2[k] = a /\ a \in DOMAIN d2 /\ d2[a] = InodeData(nodes[gave[a]].node)
    BY <1>10, <2>2, Zenon
  <2>4. d2[a].node = nodes[gave[a]].node
    BY <2>3 DEF InodeData
  <2> QED  BY <2>2, <2>3, <2>4, Zenon
<1>16. TrackerOK(d2, o2, n2) /\ PopulatedOK(d2, o2) /\ Extends(data, ino_of, d2, o2)
  BY <1>6, <1>12, <1>13, <1>14, <1>15, AddInodes, Zenon
<1>17. HasInodes(o2, nodes)
  BY <1>4, Zenon DEF HasInodes
<1> QED  BY <1>3, <1>16, <1>17, Zenon

(* The nodes of a directory that is there. *)
LEMMA InDirs ==
    ASSUME NEW key \in DOMAIN Dirs
    PROVE  /\ Dirs[key] \in Seq({Dirs[key][i] : i \in DOMAIN Dirs[key]})
           /\ \A i \in DOMAIN Dirs[key] : Dirs[key][i].node \in Nodes /\ Dirs[key][i].name \in AllNames
BY StoreAssumption DEF Nodes, AllNames

(* The children that populating gives a directory. *)
LEMMA ChildrenType ==
    ASSUME NEW d, NEW o, NEW n, TrackerOK(d, o, n), NEW key \in DOMAIN Dirs, HasInodes(o, Dirs[key])
    PROVE  /\ Populated(o, Dirs[key]) \in Seq(Entries)
           /\ Len(Populated(o, Dirs[key])) = Len(Dirs[key])
           /\ DOMAIN Populated(o, Dirs[key]) = DOMAIN Dirs[key]
           /\ \A i \in DOMAIN Dirs[key] : LET c == Populated(o, Dirs[key])[i] IN
                 /\ c.name = Dirs[key][i].name /\ c.node = Dirs[key][i].node
                 /\ c.ino \in DOMAIN d /\ Key(d[c.ino].node) = Key(Dirs[key][i].node)
<1> DEFINE nodes == Dirs[key]
           c == Populated(o, nodes)
<1>1. /\ DOMAIN nodes = 1 .. Len(nodes) /\ Len(nodes) \in Nat
      /\ \A i \in DOMAIN nodes : nodes[i].node \in Nodes /\ nodes[i].name \in AllNames
  <2>1. /\ nodes \in Seq({nodes[i] : i \in DOMAIN nodes})
        /\ \A i \in DOMAIN nodes : nodes[i].node \in Nodes /\ nodes[i].name \in AllNames
    BY InDirs, Zenon
  <2> HIDE DEF nodes
  <2> QED  BY <2>1
<1> HIDE DEF nodes
<1>2. \A i \in DOMAIN nodes : o[Key(nodes[i].node)] \in DOMAIN d /\ Key(d[o[Key(nodes[i].node)]].node) = Key(nodes[i].node)
  <2> TAKE i \in DOMAIN nodes
  <2>1. Key(nodes[i].node) \in DOMAIN o
    BY Zenon DEF HasInodes, nodes
  <2> QED  BY <2>1, Zenon DEF TrackerOK
<1>3. \A i \in DOMAIN nodes : o[Key(nodes[i].node)] \in Nat
  <2>1. \A ino \in DOMAIN d : ino \in Nat
    BY DEF TrackerOK
  <2> QED  BY <1>2, <2>1, Zenon
<1>4. \A i \in DOMAIN nodes :
         c[i] = [ino |-> o[Key(nodes[i].node)], name |-> nodes[i].name, node |-> nodes[i].node]
  BY Zenon DEF Populated
<1>5. \A i \in DOMAIN nodes :
         c[i].name = nodes[i].name /\ c[i].node = nodes[i].node /\ c[i].ino = o[Key(nodes[i].node)]
  BY Zenon DEF Populated
<1>6. /\ c = [i \in 1 .. Len(nodes) |-> c[i]]
      /\ \A i \in 1 .. Len(nodes) : c[i] \in Entries
  <2>1. c = [i \in 1 .. Len(nodes) |-> c[i]]
    BY <1>1, Zenon DEF Populated
  <2> HIDE DEF c
  <2> QED  BY <2>1, <1>1, <1>3, <1>4 DEF Entries
<1> HIDE DEF c
<1>7. c \in Seq(Entries) /\ Len(c) = Len(nodes) /\ DOMAIN c = DOMAIN nodes
  <2>1. c \in [1 .. Len(nodes) -> Entries]
    BY <1>6, Zenon
  <2> QED  BY <1>1, <2>1
<1>8. \A i \in DOMAIN nodes : /\ c[i].name = nodes[i].name /\ c[i].node = nodes[i].node
                              /\ c[i].ino \in DOMAIN d /\ Key(d[c[i].ino].node) = Key(nodes[i].node)
  BY <1>2, <1>5, Zenon
<1> QED  BY <1>7, <1>8, Zenon DEF c, nodes

(* Populating a directory changes one that was not populated only: d3 is   *)
(* d2 with the children c of directory ino, and d2 extends d.              *)
Fills(d, o, d2, o2, n2, ino, c, d3) ==
    /\ TrackerOK(d2, o2, n2) /\ PopulatedOK(d2, o2) /\ Extends(d, o, d2, o2)
    /\ ino \in DOMAIN d2 /\ d2[ino].node.kind = "dir" /\ d2[ino].node.key \in DOMAIN Dirs
    /\ HasInodes(o2, Dirs[d2[ino].node.key]) /\ c = Populated(o2, Dirs[d2[ino].node.key])
    /\ d3 = replace(d2, ino, c)

LEMMA Fill ==
    ASSUME NEW d, NEW o, NEW d2, NEW o2, NEW n2, NEW ino, NEW c, NEW d3,
           Fills(d, o, d2, o2, n2, ino, c, d3)
    PROVE  /\ TrackerOK(d3, o2, n2) /\ PopulatedOK(d3, o2) /\ Extends(d, o, d3, o2)
           /\ ino \in DOMAIN d3 /\ d3[ino].populated /\ d3[ino].children = c
<1> USE DEF Fills
<1>1. c \in Seq(Entries)
  BY ChildrenType, Zenon
<1>2. d2[ino] \in [node : Nodes, populated : BOOLEAN, children : Seq(Entries)]
  BY Zenon DEF TrackerOK
<1>3. /\ DOMAIN d3 = DOMAIN d2
      /\ \A i \in DOMAIN d2 : i # ino => d3[i] = d2[i]
  BY Zenon DEF replace
<1>4. /\ d3[ino] \in [node : Nodes, populated : BOOLEAN, children : Seq(Entries)]
      /\ d3[ino].node = d2[ino].node /\ d3[ino].populated = TRUE /\ d3[ino].children = c
  <2>1. /\ d2[ino] = [node |-> d2[ino].node, populated |-> d2[ino].populated, children |-> d2[ino].children]
        /\ d2[ino].node \in Nodes
    BY <1>2, Zenon
  <2>2. d3[ino] = [d2[ino] EXCEPT !.populated = TRUE, !.children = c]
    BY Zenon DEF replace
  <2>3. d3[ino] = [node |-> d2[ino].node, populated |-> TRUE, children |-> c]
    BY <2>1, <2>2, Zenon
  <2> QED  BY <1>1, <2>1, <2>3
<1>5. d2[ino].populated => d3[ino] = d2[ino]
  <2> HAVE d2[ino].populated
  <2>1. d2[ino].children = c
    BY Zenon DEF PopulatedOK
  <2>2. d2[ino].populated = TRUE
    BY <1>2, Zenon
  <2>3. d2[ino] = [node |-> d2[ino].node, populated |-> TRUE, children |-> c]
    BY <1>2, <2>1, <2>2, Zenon
  <2>4. d3[ino] = [node |-> d2[ino].node, populated |-> TRUE, children |-> c]
    BY <1>4, Zenon
  <2> QED  BY <2>3, <2>4, Zenon
<1>6. \A i \in DOMAIN d2 : d3[i].node = d2[i].node
  BY <1>3, <1>4, Zenon
<1>7. TrackerOK(d3, o2, n2)
  <2> HIDE DEF Fills
  <2>1. TrackerOK(d2, o2, n2)
    BY Zenon DEF Fills
  <2> QED  BY <1>3, <1>4, <1>6, <2>1, Zenon DEF TrackerOK
<1>8. PopulatedOK(d3, o2)
  <2>1. /\ PopulatedOK(d2, o2) /\ ino \in DOMAIN d2
        /\ d3[ino].node.kind = "dir" /\ d3[ino].node.key \in DOMAIN Dirs
        /\ HasInodes(o2, Dirs[d3[ino].node.key]) /\ d3[ino].children = Populated(o2, Dirs[d3[ino].node.key])
    BY <1>4, Zenon
  <2> HIDE DEF Fills
  <2> QED  BY <1>3, <1>4, <2>1, Zenon DEF PopulatedOK
<1>9. Extends(d, o, d3, o2)
  BY <1>3, <1>5, <1>6, Zenon DEF Extends
<1> QED  BY <1>3, <1>4, <1>7, <1>8, <1>9, Zenon

-----------------------------------------------------------------------------
(* What stays true of a thread while the others work.                      *)

Grows == Extends(data, ino_of, data', ino_of')

(* An inode stands for what it stood for. *)
LEMMA StandsKept ==
    ASSUME Grows, NEW ino, NEW n, Stands(ino, n)
    PROVE  Stands(ino, n)'
BY Zenon DEF Grows, Extends, Stands

(* A directory has under a name what it had. *)
LEMMA FoundKept ==
    ASSUME Grows, NEW parent, NEW name, NEW ino, Found(parent, name, ino)
    PROVE  Found(parent, name, ino)'
<1>1. \A n : Stands(ino, n) => Stands(ino, n)'
  BY StandsKept, Zenon
<1>2. IsDir(parent) => IsDir(parent)' /\ data'[parent].node = data[parent].node
  BY Zenon DEF Grows, Extends, IsDir
<1> QED  BY <1>1, <1>2, Zenon DEF Found

(* A request that rests, while the inodes grow. *)
LEMMA RequestKept ==
    ASSUME Grows, NEW t, RequestInv(t), th'[t] = th[t], listing'[t] = listing[t]
    PROVE  RequestInv(t)'
<1>1. th[t].pc = "attr" => Found(th[t].ino, th[t].name, th[t].left)'
  BY FoundKept, Zenon DEF RequestInv
<1>2. IsDir(th[t].ino) => IsDir(th[t].ino)' /\ data'[th[t].ino].node = data[th[t].ino].node
  BY Zenon DEF Grows, Extends, IsDir
<1>3. Stands(th[t].ino, th[t].node) => Stands(th[t].ino, th[t].node)'
  BY StandsKept, Zenon
<1> QED  BY <1>1, <1>2, <1>3, Zenon DEF RequestInv

LEMMA AnswerKept ==
    ASSUME Grows, NEW t, AnswerInv(t), th'[t] = th[t], out'[t] = out[t]
    PROVE  AnswerInv(t)'
<1>1. Found(th[t].ino, th[t].name, out[t].ino) => Found(th[t].ino, th[t].name, out[t].ino)'
  BY FoundKept, Zenon
<1>2. Describes(out[t], data)'
  BY Zenon DEF AnswerInv, Describes, Fits, Grows, Extends
<1> QED  BY <1>1, <1>2, Zenon DEF AnswerInv

(* A walk that rests: its directory may be populated only, by another. *)
LEMMA ListingKept ==
    ASSUME Grows, TrackerOK(data, ino_of, next_inode)', NEW t, ListingInv(t), listing'[t] = listing[t]
    PROVE  ListingInv(t)'
<1> DEFINE l == listing[t]
<1>1. \A i \in DOMAIN l.names : Stands(l.names[i].ino, l.names[i].node)'
  BY StandsKept, Zenon DEF ListingInv
<1>2. IsDir(l.ino) => /\ l.ino \in DOMAIN data' /\ data'[l.ino].node.kind = "dir"
                      /\ data[l.ino].populated => data'[l.ino] = data[l.ino]
                      /\ data'[l.ino].children \in Seq(Entries)
  BY Zenon DEF Grows, Extends, IsDir, TrackerOK
<1>3. l.ino \notin {0, ROOT_ID} =>
         /\ l.ino \in DOMAIN data' /\ data'[l.ino].node.kind = "dir"
         /\ IF data'[l.ino].populated
            THEN LET c == data'[l.ino].children IN
                 /\ Len(l.names) <= Len(c) /\ l.names = SubSeq(c, 1, Len(l.names))
                 /\ l.end => Len(l.names) = Len(c)
            ELSE l.names = <<>> /\ ~l.end
  <2> HAVE l.ino \notin {0, ROOT_ID}
  <2>1. IsDir(l.ino)
    BY Zenon DEF ListingInv
  <2>2. CASE data[l.ino].populated
    BY <1>2, <2>1, <2>2, Zenon DEF ListingInv
  <2>3. CASE ~data[l.ino].populated
    <3>1. l.names = <<>> /\ ~l.end
      BY <2>3, Zenon DEF ListingInv
    <3>2. data'[l.ino].children \in Seq(Entries)
      BY <1>2, <2>1, Zenon
    <3>3. Len(<<>>) = 0 /\ SubSeq(data'[l.ino].children, 1, 0) = <<>>
      BY <3>2
    <3> QED  BY <1>2, <2>1, <3>1, <3>2, <3>3
  <2> QED  BY <2>2, <2>3, Zenon
<1> QED  BY <1>1, <1>3, Zenon DEF ListingInv, IsDir

LEMMA RootKept ==
    ASSUME Grows, RootInv, UNCHANGED <<provided, root_nodes>>
    PROVE  RootInv'
<1>1. \A n \in DOMAIN root_nodes : Stands(root_nodes[n], Roots[RootNode(n)].node)'
  BY StandsKept, Zenon DEF RootInv
<1> QED  BY <1>1, Zenon DEF RootInv

(* A step of one thread: the others keep what they know. *)
LEMMA OneMoves ==
    ASSUME IInv, NEW t \in Thread, Grows,
           TrackerOK(data, ino_of, next_inode)', PopulatedOK(data, ino_of)', RootInv', HandlesInv',
           known' \subseteq {ROOT_ID} \cup DOMAIN data',
           th' = [th EXCEPT ![t] = th'[t]], out' = [out EXCEPT ![t] = out'[t]],
           listing' = [listing EXCEPT ![t] = listing'[t]],
           RequestInv(t)', AnswerInv(t)', ListingInv(t)'
    PROVE  IInv'
<1>1. \A u \in Thread \ {t} : th'[u] = th[u] /\ out'[u] = out[u] /\ listing'[u] = listing[u]
  BY Zenon DEF IInv
<1>2. /\ th' = [u \in Thread |-> th'[u]] /\ out' = [u \in Thread |-> out'[u]]
      /\ listing' = [u \in Thread |-> listing'[u]]
  BY Zenon DEF IInv
<1>3. ASSUME NEW u \in Thread \ {t} PROVE RequestInv(u)' /\ AnswerInv(u)' /\ ListingInv(u)'
  <2>1. RequestInv(u) /\ AnswerInv(u) /\ ListingInv(u)
    BY Zenon DEF IInv
  <2> QED  BY <1>1, <2>1, RequestKept, AnswerKept, ListingKept, Zenon
<1> QED  BY <1>2, <1>3, Zenon DEF IInv

(* A step that leaves the inodes alone. *)
LEMMA NothingAdded ==
    ASSUME IInv, UNCHANGED tracker
    PROVE  Grows /\ TrackerOK(data, ino_of, next_inode)' /\ PopulatedOK(data, ino_of)'
<1>1. data' = data /\ ino_of' = ino_of /\ next_inode' = next_inode
  BY Zenon DEF tracker
<1>2. Grows
  BY <1>1, Zenon DEF Grows, Extends
<1>3. TrackerOK(data, ino_of, next_inode)' /\ PopulatedOK(data, ino_of)'
  BY <1>1, Zenon DEF IInv, TrackerOK, PopulatedOK
<1> QED  BY <1>2, <1>3, Zenon

(* The kinds of steps a thread takes: it answers something other than an   *)
(* entry, or goes on.                                                      *)
LEMMA Replies ==
    ASSUME IInv, NEW t \in Thread, Grows,
           TrackerOK(data, ino_of, next_inode)', PopulatedOK(data, ino_of)', RootInv', HandlesInv',
           known' \subseteq {ROOT_ID} \cup DOMAIN data',
           listing' = [listing EXCEPT ![t] = listing'[t]], ListingInv(t)',
           NEW a, Answer(t, a), a.what \notin {"entry", "attr", "panic"}
    PROVE  IInv'
<1>1. RequestInv(t) /\ th = [u \in Thread |-> th[u]] /\ out = [u \in Thread |-> out[u]]
  BY Zenon DEF IInv
<1>2. /\ th'[t] = [th[t] EXCEPT !.pc = "idle"] /\ th' = [th EXCEPT ![t] = th'[t]]
      /\ out'[t] = a /\ out' = [out EXCEPT ![t] = out'[t]]
  BY <1>1, Zenon DEF Answer
<1>3. RequestInv(t)'
  BY <1>1, <1>2, Zenon DEF RequestInv, Pcs, Fields
<1>4. AnswerInv(t)'
  BY <1>2, Zenon DEF AnswerInv, Describes
<1> QED  BY <1>2, <1>3, <1>4, OneMoves, Zenon

LEMMA GoesOn ==
    ASSUME IInv, NEW t \in Thread, Grows,
           TrackerOK(data, ino_of, next_inode)', PopulatedOK(data, ino_of)', RootInv', HandlesInv',
           known' \subseteq {ROOT_ID} \cup DOMAIN data',
           listing' = [listing EXCEPT ![t] = listing'[t]], ListingInv(t)',
           NEW r, Goto(t, r), r.pc # "idle", UNCHANGED out, th'[t] = r => RequestInv(t)'
    PROVE  IInv'
<1>1. AnswerInv(t) /\ th = [u \in Thread |-> th[u]] /\ out = [u \in Thread |-> out[u]]
  BY Zenon DEF IInv
<1>2. /\ th'[t] = r /\ th' = [th EXCEPT ![t] = th'[t]]
      /\ out'[t] = out[t] /\ out' = [out EXCEPT ![t] = out'[t]]
  BY <1>1, Zenon DEF Goto
<1>3. AnswerInv(t)'
  <2>1. Describes(out[t], data)'
    BY <1>1, <1>2, Zenon DEF AnswerInv, Describes, Fits, Grows, Extends
  <2> QED  BY <1>1, <1>2, <2>1, Zenon DEF AnswerInv
<1> QED  BY <1>2, <1>3, OneMoves, Zenon

(* Whoever leaves root_nodes alone keeps all inodes. *)
LEMMA GrowsKeeps ==
    ASSUME Grows, UNCHANGED root_nodes
    PROVE  KeepsInodes
BY Zenon DEF Grows, Extends, KeepsInodes, Key

(* A step with no change but to the thread. *)
LEMMA QuietStep ==
    ASSUME IInv, UNCHANGED <<quiet, known>>
    PROVE  /\ Grows /\ KeepsInodes
           /\ TrackerOK(data, ino_of, next_inode)' /\ PopulatedOK(data, ino_of)' /\ RootInv' /\ HandlesInv'
           /\ known' \subseteq {ROOT_ID} \cup DOMAIN data'
           /\ \A t \in Thread : listing' = [listing EXCEPT ![t] = listing'[t]] /\ ListingInv(t)'
<1>1. /\ provided' = provided /\ tracker' = tracker /\ root_nodes' = root_nodes /\ opened' = opened
      /\ listing' = listing /\ known' = known
  BY Zenon DEF quiet
<1>2. Grows /\ TrackerOK(data, ino_of, next_inode)' /\ PopulatedOK(data, ino_of)' /\ data' = data
  BY <1>1, NothingAdded, Zenon DEF tracker
<1>3. KeepsInodes
  BY <1>1, <1>2, GrowsKeeps, Zenon
<1>4. RootInv' /\ HandlesInv' /\ known' \subseteq {ROOT_ID} \cup DOMAIN data'
  <2>1. RootInv'
    BY <1>1, <1>2, RootKept, Zenon DEF IInv
  <2>2. HandlesInv'
    BY <1>1, Zenon DEF IInv, HandlesInv, opened
  <2> QED  BY <1>1, <1>2, <2>1, <2>2, Zenon DEF IInv
<1>5. ASSUME NEW t \in Thread
      PROVE  listing' = [listing EXCEPT ![t] = listing'[t]] /\ ListingInv(t)'
  <2>1. ListingInv(t) /\ listing = [u \in Thread |-> listing[u]]
    BY Zenon DEF IInv
  <2>2. listing' = [listing EXCEPT ![t] = listing'[t]]
    BY <1>1, <2>1, Zenon
  <2> QED  BY <1>1, <1>2, <2>1, <2>2, ListingKept, Zenon
<1> QED  BY <1>2, <1>3, <1>4, <1>5, Zenon

LEMMA QuietReply ==
    ASSUME IInv, NEW t \in Thread, UNCHANGED <<quiet, known>>,
           NEW a, Answer(t, a), a.what \notin {"entry", "attr", "panic"}
    PROVE  IInv' /\ KeepsInodes
BY QuietStep, Replies, Zenon

LEMMA QuietMove ==
    ASSUME IInv, NEW t \in Thread, UNCHANGED <<quiet, known, out>>,
           NEW r, Goto(t, r), r.pc # "idle", th'[t] = r => RequestInv(t)'
    PROVE  IInv' /\ KeepsInodes
BY QuietStep, GoesOn, Zenon

(* lookup() finds a child, or there is none. *)
LEMMA FindsChild ==
    ASSUME IInv, NEW t \in Thread, Grows,
           TrackerOK(data, ino_of, next_inode)', PopulatedOK(data, ino_of)', RootInv', HandlesInv',
           known' \subseteq {ROOT_ID} \cup DOMAIN data', UNCHANGED listing,
           NEW r, r.op = "lookup", DOMAIN r = Fields,
           NEW children, FoundOrNot(t, children, r),
           \A i \in DOMAIN children : Found(r.ino, children[i].name, children[i].ino)'
    PROVE  IInv'
<1>1. listing' = [listing EXCEPT ![t] = listing'[t]] /\ ListingInv(t)'
  <2>1. ListingInv(t) /\ listing = [u \in Thread |-> listing[u]]
    BY Zenon DEF IInv
  <2>2. listing' = [listing EXCEPT ![t] = listing'[t]]
    BY <2>1, Zenon
  <2> QED  BY <2>1, <2>2, ListingKept, Zenon
<1>2. CASE Child(children, r.name) = {}
  <2>1. Answer(t, Error("ENOENT")) /\ Error("ENOENT").what \notin {"entry", "attr", "panic"}
    BY <1>2, Zenon DEF FoundOrNot, Error
  <2> QED  BY <1>1, <2>1, Replies, Zenon
<1>3. CASE Child(children, r.name) # {}
  <2>1. PICK i \in Child(children, r.name) :
           Goto(t, [r EXCEPT !.pc = "attr", !.left = children[i].ino]) /\ UNCHANGED out
    BY <1>3, Zenon DEF FoundOrNot
  <2>2. i \in DOMAIN children /\ children[i].name = r.name
    BY Zenon DEF Child
  <2> DEFINE q == [r EXCEPT !.pc = "attr", !.left = children[i].ino]
  <2>3. /\ DOMAIN q = Fields /\ q.pc = "attr" /\ q.op = "lookup" /\ q.ino = r.ino /\ q.name = r.name
        /\ q.left = children[i].ino
    BY Zenon DEF Fields
  <2>4. Found(r.ino, r.name, children[i].ino)'
    BY <2>2, Zenon
  <2> HIDE DEF q
  <2>5. q.pc # "idle"
    BY <2>3, Zenon
  <2>6. th'[t] = q => RequestInv(t)'
    BY <2>3, <2>4, Zenon DEF RequestInv, Pcs
  <2>7. Goto(t, q)
    BY <2>1, Zenon DEF q
  <2> QED  BY <1>1, <2>1, <2>5, <2>6, <2>7, GoesOn, Zenon
<1> QED  BY <1>2, <1>3, Zenon

-----------------------------------------------------------------------------
(* Walking a directory.                                                    *)

LEMMA SeqDomain ==
    ASSUME NEW S, NEW s \in Seq(S)
    PROVE  Len(s) \in Nat /\ DOMAIN s = 1 .. Len(s)
OBVIOUS

(* How far a reply with room for size entries comes, after n of k. *)
LEMMA UpTo ==
    ASSUME NEW n \in Nat, NEW k \in Nat, n <= k, NEW size \in Nat \ {0},
           NEW m, m = IF n + size > k THEN k ELSE n + size
    PROVE  m \in Nat /\ n <= m /\ m <= k /\ (n = m <=> n = k)
OBVIOUS

LEMMA Concat ==
    ASSUME NEW S, NEW a \in Seq(S), NEW b \in Seq(S), NEW s \in Seq(S), Len(s) = Len(a) + Len(b),
           \A i \in 1 .. Len(a) : s[i] = a[i],
           \A i \in 1 .. Len(b) : s[Len(a) + i] = b[i]
    PROVE  a \o b = s
<1>1. /\ a \o b \in Seq(S) /\ Len(a \o b) = Len(a) + Len(b)
      /\ \A i \in 1 .. Len(a) + Len(b) : (a \o b)[i] = IF i <= Len(a) THEN a[i] ELSE b[i - Len(a)]
  OBVIOUS
<1>2. PICK ab : ab = a \o b
  BY Zenon
<1>3. PICK n \in Nat, m \in Nat : n = Len(a) /\ m = Len(b)
  OBVIOUS
<1>4. ASSUME NEW i \in 1 .. n + m PROVE ab[i] = s[i]
  <2>1. CASE i <= n
    BY <1>1, <1>2, <1>3, <2>1
  <2>2. CASE ~(i <= n)
    <3>1. i - n \in 1 .. m /\ n + (i - n) = i
      BY <2>2
    <3> QED  BY <1>1, <1>2, <1>3, <2>2, <3>1, Zenon
  <2> QED  BY <2>1, <2>2, Zenon
<1>5. ab \in Seq(S) /\ Len(ab) = n + m /\ Len(s) = n + m
  BY <1>1, <1>2, <1>3, Zenon
<1>6. ab = s
  BY <1>4, <1>5
<1> QED  BY <1>2, <1>6, Zenon

(* The next part of a sequence, up to m, after its first n elements. *)
IsNextPart(S, c, n, m) ==
    /\ SubSeq(c, 1, n) \o SubSeq(c, n + 1, m) = SubSeq(c, 1, m)
    /\ SubSeq(c, 1, m) \in Seq(S) /\ Len(SubSeq(c, 1, m)) = m
    /\ \A i \in 1 .. m : SubSeq(c, 1, m)[i] = c[i]
    /\ SubSeq(c, n + 1, m) = <<>> <=> n = m
    /\ \A i \in DOMAIN SubSeq(c, n + 1, m) : \E j \in DOMAIN c : SubSeq(c, n + 1, m)[i] = c[j]

LEMMA NextPart ==
    ASSUME NEW S, NEW c \in Seq(S), NEW n \in Nat, NEW m \in Nat, n <= m, m <= Len(c)
    PROVE  IsNextPart(S, c, n, m)
<1>1. /\ SubSeq(c, 1, m) \in Seq(S) /\ Len(SubSeq(c, 1, m)) = m
      /\ \A i \in 1 .. m : SubSeq(c, 1, m)[i] = c[i]
  OBVIOUS
<1>2. /\ SubSeq(c, 1, n) \in Seq(S) /\ Len(SubSeq(c, 1, n)) = n
      /\ \A i \in 1 .. n : SubSeq(c, 1, n)[i] = c[i]
  OBVIOUS
<1>3. /\ SubSeq(c, n + 1, m) \in Seq(S) /\ Len(SubSeq(c, n + 1, m)) = m - n
      /\ \A i \in 1 .. m - n : SubSeq(c, n + 1, m)[i] = c[n + i]
  OBVIOUS
<1>4. SubSeq(c, 1, n) \o SubSeq(c, n + 1, m) = SubSeq(c, 1, m)
  <2>1. PICK a, b, s : a = SubSeq(c, 1, n) /\ b = SubSeq(c, n + 1, m) /\ s = SubSeq(c, 1, m)
    BY Zenon
  <2>2. a \in Seq(S) /\ b \in Seq(S) /\ s \in Seq(S) /\ Len(a) = n /\ Len(b) = m - n /\ Len(s) = Len(a) + Len(b)
    BY <1>1, <1>2, <1>3, <2>1
  <2>3. /\ \A i \in 1 .. Len(a) : s[i] = a[i]
        /\ \A i \in 1 .. Len(b) : s[Len(a) + i] = b[i]
    <3>1. ASSUME NEW i \in 1 .. n PROVE s[i] = a[i]
      BY <1>1, <1>2, <2>1
    <3>2. ASSUME NEW i \in 1 .. m - n PROVE s[n + i] = b[i]
      <4>1. n + i \in 1 .. m
        OBVIOUS
      <4> QED  BY <1>1, <1>3, <2>1, <4>1, Zenon
    <3> QED  BY <2>2, <3>1, <3>2, Zenon
  <2>4. a \o b = s
    BY <2>2, <2>3, Concat, Zenon
  <2> QED  BY <2>1, <2>4, Zenon
<1>5. SubSeq(c, n + 1, m) = <<>> <=> n = m
  <2> DEFINE b == SubSeq(c, n + 1, m)
  <2>1. b \in Seq(S) /\ Len(b) = m - n
    BY <1>3, Zenon
  <2> HIDE DEF b
  <2>2. b = <<>> => n = m
    BY <2>1
  <2>3. n = m => b = <<>>
    BY <2>1
  <2> QED  BY <2>2, <2>3, Zenon DEF b
<1>6. \A i \in DOMAIN SubSeq(c, n + 1, m) : \E j \in DOMAIN c : SubSeq(c, n + 1, m)[i] = c[j]
  <2> TAKE i \in DOMAIN SubSeq(c, n + 1, m)
  <2>1. i \in 1 .. m - n
    BY <1>3
  <2>2. n + i \in DOMAIN c
    BY <2>1
  <2> QED  BY <1>3, <2>1, <2>2, Zenon
<1> QED  BY <1>1, <1>4, <1>5, <1>6, Zenon DEF IsNextPart

(* The children of a populated directory stand for its nodes. *)
AreChildren(d, ino, c) ==
    /\ c \in Seq(Entries)
    /\ d[ino].node.kind = "dir" /\ d[ino].node.key \in DOMAIN Dirs
    /\ Len(c) = Len(Dirs[d[ino].node.key]) /\ DOMAIN c = DOMAIN Dirs[d[ino].node.key]
    /\ \A i \in DOMAIN c :
          /\ c[i].name = Dirs[d[ino].node.key][i].name /\ c[i].node = Dirs[d[ino].node.key][i].node
          /\ c[i].ino \in DOMAIN d /\ Key(d[c[i].ino].node) = Key(c[i].node)

LEMMA ChildrenStand ==
    ASSUME NEW d, NEW o, NEW next, TrackerOK(d, o, next), PopulatedOK(d, o),
           NEW ino \in DOMAIN d, d[ino].populated, NEW c, c = d[ino].children
    PROVE  AreChildren(d, ino, c)
<1> DEFINE key == d[ino].node.key
<1>1. /\ key \in DOMAIN Dirs /\ HasInodes(o, Dirs[key]) /\ d[ino].node.kind = "dir"
      /\ c = Populated(o, Dirs[key])
  BY Zenon DEF PopulatedOK
<1> HIDE DEF key
<1>2. /\ c \in Seq(Entries) /\ Len(c) = Len(Dirs[key]) /\ DOMAIN c = DOMAIN Dirs[key]
      /\ \A i \in DOMAIN Dirs[key] :
            /\ c[i].name = Dirs[key][i].name /\ c[i].node = Dirs[key][i].node
            /\ c[i].ino \in DOMAIN d /\ Key(d[c[i].ino].node) = Key(Dirs[key][i].node)
  BY <1>1, ChildrenType
<1>3. \A i \in DOMAIN c :
            /\ c[i].name = Dirs[key][i].name /\ c[i].node = Dirs[key][i].node
            /\ c[i].ino \in DOMAIN d /\ Key(d[c[i].ino].node) = Key(c[i].node)
  BY <1>2, Zenon
<1> QED  BY <1>1, <1>2, <1>3, Zenon DEF key, AreChildren

LEMMA GivesEntries ==
    ASSUME IInv, NEW t \in Thread, Grows,
           TrackerOK(data, ino_of, next_inode)', PopulatedOK(data, ino_of)', RootInv', HandlesInv',
           NEW ino, ino = listing[t].ino, ino \notin {0, ROOT_ID},
           ino \in DOMAIN data', data'[ino].populated,
           NEW c, c = data'[ino].children,
           NEW size \in Nat \ {0}, GiveEntries(t, c, size)
    PROVE  IInv'
<1>1. /\ listing = [u \in Thread |-> listing[u]] /\ ListingInv(t)
      /\ known \subseteq {ROOT_ID} \cup DOMAIN data
  BY Zenon DEF IInv
<1>2. /\ c \in Seq(Entries) /\ data'[ino].node.kind = "dir"
      /\ \A i \in DOMAIN c : c[i].ino \in DOMAIN data' /\ Key(data'[c[i].ino].node) = Key(c[i].node)
  <2>1. TrackerOK(data', ino_of', next_inode') /\ PopulatedOK(data', ino_of')
    BY Zenon
  <2>2. AreChildren(data', ino, c)
    BY <2>1, ChildrenStand, Zenon
  <2> QED  BY <2>2, Zenon DEF AreChildren
<1>3. PICK l : l = listing[t]
  BY Zenon
<1>4. /\ l.ino = ino /\ IsDir(ino) /\ l.names \in Seq(Entries)
      /\ DOMAIN l = {"ino", "handle", "names", "fresh", "end"}
  BY <1>1, <1>3, Zenon DEF ListingInv
<1>5. Len(l.names) <= Len(c) /\ l.names = SubSeq(c, 1, Len(l.names))
  <2>1. CASE data[ino].populated
    <3>1. data[ino].children = c
      BY <1>4, <2>1, Zenon DEF Grows, Extends, IsDir
    <3> QED  BY <1>1, <1>3, <1>4, <2>1, <3>1, Zenon DEF ListingInv
  <2>2. CASE ~data[ino].populated
    <3>1. l.names = <<>>
      BY <1>1, <1>3, <2>2, Zenon DEF ListingInv
    <3>2. Len(<<>>) = 0 /\ SubSeq(c, 1, 0) = <<>>
      BY <1>2
    <3> QED  BY <1>2, <3>1, <3>2
  <2> QED  BY <2>1, <2>2, Zenon
<1> DEFINE n == Len(l.names)
           m == IF n + size > Len(c) THEN Len(c) ELSE n + size
           entries == SubSeq(c, n + 1, m)
           names == SubSeq(c, 1, m)
<1>6. n \in Nat /\ m \in Nat /\ n <= m /\ m <= Len(c) /\ (n = m <=> n = Len(c)) /\ Len(c) \in Nat
  <2>1. n \in Nat /\ Len(c) \in Nat /\ n <= Len(c)
    BY <1>2, <1>4, <1>5, SeqDomain, Zenon
  <2> HIDE DEF n
  <2>2. PICK k : k = Len(c)
    BY Zenon
  <2>3. n \in Nat /\ k \in Nat /\ n <= k /\ m = IF n + size > k THEN k ELSE n + size
    BY <2>1, <2>2, Zenon
  <2> HIDE DEF m
  <2>4. m \in Nat /\ n <= m /\ m <= k /\ (n = m <=> n = k)
    BY <2>3, UpTo
  <2> QED  BY <2>1, <2>2, <2>4, Zenon
<1>7. /\ listing' = [listing EXCEPT ![t] = Took(l, entries)]
      /\ known' = known \cup {entries[i].ino : i \in DOMAIN entries}
      /\ Answer(t, [what |-> "entries", ino |-> l.ino])
  BY <1>3 DEF GiveEntries, Reply
<1> HIDE DEF m
<1>8. /\ l.names \o entries = names /\ names \in Seq(Entries) /\ Len(names) = m
      /\ \A i \in 1 .. m : names[i] = c[i]
      /\ entries = <<>> <=> n = m
      /\ \A i \in DOMAIN entries : \E j \in DOMAIN c : entries[i] = c[j]
  <2>1. l.names = SubSeq(c, 1, n)
    BY <1>5, Zenon
  <2> HIDE DEF n
  <2>2. IsNextPart(Entries, c, n, m)
    BY <1>2, <1>6, NextPart, Zenon
  <2> QED  BY <2>1, <2>2, Zenon DEF IsNextPart
<1> HIDE DEF entries, n
<1>9. /\ DOMAIN listing'[t] = {"ino", "handle", "names", "fresh", "end"}
      /\ listing'[t].ino = ino /\ listing'[t].names = names
      /\ listing'[t].fresh = FALSE /\ listing'[t].end = (n = m)
      /\ listing' = [listing EXCEPT ![t] = listing'[t]]
  <2> HIDE DEF names
  <2> QED  BY <1>1, <1>4, <1>7, <1>8, Zenon DEF Took
<1>10. \A i \in DOMAIN names : names[i].ino \in DOMAIN data' /\ Key(data'[names[i].ino].node) = Key(names[i].node)
  <2> HIDE DEF names
  <2>1. DOMAIN names = 1 .. m
    BY <1>8, SeqDomain, Zenon
  <2>2. \A i \in 1 .. m : i \in DOMAIN c
    <3>1. DOMAIN c = 1 .. Len(c)
      BY <1>2, SeqDomain, Zenon
    <3> QED  BY <1>6, <3>1
  <2> TAKE i \in DOMAIN names
  <2>3. i \in DOMAIN c /\ names[i] = c[i]
    BY <1>8, <2>1, <2>2, Zenon
  <2> QED  BY <1>2, <2>3, Zenon
<1>11. ListingInv(t)'
  <2>1. names = SubSeq(c, 1, Len(names))
    BY <1>8, Zenon
  <2> HIDE DEF names
  <2>2. listing'[t].end => Len(names) = Len(c)
    BY <1>6, <1>8, <1>9, Zenon
  <2>3. listing'[t].fresh \in BOOLEAN /\ listing'[t].end \in BOOLEAN
    BY <1>9, Zenon
  <2>4. Len(names) <= Len(c)
    BY <1>6, <1>8, Zenon
  <2>5. \A i \in DOMAIN names : Stands(names[i].ino, names[i].node)'
    BY <1>10, Zenon DEF Stands
  <2>6. IsDir(ino)'
    BY <1>2, Zenon DEF IsDir
  <2>7. names \in Seq(Entries)
    BY <1>8, Zenon
  <2> QED  BY <1>9, <2>1, <2>2, <2>3, <2>4, <2>5, <2>6, <2>7, Zenon DEF ListingInv
<1>12. known' \subseteq {ROOT_ID} \cup DOMAIN data'
  <2>1. \A i \in DOMAIN entries : entries[i].ino \in DOMAIN data'
    BY <1>2, <1>8, ZenonT(30)
  <2>2. DOMAIN data \subseteq DOMAIN data'
    BY Zenon DEF Grows, Extends
  <2> QED  BY <1>1, <1>7, <2>1, <2>2, Zenon
<1>13. [what |-> "entries", ino |-> l.ino].what \notin {"entry", "attr", "panic"}
  BY Zenon
<1> QED  BY <1>7, <1>9, <1>11, <1>12, <1>13, Replies, Zenon

-----------------------------------------------------------------------------
(* lookup().                                                               *)

LEMMA RootFound ==
    ASSUME RootInv, NEW name \in DOMAIN root_nodes
    PROVE  Found(ROOT_ID, name, root_nodes[name])
<1>1. name \in RootNames /\ Stands(root_nodes[name], Roots[RootNode(name)].node)
  BY Zenon DEF RootInv
<1>2. RootNode(name) \in DOMAIN Roots /\ Roots[RootNode(name)].name = name
  BY <1>1, Zenon DEF RootNames, RootNode
<1> QED  BY <1>1, <1>2, Zenon DEF Found

LEMMA AttrRequest ==
    ASSUME NEW t, NEW q, th'[t] = q, DOMAIN q = Fields, q.pc = "attr", q.op = "lookup",
           Found(q.ino, q.name, q.left)'
    PROVE  RequestInv(t)'
BY Zenon DEF RequestInv, Pcs

LEMMA KnownOrRoot ==
    ASSUME IInv, NEW ino \in known, ino # ROOT_ID
    PROVE  ino \in DOMAIN data
BY Zenon DEF IInv

LEMMA LookupStep ==
    ASSUME IInv, NEW t \in Thread, NEW parent, NEW name, lookup(t, parent, name)
    PROVE  IInv' /\ KeepsInodes
<1> DEFINE r == [Idle EXCEPT !.op = "lookup", !.ino = parent, !.name = name]
<1>1. DOMAIN r = Fields /\ r.op = "lookup" /\ r.ino = parent /\ r.name = name /\ r.pc = "idle"
  BY Zenon DEF Idle, Fields
<1>2. parent \in known /\ UNCHANGED <<quiet, known>>
  BY Zenon DEF lookup
<1>3. Grows /\ KeepsInodes /\ data' = data
  BY <1>2, QuietStep, Zenon DEF quiet, tracker
<1>4. CASE parent = ROOT_ID /\ name \in DOMAIN root_nodes
  <2> DEFINE q == [r EXCEPT !.pc = "attr", !.left = root_nodes[name]]
  <2>1. PICK x : x = root_nodes[name]
    BY Zenon
  <2>2. Goto(t, q) /\ UNCHANGED out
    BY <1>4, Zenon DEF lookup
  <2>3. DOMAIN q = Fields /\ q.pc = "attr" /\ q.op = "lookup" /\ q.ino = parent /\ q.name = name /\ q.left = x
    <3> HIDE DEF r
    <3> QED  BY <1>1, <2>1, Zenon DEF Fields
  <2>4. Found(parent, name, x)'
    <3>1. Found(parent, name, x)
      BY <1>4, <2>1, RootFound, Zenon DEF IInv
    <3> QED  BY <1>3, <3>1, FoundKept, Zenon
  <2>5. PICK p : p = q
    BY Zenon
  <2> HIDE DEF q
  <2>6. th'[t] = p => RequestInv(t)'
    BY <2>3, <2>4, <2>5, AttrRequest, Zenon
  <2>7. p.pc # "idle" /\ Goto(t, p)
    BY <2>2, <2>3, <2>5, Zenon
  <2> QED  BY <1>2, <2>2, <2>6, <2>7, QuietMove, Zenon
<1>5. CASE parent = ROOT_ID /\ name \notin DOMAIN root_nodes
  <2> DEFINE q == [r EXCEPT !.pc = "get_by_basename"]
  <2>1. Goto(t, q) /\ UNCHANGED out
    BY <1>5, Zenon DEF lookup
  <2>2. DOMAIN q = Fields /\ q.pc = "get_by_basename" /\ q.op = "lookup" /\ q.ino = ROOT_ID
    <3> HIDE DEF r
    <3> QED  BY <1>1, <1>5, Zenon DEF Fields
  <2> HIDE DEF q
  <2>3. th'[t] = q => RequestInv(t)'
    BY <2>2, Zenon DEF RequestInv, Pcs
  <2>4. q.pc # "idle"
    BY <2>2, Zenon
  <2> QED  BY <1>2, <2>1, <2>3, <2>4, QuietMove, Zenon
<1>6. CASE parent # ROOT_ID
  <2>1. parent \in DOMAIN data
    BY <1>2, <1>6, KnownOrRoot, Zenon
  <2>2. CASE data[parent].node.kind # "dir"
    <3>1. Answer(t, Error("ENOTDIR")) /\ Error("ENOTDIR").what \notin {"entry", "attr", "panic"}
      BY <1>6, <2>2, Zenon DEF lookup, Error
    <3> QED  BY <1>2, <3>1, QuietReply, Zenon
  <2>3. CASE data[parent].node.kind = "dir" /\ data[parent].populated
    <3>1. PICK c : c = data[parent].children
      BY Zenon
    <3>2. FoundOrNot(t, c, r)
      BY <1>6, <2>3, <3>1, Zenon DEF lookup
    <3>3. ASSUME NEW i \in DOMAIN c PROVE Found(parent, c[i].name, c[i].ino)
      <4>1. TrackerOK(data, ino_of, next_inode) /\ PopulatedOK(data, ino_of)
        BY Zenon DEF IInv
      <4>2. AreChildren(data, parent, c)
        BY <2>1, <2>3, <3>1, <4>1, ChildrenStand, Zenon
      <4>3. PICK here : here = Dirs[data[parent].node.key]
        BY Zenon
      <4>4. /\ i \in DOMAIN here /\ c[i].name = here[i].name /\ c[i].ino \in DOMAIN data
            /\ Key(data[c[i].ino].node) = Key(here[i].node)
        BY <3>3, <4>2, <4>3, Zenon DEF AreChildren
      <4> QED  BY <2>1, <2>3, <4>3, <4>4, Zenon DEF Found, Stands, IsDir
    <3>4. \A i \in DOMAIN c : Found(parent, c[i].name, c[i].ino)'
      BY <1>3, <3>3, FoundKept, Zenon
    <3> HIDE DEF r
    <3>5. UNCHANGED listing
      BY <1>2, Zenon DEF quiet
    <3>6. IInv'
      BY <1>1, <1>2, <3>2, <3>4, <3>5, QuietStep, FindsChild, Zenon
    <3> QED  BY <1>3, <3>6, Zenon
  <2>4. CASE data[parent].node.kind = "dir" /\ ~data[parent].populated
    <3> DEFINE q == [r EXCEPT !.pc = "get_directory"]
    <3>1. Goto(t, q) /\ UNCHANGED out
      BY <1>6, <2>4, Zenon DEF lookup
    <3>2. DOMAIN q = Fields /\ q.pc = "get_directory" /\ q.op = "lookup" /\ q.ino = parent
      <4> HIDE DEF r
      <4> QED  BY <1>1, Zenon DEF Fields
    <3> HIDE DEF q
    <3>3. th'[t] = q => RequestInv(t)'
      BY <1>3, <2>1, <2>4, <3>2, Zenon DEF RequestInv, Pcs, IsDir
    <3>4. q.pc # "idle"
      BY <3>2, Zenon
    <3> QED  BY <1>2, <3>1, <3>3, <3>4, QuietMove, Zenon
  <2> QED  BY <2>2, <2>3, <2>4, Zenon
<1> QED  BY <1>4, <1>5, <1>6, Zenon

LEMMA GetByBasenameStep ==
    ASSUME IInv, NEW t \in Thread, GetByBasename(t)
    PROVE  IInv' /\ KeepsInodes
<1>1. UNCHANGED <<quiet, known>> /\ th[t].pc = "get_by_basename" /\ RequestInv(t) /\ provided \subseteq RootNames
  BY Zenon DEF GetByBasename, Goes, IInv, RootInv
<1>2. ASSUME NEW e \in {"EIO", "ENOENT"}, Answer(t, Error(e)) PROVE IInv' /\ KeepsInodes
  <2>1. Error(e).what \notin {"entry", "attr", "panic"}
    BY Zenon DEF Error
  <2> QED  BY <1>1, <1>2, <2>1, QuietReply, Zenon
<1>3. CASE th[t].name \in provided /\ Goto(t, [th[t] EXCEPT !.pc = "second_look"]) /\ UNCHANGED out
  <2> DEFINE q == [th[t] EXCEPT !.pc = "second_look"]
  <2>1. /\ DOMAIN q = Fields /\ q.pc = "second_look" /\ q.op = "lookup" /\ q.ino = ROOT_ID
        /\ q.name \in RootNames
    BY <1>1, <1>3, Zenon DEF RequestInv, Fields
  <2>2. Goto(t, q)
    BY <1>3, Zenon
  <2> HIDE DEF q
  <2>3. PICK p : p = q
    BY Zenon
  <2>4. th'[t] = p => RequestInv(t)'
    BY <2>1, <2>3, Zenon DEF RequestInv, Pcs
  <2> QED  BY <1>1, <1>3, <2>1, <2>2, <2>3, <2>4, QuietMove, Zenon
<1> QED  BY <1>2, <1>3, Zenon DEF GetByBasename

LEMMA SecondLookStep ==
    ASSUME IInv, NEW t \in Thread, SecondLook(t)
    PROVE  IInv' /\ KeepsInodes
<1>1. /\ UNCHANGED <<quiet, known, out>> /\ th[t].pc = "second_look" /\ RequestInv(t)
      /\ UNCHANGED <<quiet, known>>
  BY Zenon DEF SecondLook, Goes, IInv
<1>2. DOMAIN th[t] = Fields /\ th[t].op = "lookup" /\ th[t].ino = ROOT_ID /\ th[t].name \in RootNames
  BY <1>1, Zenon DEF RequestInv
<1>3. CASE th[t].name \in DOMAIN root_nodes
  <2>1. PICK q : q = [th[t] EXCEPT !.pc = "attr", !.left = root_nodes[th[t].name]]
    BY Zenon
  <2>2. Goto(t, q)
    BY <1>3, <2>1, Zenon DEF SecondLook
  <2>3. /\ DOMAIN q = Fields /\ q.pc = "attr" /\ q.op = "lookup" /\ q.ino = ROOT_ID
        /\ q.name = th[t].name /\ q.left = root_nodes[th[t].name]
    BY <1>2, <2>1, Zenon DEF Fields
  <2>4. Found(q.ino, q.name, q.left)
    BY <1>3, <2>3, RootFound, Zenon DEF IInv
  <2>5. Found(q.ino, q.name, q.left)'
    BY <1>1, <2>4, QuietStep, FoundKept, Zenon
  <2>6. th'[t] = q => RequestInv(t)'
    BY <2>3, <2>5, AttrRequest, Zenon
  <2> QED  BY <1>1, <2>2, <2>3, <2>6, QuietMove, Zenon
<1>4. CASE th[t].name \notin DOMAIN root_nodes
  <2>1. PICK q : q = [th[t] EXCEPT !.pc = "insert_root"]
    BY Zenon
  <2>2. Goto(t, q)
    BY <1>4, <2>1, Zenon DEF SecondLook
  <2>3. /\ DOMAIN q = Fields /\ q.pc = "insert_root" /\ q.op = "lookup" /\ q.ino = ROOT_ID
        /\ q.name \in RootNames
    BY <1>2, <2>1, Zenon DEF Fields
  <2>4. th'[t] = q => RequestInv(t)'
    BY <2>3, Zenon DEF RequestInv, Pcs
  <2> QED  BY <1>1, <2>2, <2>3, <2>4, QuietMove, Zenon
<1> QED  BY <1>3, <1>4, Zenon

(* What a step that puts contents into the tracker keeps. *)
LEMMA PutStep ==
    ASSUME IInv, NEW n \in Nodes, Becomes(put(Tracker, n)), NEW x, x = put(Tracker, n).ino_of[Key(n)]
    PROVE  /\ Grows /\ TrackerOK(data, ino_of, next_inode)' /\ PopulatedOK(data, ino_of)'
           /\ x \in DOMAIN data' /\ Key(data'[x].node) = Key(n)
<1>1. TrackerOK(data, ino_of, next_inode) /\ PopulatedOK(data, ino_of)
  BY Zenon DEF IInv
<1>2. PICK tr : tr = put(Tracker, n)
  BY Zenon
<1>3. /\ TrackerOK(tr.data, tr.ino_of, tr.next) /\ PopulatedOK(tr.data, tr.ino_of)
      /\ Extends(data, ino_of, tr.data, tr.ino_of)
      /\ tr.ino_of[Key(n)] \in DOMAIN tr.data /\ Key(tr.data[tr.ino_of[Key(n)]].node) = Key(n)
  BY <1>1, <1>2, PutAdds, Zenon
<1>4. data' = tr.data /\ ino_of' = tr.ino_of /\ next_inode' = tr.next /\ x = tr.ino_of[Key(n)]
  BY <1>2, Zenon DEF Becomes
<1> QED  BY <1>3, <1>4, Zenon DEF Grows

(* A name in the root is given the inode of its contents, which it has     *)
(* already if it has one.                                                  *)
LEMMA RootSet ==
    ASSUME IInv, Grows, TrackerOK(data, ino_of, next_inode)', UNCHANGED provided,
           NEW name \in RootNames, NEW ino, ino \in DOMAIN data',
           Key(data'[ino].node) = Key(Roots[RootNode(name)].node),
           root_nodes' = With(root_nodes, name, ino)
    PROVE  RootInv' /\ KeepsInodes
<1>1. RootInv
  BY Zenon DEF IInv
<1>2. /\ DOMAIN root_nodes' = DOMAIN root_nodes \cup {name} /\ root_nodes'[name] = ino
      /\ \A n \in DOMAIN root_nodes \ {name} : root_nodes'[n] = root_nodes[n]
  BY Zenon DEF With
<1>3. \A n \in DOMAIN root_nodes : /\ root_nodes[n] \in DOMAIN data'
                                   /\ Key(data'[root_nodes[n]].node) = Key(Roots[RootNode(n)].node)
  BY <1>1, Zenon DEF RootInv, Stands, Grows, Extends
<1>4. RootInv'
  <2>1. provided' \subseteq RootNames
    BY <1>1, Zenon DEF RootInv
  <2>2. \A n \in DOMAIN root_nodes' :
           /\ n \in RootNames /\ root_nodes'[n] \in DOMAIN data'
           /\ Key(data'[root_nodes'[n]].node) = Key(Roots[RootNode(n)].node)
    BY <1>1, <1>2, <1>3, Zenon DEF RootInv
  <2> QED  BY <2>1, <2>2, Zenon DEF RootInv, Stands
<1>5. name \in DOMAIN root_nodes => root_nodes[name] = ino
  <2> HAVE name \in DOMAIN root_nodes
  <2>1. \A i \in DOMAIN data' : ino_of'[Key(data'[i].node)] = i
    BY Zenon DEF TrackerOK
  <2> QED  BY <1>3, <2>1, Zenon
<1>6. KeepsInodes
  <2>1. \A i \in DOMAIN data : /\ i \in DOMAIN data' /\ Key(data'[i].node) = Key(data[i].node)
                               /\ (data[i].populated => data'[i] = data[i])
    BY Zenon DEF Grows, Extends
  <2> QED  BY <1>2, <1>5, <2>1, Zenon DEF KeepsInodes
<1> QED  BY <1>4, <1>6, Zenon

LEMMA RootIsNode ==
    ASSUME NEW name \in RootNames
    PROVE  /\ RootNode(name) \in DOMAIN Roots /\ Roots[RootNode(name)].name = name
           /\ Roots[RootNode(name)].node \in Nodes
           /\ \A i \in DOMAIN Roots : Roots[i].name = name => i = RootNode(name)
<1>1. RootNode(name) \in DOMAIN Roots /\ Roots[RootNode(name)].name = name
  BY Zenon DEF RootNames, RootNode
<1> QED  BY <1>1, StoreAssumption, Zenon DEF Nodes

(* What is left alone, while the inodes grow. *)
LEMMA SameListing ==
    ASSUME IInv, NEW t \in Thread, Grows, TrackerOK(data, ino_of, next_inode)', UNCHANGED listing
    PROVE  listing' = [listing EXCEPT ![t] = listing'[t]] /\ ListingInv(t)'
<1>1. ListingInv(t) /\ listing = [u \in Thread |-> listing[u]]
  BY Zenon DEF IInv
<1>2. listing' = [listing EXCEPT ![t] = listing'[t]]
  BY <1>1, Zenon
<1> QED  BY <1>1, <1>2, ListingKept, Zenon

LEMMA SameHandles ==
    ASSUME IInv, UNCHANGED opened
    PROVE  HandlesInv'
BY Zenon DEF IInv, HandlesInv, opened

LEMMA SameKnown ==
    ASSUME IInv, Grows, UNCHANGED known
    PROVE  known' \subseteq {ROOT_ID} \cup DOMAIN data'
BY Zenon DEF IInv, Grows, Extends

LEMMA InsertRootStep ==
    ASSUME IInv, NEW t \in Thread, InsertRoot(t)
    PROVE  IInv' /\ KeepsInodes
<1>1. th[t].pc = "insert_root" /\ RequestInv(t) /\ UNCHANGED <<provided, opened, out, known, listing>>
  BY Zenon DEF InsertRoot, Goes, IInv
<1>2. DOMAIN th[t] = Fields /\ th[t].op = "lookup" /\ th[t].ino = ROOT_ID /\ th[t].name \in RootNames
  BY <1>1, Zenon DEF RequestInv
<1>3. PICK name \in RootNames : name = th[t].name
  BY <1>2, Zenon
<1>4. PICK n : n = Roots[RootNode(name)].node
  BY Zenon
<1>5. PICK x : x = put(Tracker, n).ino_of[Key(n)]
  BY Zenon
<1>6. /\ Becomes(put(Tracker, n)) /\ root_nodes' = With(root_nodes, name, x)
      /\ Goto(t, [th[t] EXCEPT !.pc = "attr", !.left = x])
  BY <1>3, <1>4, <1>5, Zenon DEF InsertRoot
<1>7. n \in Nodes /\ RootNode(name) \in DOMAIN Roots /\ Roots[RootNode(name)].name = name
  BY <1>4, RootIsNode, Zenon
<1>8. /\ Grows /\ TrackerOK(data, ino_of, next_inode)' /\ PopulatedOK(data, ino_of)'
      /\ x \in DOMAIN data' /\ Key(data'[x].node) = Key(n)
  BY <1>5, <1>6, <1>7, PutStep, Zenon
<1>9. RootInv' /\ KeepsInodes
  BY <1>1, <1>4, <1>6, <1>8, RootSet, Zenon
<1>10. PICK q : q = [th[t] EXCEPT !.pc = "attr", !.left = x]
  BY Zenon
<1>11. /\ DOMAIN q = Fields /\ q.pc = "attr" /\ q.op = "lookup" /\ q.ino = ROOT_ID
       /\ q.name = name /\ q.left = x
  BY <1>2, <1>3, <1>10, Zenon DEF Fields
<1>12. Found(q.ino, q.name, q.left)'
  BY <1>4, <1>7, <1>8, <1>11, Zenon DEF Found, Stands
<1>13. th'[t] = q => RequestInv(t)'
  BY <1>11, <1>12, AttrRequest, Zenon
<1>14. IInv'
  BY <1>1, <1>6, <1>8, <1>9, <1>10, <1>11, <1>13, SameListing, SameHandles, SameKnown, GoesOn, Zenon
<1> QED  BY <1>9, <1>14, Zenon

(* The attributes read from the tracker: a populated directory has as many *)
(* children as its contents have entries.                                  *)
LEMMA AttrFits ==
    ASSUME IInv, NEW ino \in DOMAIN data
    PROVE  Fits(Attr(data[ino]), data[ino])
<1>1. PICK d : d = data[ino]
  BY Zenon
<1>2. Attr(d).kind = d.node.kind /\ Attr(d).x = d.node.x
  BY DEF Attr
<1>3. CASE ~d.populated
  <2>1. Attr(d).size = d.node.size
    BY <1>3 DEF Attr
  <2> QED  BY <1>1, <1>2, <2>1, Zenon DEF Fits
<1>4. CASE d.populated
  <2>1. PICK here : here = Dirs[d.node.key]
    BY Zenon
  <2>2. /\ d.node.kind = "dir" /\ d.node.key \in DOMAIN Dirs /\ d.children = Populated(ino_of, here)
        /\ d.children \in Seq(Entries)
    BY <1>1, <1>4, <2>1 DEF IInv, PopulatedOK, TrackerOK
  <2>3. here \in Seq({here[i] : i \in DOMAIN here})
    BY <2>1, <2>2, StoreAssumption, Zenon
  <2>4. DOMAIN d.children = DOMAIN here
    BY <2>2, Zenon DEF Populated
  <2>5. Len(d.children) = Len(here)
    BY <2>2, <2>3, <2>4
  <2>6. Attr(d).size = Len(d.children)
    BY <1>4 DEF Attr
  <2> QED  BY <1>1, <1>2, <1>4, <2>1, <2>2, <2>5, <2>6, Zenon DEF Fits
<1> QED  BY <1>3, <1>4, Zenon

LEMMA LookupAttrStep ==
    ASSUME IInv, NEW t \in Thread, LookupAttr(t)
    PROVE  IInv' /\ KeepsInodes
<1>1. /\ th[t].pc = "attr" /\ RequestInv(t) /\ UNCHANGED quiet
      /\ th = [u \in Thread |-> th[u]] /\ out = [u \in Thread |-> out[u]]
      /\ known \subseteq {ROOT_ID} \cup DOMAIN data
  BY Zenon DEF LookupAttr, Goes, IInv
<1>2. /\ UNCHANGED <<provided, tracker, root_nodes, opened, listing>>
      /\ data' = data
  BY <1>1, Zenon DEF quiet, tracker
<1>3. Grows /\ TrackerOK(data, ino_of, next_inode)' /\ PopulatedOK(data, ino_of)'
  BY <1>2, NothingAdded, Zenon
<1>4. RootInv' /\ KeepsInodes
  BY <1>2, <1>3, RootKept, GrowsKeeps, Zenon DEF IInv
<1>5. PICK ino, name, left : ino = th[t].ino /\ name = th[t].name /\ left = th[t].left
  BY Zenon
<1>6. DOMAIN th[t] = Fields /\ Found(ino, name, left)
  BY <1>1, <1>5, Zenon DEF RequestInv
<1>7. Found(ino, name, left)'
  BY <1>3, <1>6, FoundKept, Zenon
<1>8. left \in DOMAIN data
  BY <1>6, Zenon DEF Found, Stands
<1>9. /\ Answer(t, [what |-> "entry", ino |-> left, attr |-> Attr(data[left])])
      /\ known' = known \cup {left}
  BY <1>5, <1>8, Zenon DEF LookupAttr
<1>10. /\ th'[t] = [th[t] EXCEPT !.pc = "idle"] /\ th' = [th EXCEPT ![t] = th'[t]]
       /\ out'[t] = [what |-> "entry", ino |-> left, attr |-> Attr(data[left])]
       /\ out' = [out EXCEPT ![t] = out'[t]]
  BY <1>1, <1>9, Zenon DEF Answer
<1>11. /\ DOMAIN th'[t] = Fields /\ th'[t].pc = "idle" /\ th'[t].ino = ino /\ th'[t].name = name
       /\ out'[t].what = "entry" /\ out'[t].ino = left /\ out'[t].attr = Attr(data[left])
  BY <1>5, <1>6, <1>10 DEF Fields
<1>12. RequestInv(t)'
  BY <1>11, Zenon DEF RequestInv, Pcs
<1>13. AnswerInv(t)'
  <2>1. Describes(out[t], data)'
    BY <1>2, <1>8, <1>11, AttrFits, Zenon DEF Describes
  <2> QED  BY <1>7, <1>11, <2>1, Zenon DEF AnswerInv
<1>14. known' \subseteq {ROOT_ID} \cup DOMAIN data'
  BY <1>1, <1>2, <1>8, <1>9, Zenon
<1>15. IInv'
  BY <1>2, <1>3, <1>4, <1>10, <1>12, <1>13, <1>14, SameListing, SameHandles, OneMoves, Zenon
<1> QED  BY <1>4, <1>15, Zenon

-----------------------------------------------------------------------------
(* get_directory_children().                                               *)

LEMMA GetDirectoryStep ==
    ASSUME IInv, NEW t \in Thread, GetDirectory(t)
    PROVE  IInv' /\ KeepsInodes
<1>1. UNCHANGED <<quiet, known>> /\ th[t].pc = "get_directory" /\ RequestInv(t)
  BY Zenon DEF GetDirectory, Goes, IInv
<1>2. CASE Answer(t, Error("EIO"))
  <2>1. Error("EIO").what \notin {"entry", "attr", "panic"}
    BY Zenon DEF Error
  <2> QED  BY <1>1, <1>2, <2>1, QuietReply, Zenon
<1>3. CASE data[th[t].ino].node.key \notin Missing /\ Goto(t, [th[t] EXCEPT !.pc = "populate"]) /\ UNCHANGED out
  <2>1. PICK q : q = [th[t] EXCEPT !.pc = "populate"]
    BY Zenon
  <2>2. /\ DOMAIN q = Fields /\ q.pc = "populate" /\ q.ino = th[t].ino /\ q.op = th[t].op /\ q.left = th[t].left
    BY <1>1, <2>1, Zenon DEF RequestInv, Fields
  <2>3. /\ IsDir(q.ino) /\ data[q.ino].node.key \notin Missing
        /\ q.op # "lookup" => q.ino = listing[t].ino /\ q.left \in Nat \ {0} /\ ~listing[t].end
    BY <1>1, <1>3, <2>2, Zenon DEF RequestInv
  <2>4. data' = data /\ listing' = listing
    BY <1>1, Zenon DEF quiet, tracker
  <2>5. th'[t] = q => RequestInv(t)'
    BY <2>2, <2>3, <2>4, Zenon DEF RequestInv, Pcs, IsDir
  <2> QED  BY <1>1, <1>3, <2>1, <2>2, <2>5, QuietMove, Zenon
<1> QED  BY <1>2, <1>3, Zenon DEF GetDirectory

LEMMA PopulateStep ==
    ASSUME IInv, NEW t \in Thread, Populate(t)
    PROVE  IInv' /\ KeepsInodes
<1>1. /\ th[t].pc = "populate" /\ RequestInv(t) /\ UNCHANGED <<provided, root_nodes, opened>>
      /\ TrackerOK(data, ino_of, next_inode) /\ PopulatedOK(data, ino_of)
  BY Zenon DEF Populate, Goes, IInv
<1>2. PICK r : r = th[t]
  BY Zenon
<1>3. PICK key : key = data[r.ino].node.key
  BY Zenon
<1>4. PICK tr \in PutAll(Dirs[key]) :
         /\ data' = replace(tr.data, r.ino, Populated(tr.ino_of, Dirs[key]))
         /\ ino_of' = tr.ino_of /\ next_inode' = tr.next
         /\ IF r.op = "lookup" THEN FoundOrNot(t, Populated(tr.ino_of, Dirs[key]), r) /\ UNCHANGED <<known, listing>>
            ELSE GiveEntries(t, Populated(tr.ino_of, Dirs[key]), r.left)
  BY <1>2, <1>3, Zenon DEF Populate
<1>5. PICK c : c = Populated(tr.ino_of, Dirs[key])
  BY Zenon
<1>6. /\ data' = replace(tr.data, r.ino, c)
      /\ ino_of' = tr.ino_of /\ next_inode' = tr.next
      /\ IF r.op = "lookup" THEN FoundOrNot(t, c, r) /\ UNCHANGED <<known, listing>>
         ELSE GiveEntries(t, c, r.left)
  BY <1>4, <1>5, Zenon
<1>7. /\ DOMAIN r = Fields /\ r.ino \in DOMAIN data /\ data[r.ino].node.kind = "dir" /\ key \notin Missing
      /\ r.op # "lookup" => r.ino = listing[t].ino /\ r.left \in Nat \ {0}
  BY <1>1, <1>2, <1>3, Zenon DEF RequestInv, IsDir
<1>8. key \in DOMAIN Dirs
  <2>1. data[r.ino].node \in Nodes
    BY <1>1, <1>7, Zenon DEF TrackerOK
  <2> QED  BY <1>3, <1>7, <2>1, StoreAssumption, Zenon
<1>9. /\ TrackerOK(tr.data, tr.ino_of, tr.next) /\ PopulatedOK(tr.data, tr.ino_of)
      /\ Extends(data, ino_of, tr.data, tr.ino_of) /\ HasInodes(tr.ino_of, Dirs[key])
  <2>1. PICK nodes : nodes = Dirs[key]
    BY Zenon
  <2>2. nodes \in Seq({nodes[i] : i \in DOMAIN nodes}) /\ \A i \in DOMAIN nodes : nodes[i].node \in Nodes
    BY <1>8, <2>1, InDirs, Zenon
  <2>3. tr \in PutAll(nodes)
    BY <1>4, <2>1, Zenon
  <2> QED  BY <1>1, <2>1, <2>2, <2>3, PutAllAdds, Zenon
<1>10. r.ino \in DOMAIN tr.data /\ tr.data[r.ino].node = data[r.ino].node
  BY <1>7, <1>9, Zenon DEF Extends
<1>11. /\ TrackerOK(data', ino_of', next_inode') /\ PopulatedOK(data', ino_of')
       /\ Extends(data, ino_of, data', ino_of')
       /\ r.ino \in DOMAIN data' /\ data'[r.ino].populated /\ data'[r.ino].children = c
  <2>1. PICK d2, o2, n2, ino : d2 = tr.data /\ o2 = tr.ino_of /\ n2 = tr.next /\ ino = r.ino
    BY Zenon
  <2>2. PICK d3 : d3 = replace(d2, ino, c)
    BY Zenon
  <2>3. d3 = data' /\ o2 = ino_of' /\ n2 = next_inode'
    BY <1>6, <2>1, <2>2, Zenon
  <2>4. ino \in DOMAIN d2 /\ d2[ino].node.kind = "dir" /\ d2[ino].node.key = key
    BY <1>3, <1>7, <1>10, <2>1, Zenon
  <2>5. /\ TrackerOK(d2, o2, n2) /\ PopulatedOK(d2, o2) /\ Extends(data, ino_of, d2, o2)
        /\ HasInodes(o2, Dirs[d2[ino].node.key])
    BY <1>9, <2>1, <2>4, Zenon
  <2>6. c = Populated(o2, Dirs[d2[ino].node.key]) /\ d2[ino].node.key \in DOMAIN Dirs
    BY <1>5, <1>8, <2>1, <2>4, Zenon
  <2>7. /\ TrackerOK(d3, o2, n2) /\ PopulatedOK(d3, o2) /\ Extends(data, ino_of, d3, o2)
        /\ ino \in DOMAIN d3 /\ d3[ino].populated /\ d3[ino].children = c
    <3>1. Fills(data, ino_of, d2, o2, n2, ino, c, d3)
      BY <2>2, <2>4, <2>5, <2>6, Zenon DEF Fills
    <3> QED  BY <3>1, Fill
  <2> QED  BY <2>1, <2>3, <2>7, Zenon
<1>12. Grows /\ RootInv' /\ KeepsInodes /\ HandlesInv'
  <2>1. Grows
    BY <1>11, Zenon DEF Grows
  <2> QED  BY <1>1, <2>1, RootKept, GrowsKeeps, SameHandles, Zenon DEF IInv
<1>13. CASE r.op = "lookup"
  <2>1. ASSUME NEW i \in DOMAIN c PROVE Found(r.ino, c[i].name, c[i].ino)'
    <3>1. AreChildren(data', r.ino, c)
      BY <1>11, ChildrenStand, Zenon
    <3>2. PICK here : here = Dirs[data'[r.ino].node.key]
      BY Zenon
    <3>3. /\ i \in DOMAIN here /\ c[i].name = here[i].name /\ c[i].ino \in DOMAIN data'
          /\ Key(data'[c[i].ino].node) = Key(here[i].node) /\ data'[r.ino].node.kind = "dir"
      BY <2>1, <3>1, <3>2, Zenon DEF AreChildren
    <3> QED  BY <1>11, <3>2, <3>3, Zenon DEF Found, Stands, IsDir
  <2>2. FoundOrNot(t, c, r) /\ UNCHANGED <<known, listing>>
    BY <1>6, <1>13, Zenon
  <2>3. IInv'
    BY <1>7, <1>11, <1>12, <1>13, <2>1, <2>2, SameKnown, FindsChild, Zenon
  <2> QED  BY <1>12, <2>3, Zenon
<1>14. CASE r.op # "lookup"
  <2>1. GiveEntries(t, c, r.left) /\ r.ino = listing[t].ino /\ r.left \in Nat \ {0}
    BY <1>6, <1>7, <1>14, Zenon
  <2>2. r.ino \notin {0, ROOT_ID}
    BY <1>1, <1>7 DEF TrackerOK, ROOT_ID
  <2>3. IInv'
    BY <1>11, <1>12, <2>1, <2>2, GivesEntries, Zenon
  <2> QED  BY <1>12, <2>3, Zenon
<1> QED  BY <1>13, <1>14, Zenon

-----------------------------------------------------------------------------
(* opendir(), readdir(), releasedir().                                     *)

(* A walk that is not through a directory of the tracker. *)
LEMMA NoDirWalk ==
    ASSUME NEW t, NEW l, listing'[t] = l, DOMAIN l = {"ino", "handle", "names", "fresh", "end"},
           l.ino \in {0, ROOT_ID}, l.fresh \in BOOLEAN, l.end \in BOOLEAN, l.ino = 0 => ~l.end,
           l.names \in Seq(Entries), \A i \in DOMAIN l.names : Stands(l.names[i].ino, l.names[i].node)'
    PROVE  ListingInv(t)'
BY Zenon DEF ListingInv

LEMMA OpendirStep ==
    ASSUME IInv, NEW t \in Thread, NEW ino, opendir(t, ino)
    PROVE  IInv' /\ KeepsInodes
<1>1. /\ th[t].pc = "idle" /\ ino \in known
      /\ UNCHANGED <<provided, tracker, root_nodes, file_handles, th, out, known>>
      /\ RequestInv(t) /\ AnswerInv(t) /\ RootInv /\ HandlesInv
      /\ listing = [u \in Thread |-> listing[u]] /\ th = [u \in Thread |-> th[u]] /\ out = [u \in Thread |-> out[u]]
  BY Zenon DEF opendir, Starts, IInv
<1>2. Grows /\ TrackerOK(data, ino_of, next_inode)' /\ PopulatedOK(data, ino_of)' /\ data' = data
  BY <1>1, NothingAdded, Zenon DEF tracker
<1>3. RootInv' /\ KeepsInodes /\ known' \subseteq {ROOT_ID} \cup DOMAIN data'
  BY <1>1, <1>2, RootKept, GrowsKeeps, SameKnown, Zenon
<1>4. HandlesInv'
  <2>1. CASE ino = ROOT_ID
    <3>1. /\ dir_handles' = With(dir_handles, handles, [lists |-> provided, last |-> 0])
          /\ handles' = handles + 1 /\ file_handles' = file_handles
      BY <2>1, <1>1, Zenon DEF opendir
    <3>2. DOMAIN dir_handles' = DOMAIN dir_handles \cup {handles}
      BY <3>1, Zenon DEF With
    <3> QED  BY <1>1, <3>1, <3>2 DEF HandlesInv
  <2>2. CASE ino # ROOT_ID
    BY <1>1, <2>2, Zenon DEF opendir, HandlesInv
  <2> QED  BY <2>1, <2>2, Zenon
<1>5. ListingInv(t)' /\ listing' = [listing EXCEPT ![t] = listing'[t]]
  <2>1. PICK l : /\ listing' = [listing EXCEPT ![t] = l]
                 /\ DOMAIN l = {"ino", "handle", "names", "fresh", "end"}
                 /\ l.ino = ino /\ l.names = <<>> /\ l.fresh = TRUE /\ l.end = FALSE
    <3>1. CASE ino = ROOT_ID
      <4> WITNESS [NoListing EXCEPT !.ino = ino, !.handle = handles]
      <4> QED  BY <3>1, Zenon DEF opendir, NoListing
    <3>2. CASE ino # ROOT_ID
      <4> WITNESS [NoListing EXCEPT !.ino = ino]
      <4> QED  BY <3>2, Zenon DEF opendir, NoListing
    <3> QED  BY <3>1, <3>2, Zenon
  <2>2. listing'[t] = l /\ listing' = [listing EXCEPT ![t] = listing'[t]]
    BY <1>1, <2>1, Zenon
  <2>3. /\ DOMAIN listing'[t] = {"ino", "handle", "names", "fresh", "end"}
        /\ listing'[t].ino = ino /\ listing'[t].names = <<>> /\ listing'[t].fresh = TRUE /\ listing'[t].end = FALSE
    BY <2>1, <2>2, Zenon
  <2>4. ino # ROOT_ID => ino \in DOMAIN data' /\ data'[ino].node.kind = "dir"
    BY <1>1, <1>2, KnownOrRoot, Zenon DEF opendir
  <2>5. /\ <<>> \in Seq(Entries) /\ DOMAIN <<>> = {} /\ Len(<<>>) = 0
    OBVIOUS
  <2>6. ino # ROOT_ID /\ data'[ino].populated =>
           /\ Len(<<>>) <= Len(data'[ino].children) /\ <<>> = SubSeq(data'[ino].children, 1, Len(<<>>))
    <3> HAVE ino # ROOT_ID /\ data'[ino].populated
    <3>1. data'[ino].children \in Seq(Entries)
      BY <1>2, <2>4, Zenon DEF TrackerOK
    <3>2. SubSeq(data'[ino].children, 1, 0) = <<>>
      BY <3>1
    <3> QED  BY <2>5, <3>1, <3>2
  <2>7. ListingInv(t)'
    BY <2>3, <2>4, <2>5, <2>6, Zenon DEF ListingInv, IsDir
  <2> QED  BY <2>2, <2>7, Zenon
<1>6. th' = [th EXCEPT ![t] = th'[t]] /\ out' = [out EXCEPT ![t] = out'[t]]
  BY <1>1, Zenon
<1>7. RequestInv(t)' /\ AnswerInv(t)'
  <2>1. RequestInv(t)'
    BY <1>1, Zenon DEF RequestInv
  <2>2. AnswerInv(t)'
    BY <1>1, <1>2, AnswerKept, Zenon
  <2> QED  BY <2>1, <2>2, Zenon
<1> QED  BY <1>2, <1>3, <1>4, <1>5, <1>6, <1>7, OneMoves, Zenon

LEMMA ReaddirStep ==
    ASSUME IInv, NEW t \in Thread, NEW size \in Sizes, readdir(t, size)
    PROVE  IInv' /\ KeepsInodes
<1>1. PICK l : l = listing[t]
  BY Zenon
<1>2. /\ th[t].pc = "idle" /\ l.ino # 0 /\ ~l.end /\ ListingInv(t)
      /\ UNCHANGED <<provided, tracker, root_nodes, opened>>
      /\ listing = [u \in Thread |-> listing[u]]
  BY <1>1, Zenon DEF readdir, Starts, IInv
<1>3. Grows /\ TrackerOK(data, ino_of, next_inode)' /\ PopulatedOK(data, ino_of)' /\ data' = data
  BY <1>2, NothingAdded, Zenon DEF tracker
<1>4. RootInv' /\ KeepsInodes /\ HandlesInv'
  BY <1>2, <1>3, RootKept, GrowsKeeps, SameHandles, Zenon DEF IInv
<1>5. size \in Nat \ {0}
  BY StoreAssumption, Zenon
<1> DEFINE r == [Idle EXCEPT !.op = "readdir", !.ino = l.ino, !.handle = l.handle, !.left = size]
<1>6. DOMAIN r = Fields /\ r.op = "readdir" /\ r.ino = l.ino /\ r.left = size
  BY Zenon DEF Idle, Fields
<1>7. CASE l.ino = ROOT_ID
  <2>1. PICK q : q = [r EXCEPT !.pc = "root_item"]
    BY Zenon
  <2>2. Goto(t, q) /\ UNCHANGED <<out, known>> /\ listing' = [listing EXCEPT ![t].fresh = TRUE]
    BY <1>1, <1>7, <2>1, Zenon DEF readdir
  <2> HIDE DEF r
  <2>3. DOMAIN q = Fields /\ q.pc = "root_item" /\ q.op = "readdir" /\ q.left = size
    BY <1>6, <2>1, Zenon DEF Fields
  <2>4. /\ listing'[t] = [l EXCEPT !.fresh = TRUE] /\ listing' = [listing EXCEPT ![t] = listing'[t]]
    BY <1>1, <1>2, <2>2, Zenon
  <2>5. /\ DOMAIN listing'[t] = {"ino", "handle", "names", "fresh", "end"}
        /\ listing'[t].ino = ROOT_ID /\ listing'[t].names = l.names /\ listing'[t].fresh = TRUE /\ listing'[t].end = l.end
    BY <1>1, <1>2, <1>7, <2>4, Zenon DEF ListingInv
  <2>6. /\ l.names \in Seq(Entries) /\ l.end \in BOOLEAN
        /\ \A i \in DOMAIN l.names : Stands(l.names[i].ino, l.names[i].node)
    BY <1>1, <1>2, Zenon DEF ListingInv
  <2>7. ListingInv(t)'
    BY <1>2, <1>3, <2>5, <2>6, Zenon DEF ListingInv, Stands, ROOT_ID
  <2>8. th'[t] = q => RequestInv(t)'
    BY <1>5, <2>3, <2>5, Zenon DEF RequestInv, Pcs
  <2> QED  BY <1>3, <1>4, <2>2, <2>3, <2>4, <2>7, <2>8, SameKnown, GoesOn, Zenon
<1>8. CASE l.ino # ROOT_ID
  <2>1. l.ino \in DOMAIN data /\ data[l.ino].node.kind = "dir"
    BY <1>1, <1>2, <1>8, Zenon DEF ListingInv, IsDir
  <2>2. CASE data[l.ino].populated
    <3>1. GiveEntries(t, data'[l.ino].children, size)
      BY <1>1, <1>3, <1>8, <2>2, Zenon DEF readdir
    <3>2. l.ino \notin {0, ROOT_ID} /\ l.ino \in DOMAIN data' /\ data'[l.ino].populated /\ l.ino = listing[t].ino
      BY <1>1, <1>2, <1>3, <1>8, <2>1, <2>2, Zenon
    <3>3. PICK c : c = data'[l.ino].children
      BY Zenon
    <3>4. IInv'
      BY <1>3, <1>4, <1>5, <3>1, <3>2, <3>3, GivesEntries, Zenon
    <3> QED  BY <1>4, <3>4, Zenon
  <2>3. CASE ~data[l.ino].populated
    <3>1. PICK q : q = [r EXCEPT !.pc = "get_directory"]
      BY Zenon
    <3>2. Goto(t, q) /\ UNCHANGED <<out, known, listing>>
      BY <1>1, <1>8, <2>3, <3>1, Zenon DEF readdir
    <3> HIDE DEF r
    <3>3. DOMAIN q = Fields /\ q.pc = "get_directory" /\ q.op = "readdir" /\ q.ino = l.ino /\ q.left = size
      BY <1>6, <3>1, Zenon DEF Fields
    <3>4. th'[t] = q => RequestInv(t)'
      BY <1>1, <1>2, <1>3, <1>5, <2>1, <3>2, <3>3, Zenon DEF RequestInv, Pcs, IsDir
    <3> QED  BY <1>3, <1>4, <3>2, <3>3, <3>4, SameListing, SameKnown, GoesOn, Zenon
  <2> QED  BY <2>2, <2>3, Zenon
<1> QED  BY <1>7, <1>8, Zenon

LEMMA ReleasedirStep ==
    ASSUME IInv, NEW t \in Thread, releasedir(t)
    PROVE  IInv' /\ KeepsInodes
<1>1. /\ th[t].pc = "idle"
      /\ UNCHANGED <<provided, tracker, root_nodes, file_handles, handles, th, out, known>>
      /\ listing' = [listing EXCEPT ![t] = NoListing]
      /\ DOMAIN dir_handles' \subseteq DOMAIN dir_handles
      /\ RequestInv(t) /\ AnswerInv(t) /\ RootInv /\ HandlesInv
      /\ listing = [u \in Thread |-> listing[u]] /\ th = [u \in Thread |-> th[u]] /\ out = [u \in Thread |-> out[u]]
  BY Zenon DEF releasedir, Starts, IInv
<1>2. Grows /\ TrackerOK(data, ino_of, next_inode)' /\ PopulatedOK(data, ino_of)' /\ data' = data
  BY <1>1, NothingAdded, Zenon DEF tracker
<1>3. RootInv' /\ KeepsInodes /\ known' \subseteq {ROOT_ID} \cup DOMAIN data'
  BY <1>1, <1>2, RootKept, GrowsKeeps, SameKnown, Zenon
<1>4. HandlesInv'
  BY <1>1, Zenon DEF HandlesInv
<1>5. listing'[t] = NoListing /\ listing' = [listing EXCEPT ![t] = listing'[t]]
  BY <1>1, Zenon
<1>6. ListingInv(t)'
  <2>1. <<>> \in Seq(Entries) /\ DOMAIN <<>> = {}
    OBVIOUS
  <2>2. PICK l : l = NoListing
    BY Zenon
  <2>3. /\ DOMAIN l = {"ino", "handle", "names", "fresh", "end"}
        /\ l.ino = 0 /\ l.fresh = TRUE /\ l.end = FALSE /\ l.names = <<>>
    BY <2>2, Zenon DEF NoListing
  <2> QED  BY <1>5, <2>1, <2>2, <2>3, NoDirWalk, Zenon
<1>7. th' = [th EXCEPT ![t] = th'[t]] /\ out' = [out EXCEPT ![t] = out'[t]]
  BY <1>1, Zenon
<1>8. RequestInv(t)'
  BY <1>1, Zenon DEF RequestInv
<1>9. AnswerInv(t)'
  BY <1>1, <1>2, AnswerKept, Zenon
<1> QED  BY <1>2, <1>3, <1>4, <1>5, <1>6, <1>7, <1>8, <1>9, OneMoves, Zenon

-----------------------------------------------------------------------------
(* Listing the root.                                                       *)

(* A listing of the root that changes no entry. *)
LEMMA RootListing ==
    ASSUME NEW t, ListingInv(t), listing[t].ino = ROOT_ID, Grows,
           NEW l, l = listing'[t], DOMAIN l = {"ino", "handle", "names", "fresh", "end"},
           l.ino = ROOT_ID, l.fresh \in BOOLEAN, l.end \in BOOLEAN, l.names = listing[t].names
    PROVE  ListingInv(t)'
<1>1. l.names \in Seq(Entries) /\ \A i \in DOMAIN l.names : Stands(l.names[i].ino, l.names[i].node)
  BY Zenon DEF ListingInv
<1>2. \A i \in DOMAIN l.names : Stands(l.names[i].ino, l.names[i].node)'
  BY <1>1, StandsKept, Zenon
<1>3. l.ino \in {0, ROOT_ID} /\ l.ino # 0
  BY DEF ROOT_ID
<1> QED  BY <1>1, <1>2, <1>3, NoDirWalk, Zenon

LEMMA RootItemStep ==
    ASSUME IInv, NEW t \in Thread, RootItem(t)
    PROVE  IInv' /\ KeepsInodes
<1>1. /\ th[t].pc = "root_item" /\ RequestInv(t) /\ ListingInv(t) /\ RootInv /\ HandlesInv
      /\ UNCHANGED <<provided, tracker, root_nodes, file_handles, handles, known>>
      /\ listing = [u \in Thread |-> listing[u]]
  BY Zenon DEF RootItem, Goes, IInv
<1>2. Grows /\ TrackerOK(data, ino_of, next_inode)' /\ PopulatedOK(data, ino_of)' /\ data' = data
  BY <1>1, NothingAdded, Zenon DEF tracker
<1>3. RootInv' /\ KeepsInodes /\ known' \subseteq {ROOT_ID} \cup DOMAIN data'
  BY <1>1, <1>2, RootKept, GrowsKeeps, SameKnown, Zenon
<1>4. /\ DOMAIN th[t] = Fields /\ th[t].op = "readdir" /\ listing[t].ino = ROOT_ID /\ th[t].left \in Nat
      /\ DOMAIN listing[t] = {"ino", "handle", "names", "fresh", "end"}
      /\ listing[t].fresh \in BOOLEAN /\ listing[t].end \in BOOLEAN
  BY <1>1, Zenon DEF RequestInv, ListingInv
<1>5. CASE Answer(t, Error("EIO")) /\ UNCHANGED <<dir_handles, listing>>
  <2>1. Error("EIO").what \notin {"entry", "attr", "panic"} /\ UNCHANGED opened
    BY <1>1, <1>5, Zenon DEF Error, opened
  <2>2. IInv'
    BY <1>2, <1>3, <1>5, <2>1, SameListing, SameHandles, Replies, Zenon
  <2> QED  BY <1>3, <2>2, Zenon
<1>6. CASE /\ Answer(t, [what |-> "entries", ino |-> ROOT_ID])
           /\ listing' = [listing EXCEPT ![t].end = @ \/ listing[t].fresh]
           /\ UNCHANGED dir_handles
  <2>1. /\ [what |-> "entries", ino |-> ROOT_ID].what \notin {"entry", "attr", "panic"} /\ UNCHANGED opened
    BY <1>1, <1>6, Zenon DEF opened
  <2>2. /\ listing'[t] = [listing[t] EXCEPT !.end = @ \/ listing[t].fresh]
        /\ listing' = [listing EXCEPT ![t] = listing'[t]]
    BY <1>1, <1>6, Zenon
  <2>3. PICK l : l = listing'[t]
    BY Zenon
  <2>4. /\ DOMAIN l = {"ino", "handle", "names", "fresh", "end"} /\ l.ino = ROOT_ID
        /\ l.fresh = listing[t].fresh /\ l.names = listing[t].names
        /\ l.end = (listing[t].end \/ listing[t].fresh)
    BY <1>4, <2>2, <2>3, Zenon
  <2>5. l.end \in BOOLEAN
    BY <2>4, Zenon
  <2>6. ListingInv(t)'
    BY <1>1, <1>2, <1>4, <2>3, <2>4, <2>5, RootListing, Zenon
  <2>7. IInv'
    BY <1>2, <1>3, <1>6, <2>1, <2>2, <2>6, SameHandles, Replies, Zenon
  <2> QED  BY <1>3, <2>7, Zenon
<1>7. ASSUME NEW i \in DOMAIN Roots,
             dir_handles' = [dir_handles EXCEPT ![th[t].handle].last = i],
             LET item == [th[t] EXCEPT !.name = Roots[i].name, !.node = Roots[i].node] IN
             Goto(t, IF Roots[i].name \in DOMAIN root_nodes
                     THEN [item EXCEPT !.pc = "add_entry", !.ino = root_nodes[Roots[i].name]]
                     ELSE [item EXCEPT !.pc = "root_put"]),
             UNCHANGED <<out, listing>>
      PROVE  IInv' /\ KeepsInodes
  <2>1. PICK item : item = [th[t] EXCEPT !.name = Roots[i].name, !.node = Roots[i].node]
    BY Zenon
  <2>2. /\ DOMAIN item = Fields /\ item.op = "readdir" /\ item.left \in Nat
        /\ item.name = Roots[i].name /\ item.node = Roots[i].node
    BY <1>4, <2>1, Zenon DEF Fields
  <2>3. HandlesInv'
    <3>1. DOMAIN dir_handles' = DOMAIN dir_handles
      BY <1>7, Zenon
    <3> QED  BY <1>1, <3>1, Zenon DEF HandlesInv
  <2>4. CASE Roots[i].name \in DOMAIN root_nodes
    <3>1. PICK q : q = [item EXCEPT !.pc = "add_entry", !.ino = root_nodes[Roots[i].name]]
      BY Zenon
    <3>2. Goto(t, q)
      BY <1>7, <2>1, <2>4, <3>1, Zenon
    <3>3. /\ DOMAIN q = Fields /\ q.pc = "add_entry" /\ q.op = "readdir" /\ q.left \in Nat
          /\ q.name = Roots[i].name /\ q.node = Roots[i].node /\ q.ino = root_nodes[Roots[i].name]
      BY <2>2, <3>1, Zenon DEF Fields
    <3>4. Stands(q.ino, q.node)
      <4>1. Roots[i].name \in RootNames /\ Stands(root_nodes[Roots[i].name], Roots[RootNode(Roots[i].name)].node)
        BY <1>1, <2>4, Zenon DEF RootInv
      <4>2. RootNode(Roots[i].name) = i
        BY <4>1, RootIsNode, Zenon
      <4> QED  BY <3>3, <4>1, <4>2, Zenon
    <3>5. th'[t] = q => RequestInv(t)'
      BY <1>2, <1>4, <1>7, <3>3, <3>4, Zenon DEF RequestInv, Pcs, Stands
    <3>6. IInv'
      BY <1>2, <1>3, <1>7, <2>3, <3>2, <3>3, <3>5, SameListing, GoesOn, Zenon
    <3> QED  BY <1>3, <3>6, Zenon
  <2>5. CASE Roots[i].name \notin DOMAIN root_nodes
    <3>1. PICK q : q = [item EXCEPT !.pc = "root_put"]
      BY Zenon
    <3>2. Goto(t, q)
      BY <1>7, <2>1, <2>5, <3>1, Zenon
    <3>3. /\ DOMAIN q = Fields /\ q.pc = "root_put" /\ q.op = "readdir" /\ q.left \in Nat
          /\ q.name = Roots[i].name /\ q.node = Roots[i].node
      BY <2>2, <3>1, Zenon DEF Fields
    <3>4. th'[t] = q => RequestInv(t)'
      BY <1>4, <1>7, <3>3, Zenon DEF RequestInv, Pcs
    <3>5. IInv'
      BY <1>2, <1>3, <1>7, <2>3, <3>2, <3>3, <3>4, SameListing, GoesOn, Zenon
    <3> QED  BY <1>3, <3>5, Zenon
  <2> QED  BY <2>4, <2>5, Zenon
<1> QED  BY <1>5, <1>6, <1>7, Zenon DEF RootItem, Items

(* What RootPut and RootInsert carry is an entry of the root. *)
LEMMA RootPutStep ==
    ASSUME IInv, NEW t \in Thread, RootPut(t)
    PROVE  IInv' /\ KeepsInodes
<1>1. /\ th[t].pc = "root_put" /\ RequestInv(t)
      /\ UNCHANGED <<provided, root_nodes, opened, out, known, listing>>
  BY Zenon DEF RootPut, Goes, IInv
<1>2. PICK i \in DOMAIN Roots : Roots[i].name = th[t].name /\ Roots[i].node = th[t].node
  BY <1>1, Zenon DEF RequestInv
<1>3. PICK n : n = th[t].node
  BY Zenon
<1>4. PICK x : x = put(Tracker, n).ino_of[Key(n)]
  BY Zenon
<1>5. n \in Nodes /\ Becomes(put(Tracker, n))
  BY <1>2, <1>3, Zenon DEF RootPut, Nodes
<1>6. /\ Grows /\ TrackerOK(data, ino_of, next_inode)' /\ PopulatedOK(data, ino_of)'
      /\ x \in DOMAIN data' /\ Key(data'[x].node) = Key(n)
  BY <1>4, <1>5, PutStep, Zenon
<1>7. RootInv' /\ KeepsInodes
  BY <1>1, <1>6, RootKept, GrowsKeeps, Zenon DEF IInv
<1>8. PICK q : q = [th[t] EXCEPT !.pc = "root_insert", !.ino = x]
  BY Zenon
<1>9. Goto(t, q)
  BY <1>3, <1>4, <1>8, Zenon DEF RootPut
<1>10. /\ DOMAIN q = Fields /\ q.pc = "root_insert" /\ q.op = "readdir" /\ q.left \in Nat
       /\ q.name = Roots[i].name /\ q.node = Roots[i].node /\ q.node = n /\ q.ino = x
       /\ listing'[t].ino = ROOT_ID
  BY <1>1, <1>2, <1>3, <1>8, Zenon DEF RequestInv, Fields
<1>11. th'[t] = q => RequestInv(t)'
  BY <1>6, <1>10, Zenon DEF RequestInv, Pcs, Stands
<1>12. IInv'
  BY <1>1, <1>6, <1>7, <1>9, <1>10, <1>11, SameListing, SameHandles, SameKnown, GoesOn, Zenon
<1> QED  BY <1>7, <1>12, Zenon

LEMMA RootInsertStep ==
    ASSUME IInv, NEW t \in Thread, RootInsert(t)
    PROVE  IInv' /\ KeepsInodes
<1>1. /\ th[t].pc = "root_insert" /\ RequestInv(t)
      /\ UNCHANGED <<provided, tracker, opened, out, known, listing>>
  BY Zenon DEF RootInsert, Goes, IInv
<1>2. PICK i \in DOMAIN Roots : Roots[i].name = th[t].name /\ Roots[i].node = th[t].node
  BY <1>1, Zenon DEF RequestInv
<1>3. PICK name, ino : name = th[t].name /\ ino = th[t].ino
  BY Zenon
<1>4. Grows /\ TrackerOK(data, ino_of, next_inode)' /\ PopulatedOK(data, ino_of)' /\ data' = data
  BY <1>1, NothingAdded, Zenon DEF tracker
<1>5. name \in RootNames /\ RootNode(name) = i
  <2>1. name \in RootNames
    BY <1>2, <1>3, Zenon DEF RootNames
  <2> QED  BY <1>2, <1>3, <2>1, RootIsNode, Zenon
<1>6. ino \in DOMAIN data' /\ Key(data'[ino].node) = Key(Roots[RootNode(name)].node)
  BY <1>1, <1>2, <1>3, <1>4, <1>5, Zenon DEF RequestInv, Stands
<1>7. root_nodes' = With(root_nodes, name, ino)
  BY <1>3, Zenon DEF RootInsert
<1>8. RootInv' /\ KeepsInodes
  BY <1>1, <1>4, <1>5, <1>6, <1>7, RootSet, Zenon
<1>9. PICK q : q = [th[t] EXCEPT !.pc = "add_entry"]
  BY Zenon
<1>10. Goto(t, q)
  BY <1>9, Zenon DEF RootInsert
<1>11. /\ DOMAIN q = Fields /\ q.pc = "add_entry" /\ q.op = "readdir" /\ q.left \in Nat
       /\ q.name = Roots[i].name /\ q.node = Roots[i].node /\ q.ino = ino
       /\ listing'[t].ino = ROOT_ID
  BY <1>1, <1>2, <1>3, <1>9, Zenon DEF RequestInv, Fields
<1>12. th'[t] = q => RequestInv(t)'
  BY <1>5, <1>6, <1>11, Zenon DEF RequestInv, Pcs, Stands
<1>13. IInv'
  BY <1>1, <1>4, <1>8, <1>10, <1>11, <1>12, SameListing, SameHandles, SameKnown, GoesOn, Zenon
<1> QED  BY <1>8, <1>13, Zenon

LEMMA RootAddEntryStep ==
    ASSUME IInv, NEW t \in Thread, RootAddEntry(t)
    PROVE  IInv' /\ KeepsInodes
<1>1. /\ th[t].pc = "add_entry" /\ RequestInv(t) /\ ListingInv(t)
      /\ UNCHANGED <<provided, tracker, root_nodes, opened>>
      /\ listing = [u \in Thread |-> listing[u]]
  BY Zenon DEF RootAddEntry, Goes, IInv
<1>2. Grows /\ TrackerOK(data, ino_of, next_inode)' /\ PopulatedOK(data, ino_of)' /\ data' = data
  BY <1>1, NothingAdded, Zenon DEF tracker
<1>3. RootInv' /\ KeepsInodes /\ HandlesInv'
  BY <1>1, <1>2, RootKept, GrowsKeeps, SameHandles, Zenon DEF IInv
<1>4. CASE th[t].left = 0
  <2>1. PICK a : a = [what |-> "entries", ino |-> ROOT_ID]
    BY Zenon
  <2>2. Answer(t, a) /\ UNCHANGED <<known, listing>> /\ a.what \notin {"entry", "attr", "panic"}
    BY <1>4, <2>1, Zenon DEF RootAddEntry
  <2> QED  BY <1>2, <1>3, <2>2, SameListing, SameKnown, Replies, Zenon
<1>5. CASE th[t].left # 0
  <2>1. PICK e : e = [ino |-> th[t].ino, name |-> th[t].name, node |-> th[t].node]
    BY Zenon
  <2>2. PICK q : q = [th[t] EXCEPT !.pc = "root_item", !.left = th[t].left - 1]
    BY Zenon
  <2>3. /\ listing' = [listing EXCEPT ![t].names = Append(@, e), ![t].fresh = FALSE]
        /\ known' = known \cup {e.ino} /\ Goto(t, q) /\ UNCHANGED out
    BY <1>5, <2>1, <2>2, Zenon DEF RootAddEntry
  <2>4. e \in Entries /\ Stands(e.ino, e.node)
    <3>1. PICK i \in DOMAIN Roots : Roots[i].name = th[t].name /\ Roots[i].node = th[t].node
      BY <1>1, Zenon DEF RequestInv
    <3>2. th[t].name \in AllNames /\ th[t].node \in Nodes
      BY <3>1, Zenon DEF AllNames, RootNames, Nodes
    <3>3. Stands(th[t].ino, th[t].node)
      BY <1>1, Zenon DEF RequestInv
    <3>4. th[t].ino \in Nat
      BY <3>3 DEF IInv, TrackerOK, Stands
    <3> QED  BY <2>1, <3>2, <3>3, <3>4, Zenon DEF Entries
  <2>5. PICK l : l = listing'[t]
    BY Zenon
  <2>6. /\ l = [listing[t] EXCEPT !.names = Append(@, e), !.fresh = FALSE]
        /\ listing' = [listing EXCEPT ![t] = listing'[t]]
    BY <1>1, <2>3, <2>5, Zenon
  <2>7. /\ DOMAIN listing[t] = {"ino", "handle", "names", "fresh", "end"} /\ listing[t].end \in BOOLEAN
        /\ listing[t].ino = ROOT_ID /\ listing[t].names \in Seq(Entries)
        /\ \A i \in DOMAIN listing[t].names : Stands(listing[t].names[i].ino, listing[t].names[i].node)
    BY <1>1, Zenon DEF RequestInv, ListingInv
  <2>8. /\ DOMAIN l = {"ino", "handle", "names", "fresh", "end"} /\ l.fresh = FALSE /\ l.end \in BOOLEAN
        /\ l.ino = ROOT_ID /\ l.names = Append(listing[t].names, e)
    BY <2>6, <2>7, Zenon
  <2>9. /\ l.names \in Seq(Entries)
        /\ \A i \in DOMAIN l.names : Stands(l.names[i].ino, l.names[i].node)'
    <3>1. PICK s \in Seq(Entries) : s = listing[t].names
      BY <2>7, Zenon
    <3>2. /\ Append(s, e) \in Seq(Entries) /\ Len(Append(s, e)) = Len(s) + 1
          /\ \A i \in DOMAIN Append(s, e) : (i \in DOMAIN s /\ Append(s, e)[i] = s[i]) \/ Append(s, e)[i] = e
      BY <2>4
    <3>3. \A i \in DOMAIN s : Stands(s[i].ino, s[i].node)
      BY <2>7, <3>1, Zenon
    <3> QED  BY <1>2, <2>4, <2>8, <3>1, <3>2, <3>3, Zenon DEF Stands
  <2>10. ListingInv(t)'
    <3>1. l.fresh \in BOOLEAN
      BY <2>8, Zenon
    <3>2. l.ino \in {0, ROOT_ID} /\ l.ino # 0
      BY <2>8 DEF ROOT_ID
    <3> QED  BY <2>5, <2>8, <2>9, <3>1, <3>2, NoDirWalk, Zenon
  <2>11. DOMAIN q = Fields /\ q.pc = "root_item" /\ q.op = "readdir" /\ q.left \in Nat
    BY <1>1, <1>5, <2>2 DEF RequestInv, Fields
  <2>12. th'[t] = q => RequestInv(t)'
    BY <2>5, <2>8, <2>11, Zenon DEF RequestInv, Pcs
  <2>13. known' \subseteq {ROOT_ID} \cup DOMAIN data'
    BY <1>2, <2>3, <2>4, Zenon DEF IInv, Stands
  <2> QED  BY <1>2, <1>3, <2>3, <2>6, <2>10, <2>11, <2>12, <2>13, GoesOn, Zenon
<1> QED  BY <1>4, <1>5, Zenon

-----------------------------------------------------------------------------
(* What only looks at an inode, and files.                                 *)

LEMMA LooksStep ==
    ASSUME IInv, NEW t \in Thread, NEW ino, NEW a, Looks(t, ino, a), a.what \notin {"entry", "attr", "panic"}
    PROVE  IInv' /\ KeepsInodes
<1>1. Answer(t, a) /\ UNCHANGED <<quiet, known>>
  BY Zenon DEF Looks, quiet
<1> QED  BY <1>1, QuietReply, Zenon

LEMMA GetattrStep ==
    ASSUME IInv, NEW t \in Thread, NEW ino \in known, getattr(t, ino)
    PROVE  IInv' /\ KeepsInodes
<1>1. ino # ROOT_ID => ino \in DOMAIN data
  BY KnownOrRoot, Zenon
<1>2. PICK attr : ino # ROOT_ID => attr = Attr(data[ino]) /\ Fits(attr, data[ino])
  BY <1>1, AttrFits, Zenon
<1>3. PICK a : Looks(t, ino, a) /\ a.what = "attr" /\ a.ino = ino /\ (ino # ROOT_ID => Fits(a.attr, data[ino]))
  <2>1. CASE ino = ROOT_ID
    <3> DEFINE a == [what |-> "attr", ino |-> ino, attr |-> [kind |-> "dir", x |-> FALSE, size |-> 0]]
    <3>1. Looks(t, ino, a)
      BY <2>1, Zenon DEF getattr
    <3>2. a.what = "attr" /\ a.ino = ino
      OBVIOUS
    <3> QED  BY <2>1, <3>1, <3>2, Zenon
  <2>2. CASE ino # ROOT_ID
    <3> DEFINE a == [what |-> "attr", ino |-> ino, attr |-> Attr(data[ino])]
    <3>1. Looks(t, ino, a)
      BY <1>1, <2>2, Zenon DEF getattr
    <3>2. a.what = "attr" /\ a.ino = ino /\ a.attr = Attr(data[ino])
      OBVIOUS
    <3> QED  BY <1>2, <2>2, <3>1, <3>2, Zenon
  <2> QED  BY <2>1, <2>2, Zenon
<1>4. Answer(t, a) /\ UNCHANGED <<quiet, known>> /\ data' = data
  BY <1>3, Zenon DEF Looks, quiet, tracker
<1>5. /\ Grows /\ KeepsInodes
      /\ TrackerOK(data, ino_of, next_inode)' /\ PopulatedOK(data, ino_of)' /\ RootInv' /\ HandlesInv'
      /\ known' \subseteq {ROOT_ID} \cup DOMAIN data'
      /\ listing' = [listing EXCEPT ![t] = listing'[t]] /\ ListingInv(t)'
  BY <1>4, QuietStep, Zenon
<1>6. RequestInv(t) /\ th = [u \in Thread |-> th[u]] /\ out = [u \in Thread |-> out[u]]
  BY Zenon DEF IInv
<1>7. /\ th'[t] = [th[t] EXCEPT !.pc = "idle"] /\ th' = [th EXCEPT ![t] = th'[t]]
      /\ out'[t] = a /\ out' = [out EXCEPT ![t] = out'[t]]
  BY <1>4, <1>6, Zenon DEF Answer
<1>8. RequestInv(t)'
  BY <1>6, <1>7, Zenon DEF RequestInv, Pcs, Fields
<1>9. Describes(out[t], data)'
  BY <1>1, <1>3, <1>4, <1>7, Zenon DEF Describes
<1>10. AnswerInv(t)'
  BY <1>3, <1>7, <1>9, Zenon DEF AnswerInv
<1> QED  BY <1>5, <1>7, <1>8, <1>10, OneMoves, Zenon

LEMMA LookingStep ==
    ASSUME IInv, NEW t \in Thread, NEW ino \in known,
           \/ readlink(t, ino) \/ listxattr(t, ino)
           \/ \E k \in {"dir", "file"} : getxattr(t, ino, k)
    PROVE  IInv' /\ KeepsInodes
<1>1. ino # ROOT_ID => ino \in DOMAIN data
  BY KnownOrRoot, Zenon
<1>2. \E a : Looks(t, ino, a) /\ a.what \notin {"entry", "attr", "panic"}
  <2>1. CASE readlink(t, ino)
    <3> DEFINE a == IF ino = ROOT_ID THEN Error("ENOSYS")
                    ELSE IF ino \notin DOMAIN data THEN Error("panic")
                    ELSE IF data[ino].node.kind # "symlink" THEN Error("EINVAL")
                    ELSE [what |-> "target", ino |-> ino, key |-> data[ino].node.key]
    <3>1. a.what \notin {"entry", "attr", "panic"}
      BY <1>1, Zenon DEF Error
    <3> QED  BY <2>1, <3>1, Zenon DEF readlink
  <2>2. CASE listxattr(t, ino)
    <3> DEFINE a == [what |-> "xattrs", ino |-> ino,
                     key |-> IF ino \notin DOMAIN data THEN "none" ELSE data[ino].node.kind]
    <3>1. a.what \notin {"entry", "attr", "panic"}
      BY Zenon
    <3> QED  BY <2>2, <3>1, Zenon DEF listxattr
  <2>3. CASE \E k \in {"dir", "file"} : getxattr(t, ino, k)
    <3>1. PICK k \in {"dir", "file"} : getxattr(t, ino, k)
      BY <2>3, Zenon
    <3> DEFINE a == IF ino \notin DOMAIN data THEN Error("ENODATA")
                    ELSE IF data[ino].node.kind # k THEN Error("ENODATA")
                    ELSE [what |-> "digest", ino |-> ino, key |-> data[ino].node.key]
    <3>2. a.what \notin {"entry", "attr", "panic"}
      BY Zenon DEF Error
    <3> QED  BY <3>1, <3>2, Zenon DEF getxattr
  <2> QED  BY <2>1, <2>2, <2>3, Zenon
<1> QED  BY <1>2, LooksStep, Zenon

LEMMA OpenStep ==
    ASSUME IInv, NEW t \in Thread, NEW ino \in known, open(t, ino)
    PROVE  IInv' /\ KeepsInodes
<1>1. UNCHANGED <<provided, tracker, root_nodes, dir_handles, known, listing>>
  BY Zenon DEF open
<1>2. ino # ROOT_ID => ino \in DOMAIN data
  BY KnownOrRoot, Zenon
<1>3. Grows /\ TrackerOK(data, ino_of, next_inode)' /\ PopulatedOK(data, ino_of)'
  BY <1>1, NothingAdded, Zenon
<1>4. RootInv' /\ KeepsInodes
  BY <1>1, <1>3, RootKept, GrowsKeeps, Zenon DEF IInv
<1>5. CASE UNCHANGED <<file_handles, handles>> /\ \E e \in {"ENOSYS", "EISDIR", "EIO"} : Answer(t, Error(e))
  <2>1. PICK e \in {"ENOSYS", "EISDIR", "EIO"} : Answer(t, Error(e))
    BY <1>5, Zenon
  <2>2. Error(e).what \notin {"entry", "attr", "panic"} /\ UNCHANGED opened
    BY <1>1, <1>5, Zenon DEF Error, opened
  <2> QED  BY <1>1, <1>3, <1>4, <2>1, <2>2, SameListing, SameHandles, SameKnown, Replies, Zenon
<1>6. CASE /\ file_handles' = With(file_handles, handles, [ino |-> ino, key |-> data[ino].node.key])
           /\ handles' = handles + 1
           /\ Answer(t, [what |-> "opened", ino |-> ino])
  <2>1. PICK a : a = [what |-> "opened", ino |-> ino]
    BY Zenon
  <2>2. a.what \notin {"entry", "attr", "panic"} /\ Answer(t, a)
    BY <1>6, <2>1, Zenon
  <2>3. DOMAIN file_handles' = DOMAIN file_handles \cup {handles}
    BY <1>6, Zenon DEF With
  <2>4. HandlesInv'
    BY <1>1, <1>6, <2>3 DEF IInv, HandlesInv
  <2> QED  BY <1>1, <1>3, <1>4, <2>2, <2>4, SameListing, SameKnown, Replies, Zenon
<1> QED  BY <1>2, <1>5, <1>6, Zenon DEF open

LEMMA ReadStep ==
    ASSUME IInv, NEW t \in Thread, NEW h, read(t, h)
    PROVE  IInv' /\ KeepsInodes
<1>1. PICK a : a = [what |-> "read", ino |-> file_handles[h].ino, key |-> file_handles[h].key]
  BY Zenon
<1>2. Answer(t, a) /\ UNCHANGED <<quiet, known>> /\ a.what \notin {"entry", "attr", "panic"}
  BY <1>1, Zenon DEF read, quiet
<1> QED  BY <1>2, QuietReply, Zenon

(* A step that no thread sees. *)
LEMMA NobodyMoves ==
    ASSUME IInv, UNCHANGED <<tracker, root_nodes, th, out, known, listing>>, HandlesInv',
           provided' \subseteq RootNames
    PROVE  IInv' /\ KeepsInodes
<1>1. Grows /\ TrackerOK(data, ino_of, next_inode)' /\ PopulatedOK(data, ino_of)' /\ data' = data
  BY NothingAdded, Zenon DEF tracker
<1>2. KeepsInodes /\ known' \subseteq {ROOT_ID} \cup DOMAIN data'
  BY <1>1, GrowsKeeps, SameKnown, Zenon
<1>3. RootInv'
  BY <1>1, Zenon DEF IInv, RootInv, Stands
<1>4. ASSUME NEW u \in Thread PROVE RequestInv(u)' /\ AnswerInv(u)' /\ ListingInv(u)'
  <2>1. RequestInv(u) /\ AnswerInv(u) /\ ListingInv(u)
    BY Zenon DEF IInv
  <2> QED  BY <1>1, <2>1, RequestKept, AnswerKept, ListingKept, Zenon
<1> QED  BY <1>1, <1>2, <1>3, <1>4, Zenon DEF IInv

LEMMA ReleaseStep ==
    ASSUME IInv, NEW t \in Thread, NEW h, release(t, h)
    PROVE  IInv' /\ KeepsInodes
<1>1. /\ UNCHANGED <<provided, tracker, root_nodes, dir_handles, handles, th, out, known, listing>>
      /\ DOMAIN file_handles' \subseteq DOMAIN file_handles
  BY Zenon DEF release
<1>2. HandlesInv' /\ provided' \subseteq RootNames
  BY <1>1, Zenon DEF IInv, HandlesInv, RootInv
<1> QED  BY <1>1, <1>2, NobodyMoves, Zenon

LEMMA RootAppearsStep ==
    ASSUME IInv, RootAppears
    PROVE  IInv' /\ KeepsInodes
<1>1. UNCHANGED <<tracker, root_nodes, opened, th, out, known, listing>> /\ provided' \subseteq RootNames
  BY Zenon DEF RootAppears, IInv, RootInv
<1> QED  BY <1>1, SameHandles, NobodyMoves, Zenon

-----------------------------------------------------------------------------
(* The theorems.                                                           *)

LEMMA InitInv ==
    ASSUME Init PROVE IInv
<1>1. <<>> \in Seq(Entries) /\ DOMAIN <<>> = {}
  OBVIOUS
<1>2. TrackerOK(data, ino_of, next_inode) /\ PopulatedOK(data, ino_of)
  BY <1>1 DEF Init, TrackerOK, PopulatedOK
<1>3. RootInv /\ HandlesInv /\ known \subseteq {ROOT_ID} \cup DOMAIN data
  BY <1>1 DEF Init, RootInv, HandlesInv
<1>4. ASSUME NEW t \in Thread PROVE RequestInv(t) /\ AnswerInv(t) /\ ListingInv(t)
  <2>1. th[t] = Idle /\ out[t] = Nothing /\ listing[t] = NoListing
    BY Zenon DEF Init
  <2>2. RequestInv(t)
    <3>1. DOMAIN Idle = Fields /\ Idle.pc = "idle"
      BY Zenon DEF Idle, Fields
    <3> QED  BY <2>1, <3>1, Zenon DEF RequestInv, Pcs
  <2>3. AnswerInv(t)
    BY <2>1 DEF AnswerInv, Describes, Nothing
  <2>4. ListingInv(t)
    BY <1>1, <2>1 DEF ListingInv, NoListing
  <2> QED  BY <2>2, <2>3, <2>4, Zenon
<1> QED  BY <1>2, <1>3, <1>4, Zenon DEF IInv, Init

LEMMA StepInv ==
    ASSUME IInv, [Next]_vars
    PROVE  IInv' /\ KeepsInodes
<1>1. CASE RootAppears
  BY <1>1, RootAppearsStep, Zenon
<1>2. ASSUME NEW t \in Thread, Steps(t) PROVE IInv' /\ KeepsInodes
  BY <1>2, GetByBasenameStep, SecondLookStep, InsertRootStep, LookupAttrStep, GetDirectoryStep, PopulateStep,
     RootItemStep, RootPutStep, RootInsertStep, RootAddEntryStep, Zenon DEF Steps
<1>3. ASSUME NEW t \in Thread, releasedir(t) \/ \E n \in Sizes : readdir(t, n) PROVE IInv' /\ KeepsInodes
  BY <1>3, ReleasedirStep, ReaddirStep, Zenon
<1>4. ASSUME NEW t \in Thread, NEW ino \in known,
             \/ opendir(t, ino) \/ getattr(t, ino) \/ readlink(t, ino) \/ listxattr(t, ino)
             \/ open(t, ino)
             \/ \E k \in {"dir", "file"} : getxattr(t, ino, k)
             \/ \E n \in Names : lookup(t, ino, n)
      PROVE  IInv' /\ KeepsInodes
  BY <1>4, OpendirStep, GetattrStep, LookingStep, OpenStep, LookupStep, Zenon
<1>5. ASSUME NEW t \in Thread, NEW h \in DOMAIN file_handles, read(t, h) \/ release(t, h)
      PROVE  IInv' /\ KeepsInodes
  BY <1>5, ReadStep, ReleaseStep, Zenon
<1>6. CASE UNCHANGED vars
  <2>1. UNCHANGED <<provided, tracker, root_nodes, opened, th, out, known, listing>>
    BY <1>6, Zenon DEF vars
  <2>2. provided' \subseteq RootNames
    BY <2>1, Zenon DEF IInv, RootInv
  <2> QED  BY <2>1, <2>2, SameHandles, NobodyMoves, Zenon
<1> QED  BY <1>1, <1>2, <1>3, <1>4, <1>5, <1>6, Zenon DEF Next

(* IInv is inductive: whatever the requests do to the inodes, the root's   *)
(* names, the handles and their walks.                                     *)
THEOREM Invariance == Spec => []IInv
<1>1. Init => IInv
  BY InitInv, Zenon
<1>2. IInv /\ [Next]_vars => IInv'
  BY StepInv, Zenon
<1> QED  BY <1>1, <1>2, PTL DEF Spec

(* Inodes are below next_inode and handles below the next handle, the      *)
(* names in root_nodes are the root's.                                     *)
THEOREM TypeCorrect == Spec => []TypeOK
<1>1. IInv => TypeOK
  <2> HAVE IInv
  <2>1. DOMAIN data \subseteq 2 .. next_inode - 1 /\ \A ino \in DOMAIN data : data[ino].populated \in BOOLEAN
    BY Zenon DEF IInv, TrackerOK
  <2>2. DOMAIN root_nodes \subseteq RootNames
    BY Zenon DEF IInv, RootInv
  <2>3. DOMAIN file_handles \cup DOMAIN dir_handles \subseteq 1 .. handles - 1
    BY Zenon DEF IInv, HandlesInv
  <2> QED  BY <2>1, <2>2, <2>3, Zenon DEF TypeOK
<1> QED  BY <1>1, Invariance, PTL

LEMMA KnownFromInv == IInv => KnownInodes
<1> HAVE IInv
<1>1. \A n \in DOMAIN root_nodes : root_nodes[n] \in DOMAIN data
  BY Zenon DEF IInv, RootInv, Stands
<1>2. ASSUME NEW ino \in DOMAIN data, NEW i \in DOMAIN data[ino].children
      PROVE  data[ino].children[i].ino \in DOMAIN data
  <2>1. data[ino].populated
    <3>1. DOMAIN <<>> = {}
      OBVIOUS
    <3> QED  BY <1>2, <3>1, Zenon DEF IInv, PopulatedOK
  <2>2. PICK c : c = data[ino].children
    BY Zenon
  <2>3. AreChildren(data, ino, c)
    BY <2>1, <2>2, ChildrenStand, Zenon DEF IInv
  <2> QED  BY <1>2, <2>2, <2>3, Zenon DEF AreChildren
<1>3. \A t \in Thread : th[t].pc = "populate" => th[t].ino \in DOMAIN data
  BY Zenon DEF IInv, RequestInv, IsDir
<1>4. known \subseteq {ROOT_ID} \cup DOMAIN data
  BY Zenon DEF IInv
<1>5. \A ino \in DOMAIN data : \A i \in DOMAIN data[ino].children : data[ino].children[i].ino \in DOMAIN data
  BY <1>2, Zenon
<1>6. \A t \in Thread : out[t].what # "panic"
  BY Zenon DEF IInv, AnswerInv
<1> QED  BY <1>1, <1>3, <1>4, <1>5, <1>6, Zenon DEF KnownInodes

LEMMA LookupFromInv == IInv => LookupFinds
<1> HAVE IInv
<1> SUFFICES ASSUME NEW t \in Thread, out[t].what = "entry", th[t].op = "lookup", th[t].pc = "idle"
             PROVE  LET here == IF th[t].ino = ROOT_ID THEN Roots ELSE Dirs[data[th[t].ino].node.key] IN
                    \E i \in DOMAIN here : here[i].name = th[t].name /\ Key(here[i].node) = Key(data[out[t].ino].node)
  BY Zenon DEF LookupFinds
<1>1. Found(th[t].ino, th[t].name, out[t].ino)
  BY Zenon DEF IInv, AnswerInv
<1>2. ROOT_ID \notin DOMAIN data
  BY DEF IInv, TrackerOK, ROOT_ID
<1>3. CASE th[t].ino = ROOT_ID
  <2>1. PICK i \in DOMAIN Roots : Roots[i].name = th[t].name /\ Stands(out[t].ino, Roots[i].node)
    BY <1>1, <1>2, <1>3, Zenon DEF Found, IsDir
  <2> QED  BY <1>3, <2>1, Zenon DEF Stands
<1>4. CASE th[t].ino # ROOT_ID
  <2>1. PICK here : here = Dirs[data[th[t].ino].node.key]
    BY Zenon
  <2>2. PICK i \in DOMAIN here : here[i].name = th[t].name /\ Stands(out[t].ino, here[i].node)
    BY <1>1, <1>4, <2>1, Zenon DEF Found
  <2> QED  BY <1>4, <2>1, <2>2, Zenon DEF Stands
<1> QED  BY <1>3, <1>4, Zenon

(* At the end of a walk the names are all children of the populated        *)
(* directory, which are its nodes.                                         *)
LEMMA ListingFromInv == IInv => ListingComplete
<1> HAVE IInv
<1> SUFFICES ASSUME NEW t \in Thread, listing[t].end, listing[t].ino # ROOT_ID
             PROVE  LET here == Dirs[data[listing[t].ino].node.key] IN
                    /\ [i \in DOMAIN listing[t].names |-> listing[t].names[i].name] = [i \in DOMAIN here |-> here[i].name]
                    /\ \A i \in DOMAIN here : Key(data[listing[t].names[i].ino].node) = Key(here[i].node)
  BY Zenon DEF ListingComplete
<1>1. PICK l, ino, c : l = listing[t] /\ ino = l.ino /\ c = data[ino].children
  BY Zenon
<1>2. /\ ino \in DOMAIN data /\ data[ino].populated
      /\ Len(l.names) = Len(c) /\ l.names = SubSeq(c, 1, Len(l.names))
  BY <1>1, Zenon DEF IInv, ListingInv, IsDir
<1>3. /\ c \in Seq(Entries)
      /\ \A i \in DOMAIN c : c[i].ino \in DOMAIN data /\ Key(data[c[i].ino].node) = Key(c[i].node)
  <2>1. AreChildren(data, ino, c)
    BY <1>1, <1>2, ChildrenStand, Zenon DEF IInv
  <2> QED  BY <2>1, Zenon DEF AreChildren
<1>4. l.names = c
  BY <1>2, <1>3
<1>5. PICK here : here = Dirs[data[ino].node.key]
  BY Zenon
<1>6. c = Populated(ino_of, here)
  BY <1>1, <1>2, <1>5, Zenon DEF IInv, PopulatedOK
<1>7. DOMAIN c = DOMAIN here /\ \A i \in DOMAIN here : c[i].name = here[i].name /\ c[i].node = here[i].node
  BY <1>6, Zenon DEF Populated
<1>8. [i \in DOMAIN c |-> c[i].name] = [i \in DOMAIN here |-> here[i].name]
  BY <1>7, Zenon
<1>9. \A i \in DOMAIN here : Key(data[c[i].ino].node) = Key(here[i].node)
  BY <1>3, <1>7, Zenon DEF Key
<1>10. listing[t].names = c /\ Dirs[data[listing[t].ino].node.key] = here
  BY <1>1, <1>4, <1>5, Zenon
<1> QED  BY <1>8, <1>9, <1>10, Zenon

LEMMA AttributesFromInv == IInv => AttributesAgree
<1> HAVE IInv
<1>1. \A t \in Thread : out[t].what \in {"entry", "attr"} /\ out[t].ino # ROOT_ID => Fits(out[t].attr, data[out[t].ino])
  BY Zenon DEF IInv, AnswerInv, Describes
<1>2. ASSUME NodesAgree, NEW t \in Thread, NEW i \in DOMAIN listing[t].names
      PROVE  Fits(Attr(InodeData(listing[t].names[i].node)), data[listing[t].names[i].ino])
  <2>1. PICK c : c = listing[t].names[i]
    BY Zenon
  <2>2. c \in Entries /\ Stands(c.ino, c.node)
    BY <2>1 DEF IInv, ListingInv
  <2>3. c.node \in Nodes /\ data[c.ino].node \in Nodes
    BY <2>2, Zenon DEF IInv, TrackerOK, Stands, Entries
  <2>4. c.node = data[c.ino].node
    BY <1>2, <2>2, <2>3, Zenon DEF NodesAgree, Stands
  <2>5. LET a == Attr(InodeData(c.node)) IN a.kind = c.node.kind /\ a.x = c.node.x /\ a.size = c.node.size
    BY DEF Attr, InodeData
  <2> QED  BY <2>1, <2>4, <2>5, Zenon DEF Fits
<1> QED  BY <1>1, <1>2, Zenon DEF AttributesAgree

(* However requests of the kernel race, and for every store and reply      *)
(* size: no unwrap() panics, contents have one inode, lookup() finds what  *)
(* the directory has, readdir() in pieces is complete, and what lookup(),  *)
(* getattr() and readdirplus() answer agrees, but for the size of a        *)
(* directory, which is its node's or the number of its children.           *)
THEOREM Coherent == Spec => []InodesCoherent
<1>1. IInv => InodesCoherent
  <2> HAVE IInv
  <2>1. OneInodePerContents
    BY DEF IInv, TrackerOK, OneInodePerContents
  <2> QED  BY <2>1, KnownFromInv, LookupFromInv, ListingFromInv, AttributesFromInv, Zenon DEF InodesCoherent
<1> QED  BY <1>1, Invariance, PTL

(* "we need to have a stable mapping of inode numbers": an inode never     *)
(* changes its contents, a populated directory its children, or a name in  *)
(* the root its inode.                                                     *)
THEOREM Stable == Spec => InodesStable
<1>1. IInv /\ [Next]_vars => [KeepsInodes]_vars
  BY StepInv, Zenon
<1> QED  BY <1>1, Invariance, PTL DEF Spec, InodesStable

=============================================================================
