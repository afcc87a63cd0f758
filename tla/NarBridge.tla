----------------------------- MODULE NarBridge -----------------------------
(* nar-bridge: the HTTP binary cache in front of castore and a path info     *)
(* service. An upload is a PUT of the NAR, which is ingested and leaves its  *)
(* root node in an in-memory LRU under the NAR's hash, and a PUT of the      *)
(* narinfo, which takes the root node from there.                            *)
(*                                                                           *)
(* A NAR, its hash and the root node it is ingested as are the same number;  *)
(* body 0 is not a NAR. The contents of node n are the pairs <<n, p>>, p in  *)
(* Parts. A file name of a request is [hash, suffix], the hash 0 when it is  *)
(* not 32 or 52 characters of nixbase32.                                     *)
EXTENDS Naturals, Sequences, SequencesExt, FiniteSets

CONSTANTS Clients, Nars, Digests,
          Capacity,     \* of root_nodes
          MaxRequests, MaxRestarts

Parts == {1, 2}         \* blobs, directories
NarSize(n) == 10 * n
None == 0
Idle == [op |-> "idle"]
NoPromise == [nar |-> None, others |-> {}]
NoUrl == [node |-> None, narsize |-> None]

VARIABLES castore,      \* the contents that were stored
          root_nodes,   \* the LRU's keys, the most recently used first
          infos,        \* the path info service: digest to [nar, node, size] or {}
          task,         \* the handler that runs for a client
          resp,         \* the client's last response
          url,          \* the NAR URL of the last narinfo the client was served
          promise,      \* the NAR a client was told to be there, and the others since
          requests, restarts
vars == <<castore, root_nodes, infos, task, resp, url, promise, requests, restarts>>

Init ==
  /\ castore = {} /\ root_nodes = <<>> /\ infos = [d \in Digests |-> {}]
  /\ task = [c \in Clients |-> Idle] /\ resp = [c \in Clients |-> [status |-> 0]]
  /\ url = [c \in Clients |-> NoUrl] /\ promise = [c \in Clients |-> NoPromise]
  /\ requests = 0 /\ restarts = 0

-----------------------------------------------------------------------------
(* nix_http::parse_nar_str and parse_outhash_str; the compression suffix is  *)
(* what follows ".nar".                                                      *)
parse_nar_str(s) ==
  IF s.hash # None /\ s.suffix \in {".nar", ".nar.xz"}
  THEN <<[hash |-> s.hash, compressed |-> s.suffix = ".nar.xz"]>> ELSE <<>>

parse_outhash_str(s) ==
  IF s.hash # None /\ s.suffix \in {".narinfo", ".ls"}
  THEN <<[digest |-> s.hash, type |-> s.suffix]>> ELSE <<>>

NarNames == [hash : Nars, suffix : {".nar"}] \cup [hash : {1}, suffix : {".nar.xz", ".ls"}]
              \cup [hash : {None}, suffix : {".nar"}]
OutNames == [hash : Digests, suffix : {".narinfo", ".ls"}] \cup [hash : {1}, suffix : {".nar"}]

-----------------------------------------------------------------------------
(* The LRU. A get makes the key the most recently used one, a peek does not; *)
(* a put drops the least recently used key when there is no room.            *)
Promote(n) == <<n>> \o SelectSeq(root_nodes, LAMBDA m : m # n)
LruPut(n) == LET q == Promote(n) IN SubSeq(q, 1, IF Len(q) > Capacity THEN Capacity ELSE Len(q))
peek(n) == n \in ToSet(root_nodes)

(* What was used since the promises were made.                               *)
Used(n) == [c \in Clients |-> IF promise[c].nar \in {None, n} THEN promise[c]
                              ELSE [promise[c] EXCEPT !.others = @ \cup {n}]]
Promised(c, n) == [Used(n) EXCEPT ![c] = [nar |-> n, others |-> {}]]

Request(c) == task[c] = Idle /\ requests < MaxRequests /\ requests' = requests + 1
Answer(c, r) == resp' = [resp EXCEPT ![c] = r]
Status(s) == [status |-> s]

-----------------------------------------------------------------------------
\* Mutated form: the lookup leaves the LRU's order alone.
head_root_nodes_Peeks(c) ==
  /\ Request(c)
  /\ \E s \in NarNames :
       LET p == parse_nar_str(s)
       IN  IF p = <<>> \/ p[1].compressed THEN Answer(c, Status(401)) /\ UNCHANGED promise
           ELSE IF peek(p[1].hash) THEN Answer(c, Status(200)) /\ promise' = Promised(c, p[1].hash)
           ELSE Answer(c, Status(404)) /\ UNCHANGED promise
  /\ UNCHANGED <<castore, root_nodes, infos, task, url, restarts>>

head_root_nodes(c) ==
  /\ Request(c)
  /\ \E s \in NarNames :
       LET p == parse_nar_str(s)
       IN  IF p = <<>> \/ p[1].compressed
           THEN Answer(c, Status(401)) /\ UNCHANGED <<root_nodes, promise>>
           ELSE IF peek(p[1].hash)
           THEN /\ Answer(c, Status(200))
                /\ root_nodes' = Promote(p[1].hash) /\ promise' = Promised(c, p[1].hash)
           ELSE Answer(c, Status(404)) /\ UNCHANGED <<root_nodes, promise>>
  /\ UNCHANGED <<castore, infos, task, url, restarts>>

(* PUT of a NAR: the name is checked, then the body is ingested.             *)
put_nar(c) ==
  /\ Request(c)
  /\ \E s \in NarNames :
       LET p == parse_nar_str(s)
       IN  IF p = <<>> \/ p[1].compressed
           THEN Answer(c, Status(401)) /\ UNCHANGED task
           ELSE /\ \E b \in Nars \cup {None} :
                     task' = [task EXCEPT ![c] = [op |-> "ingest", expected |-> p[1].hash,
                                                  body |-> b, stored |-> {}]]
                /\ Answer(c, Status(0))
  /\ UNCHANGED <<castore, root_nodes, infos, url, promise, restarts>>

(* Blobs, then directories; the body or a store may fail at any point.       *)
Ingest(c) ==
  LET t == task[c]
  IN  /\ t.op = "ingest" /\ t.stored # Parts
      /\ \/ /\ t.body # None
            /\ LET p == IF t.stored = {} THEN 1 ELSE 2
               IN  /\ castore' = castore \cup {<<t.body, p>>}
                   /\ task' = [task EXCEPT ![c].stored = @ \cup {p}]
            /\ UNCHANGED resp
         \/ /\ task' = [task EXCEPT ![c] = Idle] /\ Answer(c, Status(500))
            /\ UNCHANGED castore
      /\ UNCHANGED <<root_nodes, infos, url, promise, requests, restarts>>

Ingested(c) ==
  LET t == task[c]
  IN  /\ t.op = "ingest" /\ t.stored = Parts
      /\ task' = [task EXCEPT ![c] = Idle]
      /\ IF t.expected # t.body
         THEN Answer(c, Status(400)) /\ UNCHANGED <<root_nodes, promise>>
         ELSE /\ Answer(c, Status(200)) /\ root_nodes' = LruPut(t.body)
              /\ promise' = Promised(c, t.body)
      /\ UNCHANGED <<castore, infos, url, requests, restarts>>

(* PUT of a narinfo. Listings are ignored; the body may not parse, or be of  *)
(* another path. The lock on root_nodes is not held while the path info is   *)
(* persisted.                                                                *)
put_info(c) ==
  /\ Request(c)
  /\ \E s \in OutNames :
       LET p == parse_outhash_str(s)
       IN  \/ p = <<>> /\ Answer(c, Status(404)) /\ UNCHANGED task
           \/ p # <<>> /\ p[1].type = ".ls" /\ Answer(c, Status(200)) /\ UNCHANGED task
           \/ p # <<>> /\ p[1].type = ".narinfo" /\ Answer(c, Status(400)) /\ UNCHANGED task
           \/ /\ p # <<>> /\ p[1].type = ".narinfo"
              /\ \E n \in Nars, size \in {NarSize(1), NarSize(2)} :
                   IF peek(n)
                   THEN /\ Answer(c, Status(0))
                        /\ task' = [task EXCEPT ![c] = [op |-> "persist", digest |-> p[1].digest,
                                      info |-> [nar |-> n, node |-> n, size |-> size]]]
                   ELSE Answer(c, Status(400)) /\ UNCHANGED task
  /\ UNCHANGED <<castore, root_nodes, infos, url, promise, restarts>>

Persist(c) ==
  LET t == task[c]
  IN  /\ t.op = "persist" /\ task' = [task EXCEPT ![c] = Idle]
      /\ \/ infos' = [infos EXCEPT ![t.digest] = {t.info}] /\ Answer(c, Status(200))
         \/ UNCHANGED infos /\ Answer(c, Status(500))
      /\ UNCHANGED <<castore, root_nodes, url, promise, requests, restarts>>

-----------------------------------------------------------------------------
Whole(n) == \A p \in Parts : <<n, p>> \in castore

gen_narinfo_str(i) == [nar |-> i.nar, size |-> i.size, url |-> [node |-> i.node, narsize |-> i.size]]

(* GET (and HEAD) of a narinfo or a listing; only the directories are needed *)
(* for a listing. The path info service may fail.                            *)
get_info(c) ==
  /\ Request(c)
  /\ \E s \in OutNames :
       LET p == parse_outhash_str(s)
       IN  \/ p = <<>> /\ Answer(c, Status(404)) /\ UNCHANGED url
           \/ p # <<>> /\ Answer(c, Status(500)) /\ UNCHANGED url
           \/ p # <<>> /\ infos[p[1].digest] = {} /\ Answer(c, Status(404)) /\ UNCHANGED url
           \/ /\ p # <<>>
              /\ \E i \in infos[p[1].digest] :
                   \/ Answer(c, Status(200)) /\ UNCHANGED url      \* HEAD
                   \/ /\ p[1].type = ".ls" /\ UNCHANGED url
                      /\ Answer(c, Status(IF <<i.node, 2>> \in castore THEN 200 ELSE 500))
                   \/ /\ p[1].type = ".narinfo"
                      /\ Answer(c, [status |-> 200, narinfo |-> gen_narinfo_str(i)])
                      /\ url' = [url EXCEPT ![c] = gen_narinfo_str(i).url]
  /\ UNCHANGED <<castore, root_nodes, infos, task, promise, restarts>>

(* GET (and HEAD) of a castore-infused NAR path. HEAD echoes the size, as    *)
(* does a GET without ranges, whose body is what write_nar gets to render.   *)
get_head(c) ==
  /\ Request(c)
  /\ \E node \in {url[c].node, None}, size \in {url[c].narsize, None}, head, ranges \in BOOLEAN :
       Answer(c, [asked |-> [node |-> node, narsize |-> size], ranges |-> ranges /\ ~head,
                  whole |-> head \/ Whole(node),
                  status |-> CASE size = None -> 400
                               [] size # None /\ node = None -> 404
                               [] size # None /\ node # None /\ (head \/ ~ranges) -> 200
                               [] OTHER -> IF <<node, 2>> \notin castore THEN 500
                                           ELSE IF NarSize(node) # size THEN 400 ELSE 200])
  /\ UNCHANGED <<castore, root_nodes, infos, task, url, promise, restarts>>

(* The server goes down and comes back: the handlers and the LRU are gone.   *)
Restart ==
  /\ restarts < MaxRestarts /\ restarts' = restarts + 1
  /\ task' = [c \in Clients |-> Idle] /\ root_nodes' = <<>>
  /\ promise' = [c \in Clients |-> NoPromise]
  /\ resp' = [c \in Clients |-> Status(0)]
  /\ UNCHANGED <<castore, infos, url, requests>>

Over == requests = MaxRequests /\ (\A c \in Clients : task[c] = Idle) /\ UNCHANGED vars

Next ==
  \/ \E c \in Clients : \/ head_root_nodes(c) \/ put_nar(c) \/ Ingest(c) \/ Ingested(c)
                        \/ put_info(c) \/ Persist(c) \/ get_info(c) \/ get_head(c)
  \/ Restart
  \/ Over
Spec == Init /\ [][Next]_vars

-----------------------------------------------------------------------------
TypeOK ==
  /\ castore \subseteq Nars \X Parts
  /\ ToSet(root_nodes) \subseteq Nars /\ Len(root_nodes) <= Capacity
  /\ requests \in 0..MaxRequests /\ restarts \in 0..MaxRestarts

\* Every path info that was accepted has the root node of the NAR whose hash it
\* names, and the whole contents of that node are stored, whatever uploads ran
\* beside it, were cut off, or lost their handler to a restart (nar::put,
\* outhash::put).
AcceptedIsWhole ==
  \A d \in Digests : \A i \in infos[d] : i.node = i.nar /\ Whole(i.node)

\* A client that was told its NAR is there (by HEAD, or by its own PUT) finds the
\* root node when it uploads the narinfo, unless at least as many other NARs as
\* root_nodes has room for were uploaded or asked for in the meantime
\* (head_root_nodes moves the key to the front).
PromiseHeld ==
  \A c \in Clients : promise[c].nar # None /\ Cardinality(promise[c].others) < Capacity =>
                       peek(promise[c].nar)

\* The URL of a served narinfo, used as it is, gets the whole NAR: the server finds
\* the node and all its contents again. Only a range request is refused, and only
\* when the size that was uploaded with the narinfo is not the NAR's
\* (outhash::get, nar::get_head).
ServedUrlWorks ==
  \A c \in Clients :
    "asked" \in DOMAIN resp[c] /\ url[c] # NoUrl /\ resp[c].asked.node = url[c].node
    /\ resp[c].asked.narsize = url[c].narsize =>
      /\ resp[c].whole
      /\ resp[c].status = 200
           \/ (resp[c].status = 400 /\ resp[c].ranges /\ NarSize(url[c].node) # url[c].narsize)
=============================================================================
