--------------------------- MODULE PathInfoStore ---------------------------
(* Compositions of path info services (store/src/pathinfoservice) and the    *)
(* clients that call them concurrently: databases (redb, Bigtable), the LRU  *)
(* service, the cache of one service in another, the signing service and a   *)
(* service behind gRPC.                                                      *)
(*                                                                           *)
(* A composition maps a service to its kind and to the services it calls,    *)
(* near and far (or inner, in both); 0 has the services and the digests that *)
(* clients ask for, at most Digests. "file" and "mem" are redb databases,    *)
(* the second in memory, "ro" is one that is opened read-only. A path info   *)
(* is its digest d, a version v that stands for its other fields, and its    *)
(* signatures, each of which holds what it signs.                            *)
EXTENDS Naturals, Sequences, SequencesExt, FiniteSets

CONSTANTS Compositions, Clients, Digests, Versions,
          TooBig,     \* the versions that exceed Bigtable's cell size
          Capacity,   \* of the LRU service
          MaxOps,     \* calls, of all clients together
          MaxFaults   \* failing calls, crashes and damaged rows

VARIABLES tree,      \* the composition
          rows,      \* per database, the row of each digest
          lru,       \* the LRU service's entries, the most recent first
          stack,     \* per client, the calls that are running, the innermost first
          ret,       \* per client, what the last call returned
          listing,   \* per client, the listing it reads
          ops, faults,
          puts,      \* ghost: the path infos that clients asked to store
          durable,   \* ghost: per database that survives, the digests it acknowledged
          last       \* ghost: per client, its last answer
vars == <<tree, rows, lru, stack, ret, listing, ops, faults, puts, durable, last>>

NoInfo == [d |-> 0, v |-> 0, sigs |-> <<>>]
Res(k, p) == [k |-> k, p |-> p]
None == Res("none", NoInfo)
Err == Res("err", NoInfo)
Databases == {"file", "mem", "ro", "bigtable"}
Leaves == Databases \cup {"lru"}
Durable == {"file", "ro", "bigtable"}
Kind(s) == tree[s].kind
Root(c) == tree[0].root[c]
Ids == DOMAIN tree \ {0}

Idle(c) == stack[c] = <<>> /\ ~listing[c].on
NoAnswer == [op |-> "none", d |-> 0, res |-> None, acked |-> FALSE]
NoList == [on |-> FALSE, s |-> 0, rest |-> <<>>, got |-> <<>>, start |-> <<>>]

\* The databases a call on s may find a path info in.
DurableLeaves(s) ==
  LET deep(t) == IF t = 0 THEN {} ELSE {t, tree[t].near, tree[t].far}
      all == UNION {deep(u) : u \in UNION {deep(t) : t \in deep(s)}}
  IN  {t \in all \cap Ids : Kind(t) \in Durable}

-----------------------------------------------------------------------------
(* The databases.                                                            *)
Decode(row) == IF row.k = "bad" THEN Err ELSE row

(* Bigtable's get compares the digest of what it decoded with the key.       *)
bigtable_get(s, d) ==
  LET r == Decode(rows[s][d]) IN IF r.k = "some" /\ r.p.d # d THEN Err ELSE r

redb_get(s, d) == Decode(rows[s][d])

DatabaseGet(s, d) == IF Kind(s) = "bigtable" THEN bigtable_get(s, d) ELSE redb_get(s, d)

(* check_and_mutate_row does nothing when the column is there already; the   *)
(* caller gets its argument back all the same.                               *)
bigtable_put(s, p) ==
  IF p.v \in TooBig THEN UNCHANGED rows
  ELSE rows' = IF rows[s][p.d].k = "none" THEN [rows EXCEPT ![s][p.d] = Res("some", p)] ELSE rows

redb_put(s, p) == IF Kind(s) = "ro" THEN UNCHANGED rows ELSE rows' = [rows EXCEPT ![s][p.d] = Res("some", p)]

PutResult(s, p) ==
  IF Kind(s) = "ro" \/ (Kind(s) = "bigtable" /\ p.v \in TooBig) THEN Err ELSE Res("ok", p)

(* The LRU service: get needs the write lock, as it moves the entry to the   *)
(* front; a listing holds the read lock until its stream is dropped.         *)
Others(d) == SelectSeq(lru, LAMBDA e : e.d # d)
Found(d) == SelectSeq(lru, LAMBDA e : e.d = d)
Locked == \E c \in Clients : listing[c].on /\ Kind(listing[c].s) = "lru"
lru_get(d) == IF Found(d) = <<>> THEN None ELSE Res("some", Found(d)[1])
lru_put(p) == lru' = SubSeq(<<p>> \o Others(p.d), 1, IF Len(Others(p.d)) < Capacity THEN Len(Others(p.d)) + 1 ELSE Capacity)

-----------------------------------------------------------------------------
(* Calls. A frame is [s, op, arg, pc]; the default has is a get.             *)
Frame(s, op, p) == [s |-> s, op |-> op, p |-> p, pc |-> "start"]
Top(c) == Head(stack[c])
At(c, kinds, op, pc) == stack[c] # <<>> /\ Kind(Top(c).s) \in kinds /\ Top(c).op = op /\ Top(c).pc = pc

Call(c, pc, f) == stack' = [stack EXCEPT ![c] = <<f, [Top(c) EXCEPT !.pc = pc]>> \o Tail(stack[c])] /\ UNCHANGED <<ret, last>>

AsHas(op, r) == IF op = "has" /\ r.k \in {"some", "none"} THEN Res(IF r.k = "some" THEN "yes" ELSE "no", NoInfo) ELSE r

Return(c, r0) ==
  LET r == AsHas(Top(c).op, r0)
  IN  /\ stack' = [stack EXCEPT ![c] = Tail(stack[c])]
      /\ ret' = [ret EXCEPT ![c] = IF Len(stack[c]) > 1 THEN r ELSE None]
      /\ last' = IF Len(stack[c]) > 1 THEN last
                 ELSE [last EXCEPT ![c] = [@ EXCEPT !.op = Top(c).op, !.d = Top(c).p.d, !.res = r]]

Ghosts == <<tree, listing, ops, puts>>

Fail(c) ==
  /\ stack[c] # <<>> /\ Kind(Top(c).s) \in (Leaves \cup {"grpc"}) \ {"lru"} /\ faults < MaxFaults
  /\ Return(c, Err) /\ faults' = faults + 1
  /\ UNCHANGED <<Ghosts, rows, lru, durable>>

Get(c) ==
  /\ \E op \in {"get", "has"} : At(c, Databases, op, "start")
  /\ Return(c, DatabaseGet(Top(c).s, Top(c).p.d))
  /\ UNCHANGED <<Ghosts, rows, lru, faults, durable>>

Put(c) ==
  /\ At(c, Databases, "put", "start")
  /\ LET s == Top(c).s  p == Top(c).p
     IN  /\ IF Kind(s) = "bigtable" THEN bigtable_put(s, p) ELSE redb_put(s, p)
         /\ Return(c, PutResult(s, p))
         /\ durable' = IF Kind(s) \in Durable /\ PutResult(s, p).k = "ok"
                       THEN [durable EXCEPT ![s] = @ \cup {p.d}] ELSE durable
  /\ UNCHANGED <<Ghosts, lru, faults>>

LruGet(c) ==
  /\ \E op \in {"get", "has"} : At(c, {"lru"}, op, "start")
  /\ ~Locked
  /\ Return(c, lru_get(Top(c).p.d))
  /\ lru' = Found(Top(c).p.d) \o Others(Top(c).p.d)
  /\ UNCHANGED <<Ghosts, rows, faults, durable>>

LruPut(c) ==
  /\ At(c, {"lru"}, "put", "start")
  /\ ~Locked
  /\ lru_put(Top(c).p) /\ Return(c, Res("ok", Top(c).p))
  /\ UNCHANGED <<Ghosts, rows, faults, durable>>

-----------------------------------------------------------------------------
(* The services that call others.                                            *)
Same == UNCHANGED <<Ghosts, rows, lru, faults, durable>>

CacheGet(c) ==
  /\ \/ At(c, {"cache"}, "get", "start") /\ Call(c, "near", Frame(tree[Top(c).s].near, "get", Top(c).p))
     \/ At(c, {"cache"}, "get", "near") /\ ret[c].k # "none" /\ Return(c, ret[c])
     \/ At(c, {"cache"}, "get", "near") /\ ret[c].k = "none" /\ Call(c, "far", Frame(tree[Top(c).s].far, "get", Top(c).p))
     \/ At(c, {"cache"}, "get", "far") /\ ret[c].k # "some" /\ Return(c, ret[c])
     \/ At(c, {"cache"}, "get", "far") /\ ret[c].k = "some" /\ Call(c, "put", Frame(tree[Top(c).s].near, "put", ret[c].p))
     \/ At(c, {"cache"}, "get", "put") /\ Return(c, IF ret[c].k = "ok" THEN Res("some", ret[c].p) ELSE ret[c])
  /\ Same

CacheHas(c) ==
  /\ \/ At(c, {"cache"}, "has", "start") /\ Call(c, "near", Frame(tree[Top(c).s].near, "has", Top(c).p))
     \/ At(c, {"cache"}, "has", "near") /\ ret[c].k # "no" /\ Return(c, ret[c])
     \/ At(c, {"cache"}, "has", "near") /\ ret[c].k = "no" /\ Call(c, "far", Frame(tree[Top(c).s].far, "has", Top(c).p))
     \/ At(c, {"cache"}, "has", "far") /\ Return(c, ret[c])
  /\ Same

CachePut(c) == At(c, {"cache"}, "put", "start") /\ Return(c, Err) /\ Same

(* put signs the fields, the other signatures left out, and appends.         *)
Signed(p) == [p EXCEPT !.sigs = Append(@, <<p.d, p.v>>)]

Signing(c) ==
  /\ \/ \E op \in {"get", "has"} :
          At(c, {"signing"}, op, "start") /\ Call(c, "inner", Frame(tree[Top(c).s].near, "get", Top(c).p))
     \/ At(c, {"signing"}, "put", "start") /\ Call(c, "inner", Frame(tree[Top(c).s].near, "put", Signed(Top(c).p)))
     \/ \E op \in {"get", "has", "put"} : At(c, {"signing"}, op, "inner") /\ Return(c, ret[c])
  /\ Same

(* The client of a gRPC service and the wrapper that answers it. A request   *)
(* that fails may have reached the other side: see Fail.                     *)
Grpc(c) ==
  /\ \/ \E op \in {"get", "has"} :
          At(c, {"grpc"}, op, "start") /\ Call(c, "inner", Frame(tree[Top(c).s].near, "get", Top(c).p))
     \/ At(c, {"grpc"}, "put", "start") /\ Call(c, "inner", Frame(tree[Top(c).s].near, "put", Top(c).p))
     \/ \E op \in {"get", "has", "put"} : At(c, {"grpc"}, op, "inner") /\ Return(c, ret[c])
  /\ Same

-----------------------------------------------------------------------------
(* Listings: the signing service and gRPC hand on the stream of the inner    *)
(* service, the cache refuses.                                               *)
Inner(s) == IF Kind(s) \in {"signing", "grpc"} THEN tree[s].near ELSE s
Lists(s) == Inner(Inner(s))

Stored(s) ==
  IF Kind(s) = "lru" THEN lru
  ELSE LET ds == SetToSortSeq({d \in Digests : rows[s][d].k # "none"}, <)
       IN  [i \in DOMAIN ds |-> IF Decode(rows[s][ds[i]]).k = "err" \/ (Kind(s) = "bigtable" /\ rows[s][ds[i]].p.d # ds[i])
                                THEN NoInfo ELSE rows[s][ds[i]].p]

(* A redb listing reads in one transaction, an LRU listing under the lock;   *)
(* Bigtable streams the rows as they are when it comes to them.              *)
List(c) ==
  /\ Idle(c) /\ ops < MaxOps /\ Kind(Lists(Root(c))) # "cache"
  /\ LET s == Lists(Root(c))
     IN  listing' = [listing EXCEPT ![c] = [NoList EXCEPT !.on = TRUE, !.s = s, !.rest = Stored(s), !.start = Stored(s)]]
  /\ ops' = ops + 1 /\ last' = [last EXCEPT ![c] = NoAnswer]
  /\ UNCHANGED <<tree, rows, lru, stack, ret, faults, puts, durable>>

Remaining(l) ==
  IF Kind(l.s) # "bigtable" THEN l.rest
  ELSE LET past == IF l.got = <<>> THEN 0 ELSE l.got[Len(l.got)].d
       IN  SelectSeq(Stored(l.s), LAMBDA p : p.d > past \/ p.d = 0)

(* A row that does not decode ends the stream with an error; at its end the  *)
(* stream is dropped.                                                        *)
ListNext(c) ==
  /\ listing[c].on
  /\ LET r == Remaining(listing[c])
         over == r = <<>> \/ r[1] = NoInfo
     IN  /\ listing' = [listing EXCEPT ![c].got = IF over THEN @ ELSE Append(@, r[1]),
                                       ![c].rest = IF over THEN @ ELSE Tail(r), ![c].on = ~over]
         /\ last' = IF over THEN [last EXCEPT ![c] = [@ EXCEPT !.op = "list", !.res = IF r = <<>> THEN Res("ok", NoInfo) ELSE Err]] ELSE last
  /\ UNCHANGED <<tree, rows, lru, stack, ret, ops, faults, puts, durable>>

-----------------------------------------------------------------------------
RECURSIVE SignedBy(_, _)
\* Ghost: what a put of p on s asks to store, with the signatures on the way.
SignedBy(s, p) ==
  CASE Kind(s) = "signing" -> SignedBy(tree[s].near, [p EXCEPT !.sigs = Append(@, <<p.d, p.v>>)])
    [] Kind(s) = "grpc"    -> SignedBy(tree[s].near, p)
    [] OTHER               -> p

Begin(c) ==
  /\ Idle(c) /\ ops < MaxOps
  /\ \E op \in {"get", "has", "put"}, d \in tree[0].asked, v \in Versions :
       /\ op = "put" \/ v = 1
       /\ LET p == [d |-> d, v |-> v, sigs |-> IF v = 1 THEN <<>> ELSE << <<0>> >>]
          IN  /\ stack' = [stack EXCEPT ![c] = <<Frame(Root(c), op, p)>>]
              /\ puts' = IF op = "put" THEN puts \cup {SignedBy(Root(c), p)} ELSE puts
       /\ last' = [last EXCEPT ![c] = [op |-> "none", d |-> d, res |-> None,
                     acked |-> \E s \in DurableLeaves(Root(c)) : d \in durable[s]]]
  /\ ops' = ops + 1 /\ listing' = [listing EXCEPT ![c] = NoList]
  /\ UNCHANGED <<tree, rows, lru, ret, faults, durable>>

\* Another tool writes a row that does not decode, or belongs elsewhere.
Damage ==
  /\ faults < MaxFaults
  /\ \E s \in {s \in Ids : Kind(s) \in {"bigtable", "file"}}, d \in Digests :
       /\ rows[s][d].k = "none"
       /\ \E r \in {Res("bad", NoInfo)} \cup {Res("some", [d |-> e, v |-> 9, sigs |-> <<>>]) : e \in Digests \ {d}} :
            /\ r.k = "some" => Kind(s) = "bigtable"
            /\ rows' = [rows EXCEPT ![s][d] = r]
  /\ faults' = faults + 1
  /\ UNCHANGED <<tree, lru, stack, ret, listing, ops, puts, durable, last>>

\* The process ends and starts again: what is in memory is gone, and the calls.
Crash ==
  /\ faults < MaxFaults /\ faults' = faults + 1
  /\ rows' = [s \in Ids |-> IF Kind(s) = "mem" THEN [d \in Digests |-> None] ELSE rows[s]]
  /\ lru' = <<>>
  /\ stack' = [c \in Clients |-> <<>>] /\ listing' = [c \in Clients |-> NoList]
  /\ last' = [c \in Clients |-> NoAnswer]
  /\ UNCHANGED <<tree, ret, ops, puts, durable>>

Done == (\A c \in Clients : Idle(c)) /\ UNCHANGED vars

Init ==
  /\ tree \in Compositions
  /\ rows = [s \in Ids |-> [d \in Digests |-> None]]
  /\ lru = <<>>
  /\ stack = [c \in Clients |-> <<>>] /\ ret = [c \in Clients |-> None]
  /\ listing = [c \in Clients |-> NoList] /\ ops = 0
  /\ faults = 0 /\ puts = {}
  /\ durable = [s \in Ids |-> {}]
  /\ last = [c \in Clients |-> NoAnswer]

Step(c) == \/ Get(c) \/ Put(c) \/ LruGet(c) \/ LruPut(c) \/ CacheGet(c) \/ CacheHas(c)
           \/ CachePut(c) \/ Signing(c) \/ Grpc(c) \/ ListNext(c)

Next == \/ \E c \in Clients : Begin(c) \/ List(c) \/ Step(c) \/ Fail(c)
        \/ Damage \/ Crash \/ Done
Spec == Init /\ [][Next]_vars

-----------------------------------------------------------------------------
TypeOK ==
  /\ \A s \in Ids, d \in Digests : rows[s][d].k \in {"none", "some", "bad"}
  /\ Len(lru) <= Capacity /\ faults \in 0..MaxFaults

\* A get answers with a path info of the digest it was asked for that some
\* client put, with the signatures it came with followed by one of every signing
\* service on its way, whatever failed, was evicted, cached or damaged meanwhile.
AnswersWerePut ==
  \A c \in Clients : last[c].op = "get" /\ last[c].res.k = "some" =>
    last[c].res.p.d = last[c].d /\ last[c].res.p \in puts

\* A path info that a database acknowledged before a get or has began, and that
\* is the database this service, or its cache's far side, ends in, is found: not
\* in spite of an error, but never answered with none (a crash in between included).
PutIsFound ==
  \A c \in Clients : last[c].acked => last[c].res.k \notin {"no"} /\ ~(last[c].op = "get" /\ last[c].res.k = "none")

\* A listing of a redb database or of the LRU service that ends without an error
\* is what was stored when it began, although puts go on; one of Bigtable has
\* every digest once, in order.
ListIsSnapshot ==
  \A c \in Clients : last[c].op = "list" /\ last[c].res.k = "ok" /\ listing[c].s \in Ids =>
    IF Kind(listing[c].s) = "bigtable"
    THEN \A i \in 2..Len(listing[c].got) : listing[c].got[i - 1].d < listing[c].got[i].d
    ELSE listing[c].got = listing[c].start

=============================================================================
