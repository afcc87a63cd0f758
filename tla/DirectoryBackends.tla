-------------------------- MODULE DirectoryBackends --------------------------
(* The directory services that keep directories on storage, read through the *)
(* Priority combinator: redb tables, bigtable rows and one object per        *)
(* closure. Rows get lost or damaged, a database is opened read-only or not  *)
(* at all, and a reader's stream interleaves with uploads and damage.        *)
(*                                                                           *)
(* A stored value is the number of the directory it decodes to, which stands *)
(* for the hash of the value as well; 0 is no value, Garbage one that hashes *)
(* to something else and does not decode.                                    *)
EXTENDS Naturals, Sequences, SequencesExt, FiniteSets

CONSTANTS Pointers,     \* directory -> the directories it points to, in order
          Services,     \* the kinds of the services, ascending by priority
          TooBig,       \* directories beyond bigtable's cell size limit
          MaxUploads, MaxDamage, MaxReads

Digests == DOMAIN Pointers
Garbage == 100
Ids == DOMAIN Services
Children(d) == ToSet(Pointers[d])

VARIABLES rows,     \* per service: digest -> value
          objects,  \* per service: root digest -> the frames of its object, or <<>>
          file,     \* per redb service: "absent", "bare" (no table yet) or "table"
          db,       \* per redb service: "closed", "ro" or "rw"
          put_,     \* digests whose upload to a service succeeded: <<service, digest>>
          spoilt,   \* <<service, digest>> of rows and objects that were damaged since
          reader,   \* the stream of a get_recursive, or NoReader
          damage, reads
vars == <<rows, objects, file, db, put_, spoilt, reader, damage, reads>>

NoReader == [root |-> 0]
Start(root) ==
  [root |-> root, service |-> 1, work |-> <<root>>, frames |-> <<>>, opened |-> FALSE,
   out |-> <<>>, status |-> "open", had |-> {s \in Ids : <<s, root>> \in put_ \ spoilt}]

Init ==
  /\ rows = [s \in Ids |-> [d \in Digests |-> 0]]
  /\ objects = [s \in Ids |-> [d \in Digests |-> <<>>]]
  /\ file = [s \in Ids |-> "absent"]
  /\ db = [s \in Ids |-> IF Services[s] = "redb" THEN "closed" ELSE "rw"]
  /\ put_ = {} /\ spoilt = {} /\ reader = NoReader /\ damage = 0 /\ reads = 0

-----------------------------------------------------------------------------
(* RedbDirectoryService::new: a file that is not there cannot be opened      *)
(* read-only; otherwise it is created and create_schema() runs, unless the   *)
(* process dies before.                                                      *)
new(s, read_only) ==
  /\ Services[s] = "redb" /\ db[s] = "closed"
  /\ \/ /\ read_only /\ file[s] # "absent"
        /\ db' = [db EXCEPT ![s] = "ro"] /\ UNCHANGED file
     \/ /\ ~read_only
        /\ \/ file' = [file EXCEPT ![s] = "table"] /\ db' = [db EXCEPT ![s] = "rw"]
           \/ /\ file[s] = "absent" /\ file' = [file EXCEPT ![s] = "bare"]
              /\ UNCHANGED db
  /\ UNCHANGED <<rows, objects, put_, spoilt, reader, damage, reads>>

Close(s) ==
  /\ Services[s] = "redb" /\ db[s] # "closed" /\ reader = NoReader
  /\ db' = [db EXCEPT ![s] = "closed"]
  /\ UNCHANGED <<rows, objects, file, put_, spoilt, reader, damage, reads>>

redb_get(s, d) ==
  IF db[s] = "closed" \/ file[s] # "table" THEN <<"error", 0>>
  ELSE IF rows[s][d] = 0 THEN <<"none", 0>>
  ELSE IF rows[s][d] # d THEN <<"error", 0>> ELSE <<"found", d>>

(* The row is asked for by key and family, its cell by the same key.         *)
bigtable_get(s, d) ==
  IF rows[s][d] = 0 THEN <<"none", 0>>
  ELSE IF rows[s][d] # d THEN <<"error", 0>> ELSE <<"found", d>>

(* An insert replaces the row.                                               *)
redb_put(s, d) == db[s] = "rw" /\ rows' = [rows EXCEPT ![s][d] = d]

(* check_and_mutate_row leaves a row that is there alone, damaged or not.    *)
bigtable_put(s, d) ==
  d \notin TooBig /\ rows' = [rows EXCEPT ![s][d] = IF @ = 0 THEN d ELSE @]

Uploads == Cardinality(put_) < MaxUploads

(* A single put. Callers put the children first, as SimplePutter does.       *)
Put(s, d) ==
  /\ Uploads /\ <<s, d>> \notin put_ /\ \A c \in Children(d) : <<s, c>> \in put_
  /\ \/ Services[s] = "redb" /\ redb_put(s, d) /\ spoilt' = spoilt \ {<<s, d>>}
     \/ Services[s] = "bigtable" /\ bigtable_put(s, d) /\ UNCHANGED spoilt
  /\ put_' = put_ \cup {<<s, d>>}
  /\ UNCHANGED <<objects, file, db, reader, damage, reads>>

RECURSIVE Breadth(_, _)
Breadth(work, out) ==
  IF work = <<>> THEN out
  ELSE LET d == Head(work)
           new_ == SelectSeq(Pointers[d], LAMBDA c : ~Contains(Tail(work) \o out \o <<d>>, c))
       IN  Breadth(Tail(work) \o new_, Append(out, d))

(* The object store takes closures; a single put is refused for a directory  *)
(* with children. An object that is there is left alone.                     *)
PutClosure(s, root) ==
  /\ Uploads /\ Services[s] = "object" /\ <<s, root>> \notin put_
  /\ objects' = [objects EXCEPT ![s][root] = IF @ = <<>> THEN Breadth(<<root>>, <<>>) ELSE @]
  /\ put_' = put_ \cup {<<s, root>>}
  /\ UNCHANGED <<rows, file, db, spoilt, reader, damage, reads>>

(* RedbDirectoryPutter::close: the whole closure in one transaction.         *)
redb_close(s, root) ==
  LET closure == ToSet(Breadth(<<root>>, <<>>))
  IN  /\ Uploads /\ Services[s] = "redb" /\ db[s] = "rw" /\ <<s, root>> \notin put_
      /\ rows' = [rows EXCEPT ![s] = [d \in Digests |-> IF d \in closure THEN d ELSE @[d]]]
      /\ put_' = put_ \cup ({s} \X closure) /\ spoilt' = spoilt \ ({s} \X closure)
      /\ UNCHANGED <<objects, file, db, reader, damage, reads>>

Damage(s, d) ==
  /\ damage < MaxDamage /\ damage' = damage + 1 /\ spoilt' = spoilt \cup {<<s, d>>}
  /\ \/ /\ rows[s][d] # 0
        /\ \E v \in {0, Garbage} \cup Digests : v # rows[s][d] /\ rows' = [rows EXCEPT ![s][d] = v]
        /\ UNCHANGED objects
     \/ /\ objects[s][d] # <<>> /\ UNCHANGED rows
        /\ \/ \E n \in 0..Len(objects[s][d]) - 1 :
                objects' = [objects EXCEPT ![s][d] = IF n = 0 THEN <<Garbage>> ELSE SubSeq(@, 1, n)]
           \/ \E i \in DOMAIN objects[s][d], v \in Digests \cup {Garbage} :
                v # objects[s][d][i] /\ objects' = [objects EXCEPT ![s][d][i] = v]
  /\ reader' = IF d = reader.root THEN [reader EXCEPT !.had = @ \ {s}] ELSE reader
  /\ UNCHANGED <<file, db, put_, reads>>

-----------------------------------------------------------------------------
(* get_recursive of Priority: the first service with a non-empty stream      *)
(* provides the whole stream, errors included.                               *)
get_recursive(root) ==
  /\ reader = NoReader /\ reads < MaxReads /\ reads' = reads + 1
  /\ reader' = Start(root)
  /\ UNCHANGED <<rows, objects, file, db, put_, spoilt, damage>>

Yield(d, work) == reader' = [reader EXCEPT !.out = Append(@, d), !.work = work]
Fails == reader' = [reader EXCEPT !.status = "error"]
Ends == reader' = [reader EXCEPT !.status = "end"]

(* The service has an empty stream: on to the next one, if there is one.     *)
Absent ==
  IF reader.service = Len(Services) THEN Ends
  ELSE reader' = [reader EXCEPT !.service = @ + 1, !.work = <<reader.root>>]

\* Mutated form: a child that is not there ends the stream.
Missing_Ends == IF reader.out = <<>> THEN Absent ELSE Ends

Missing == IF reader.out = <<>> THEN Absent ELSE Fails

(* root_to_leaves: one get per directory, in the order they were heard of.   *)
TableNext(s) ==
  LET d == Head(reader.work)
      r == IF Services[s] = "redb" THEN redb_get(s, d) ELSE bigtable_get(s, d)
  IN  IF reader.work = <<>> THEN Ends
      ELSE CASE r[1] = "error" -> Fails
             [] r[1] = "none"  -> Missing
             [] r[1] = "found" ->
                  Yield(r[2], Tail(reader.work) \o
                    SelectSeq(Pointers[r[2]],
                              LAMBDA c : ~Contains(Tail(reader.work) \o reader.out \o <<d>>, c)))

Heard == {reader.root} \cup UNION {Children(d) : d \in ToSet(reader.out)}

Finalize == IF Heard \subseteq ToSet(reader.out) THEN Ends ELSE Fails

(* The object is opened once and read frame by frame, through the validator. *)
ObjectNext(s) ==
  IF ~reader.opened
  THEN IF objects[s][reader.root] = <<>> THEN Absent
       ELSE reader' = [reader EXCEPT !.opened = TRUE, !.frames = objects[s][reader.root]]
  ELSE IF reader.frames = <<>> THEN Finalize
  ELSE LET v == Head(reader.frames)
       IN  IF v \notin Heard THEN Fails
           ELSE reader' = [reader EXCEPT !.frames = Tail(@), !.out = Append(@, v)]

Next_ ==
  /\ reader # NoReader /\ reader.status = "open"
  /\ IF Services[reader.service] = "object" THEN ObjectNext(reader.service) ELSE TableNext(reader.service)
  /\ UNCHANGED <<rows, objects, file, db, put_, spoilt, damage, reads>>

Drop ==
  /\ reader # NoReader /\ reader.status # "open" /\ reader' = NoReader
  /\ UNCHANGED <<rows, objects, file, db, put_, spoilt, damage, reads>>

Over == reads = MaxReads /\ reader = NoReader /\ UNCHANGED vars

Next ==
  \/ \E s \in Ids : \/ new(s, TRUE) \/ new(s, FALSE) \/ Close(s)
                    \/ \E d \in Digests : Put(s, d) \/ PutClosure(s, d) \/ redb_close(s, d) \/ Damage(s, d)
  \/ \E d \in Digests : get_recursive(d)
  \/ Next_ \/ Drop \/ Over
Spec == Init /\ [][Next]_vars

-----------------------------------------------------------------------------
TypeOK ==
  /\ rows \in [Ids -> [Digests -> Digests \cup {0, Garbage}]]
  /\ file \in [Ids -> {"absent", "bare", "table"}] /\ db \in [Ids -> {"closed", "ro", "rw"}]
  /\ put_ \subseteq Ids \X Digests /\ spoilt \subseteq Ids \X Digests

\* A stream only ever yields the directories of the closure asked for, its root
\* first and every other one after a directory that points to it, whatever
\* became of the storage in the meantime.
StreamGenuine ==
  reader # NoReader =>
    \A i \in DOMAIN reader.out :
      reader.out[i] = reader.root \/ \E j \in 1..i - 1 : reader.out[i] \in Children(reader.out[j])

\* A stream that ends without an error is empty or is the whole closure: a
\* directory that is lost, damaged or replaced meanwhile is never left out
\* silently, and no service is asked to complete another one's closure.
StreamWhole ==
  reader # NoReader /\ reader.status = "end" /\ reader.out # <<>> =>
    \A d \in ToSet(reader.out) : Children(d) \subseteq ToSet(reader.out)

\* A closure that was uploaded to one of the services is found, or the stream
\* fails: it does not come out empty unless what was uploaded got lost.
UploadFound ==
  reader # NoReader /\ reader.status = "end" /\ reader.out = <<>> => reader.had = {}
=============================================================================
