------------------------------ MODULE Imports ------------------------------
(***************************************************************************)
(* Importing paths of the host's filesystem into the store: builtins.path  *)
(* and builtins.filterSource (snix/glue/src/builtins/import.rs), and the   *)
(* import of a path used in a string (snix_store_io.rs, store/import.rs).  *)
(*                                                                         *)
(* The tree is walked entry by entry, calling back into the evaluator for  *)
(* the filter; then the entries kept are read, files stat'ed first and     *)
(* read later, several at a time.  Other programs may change the tree at   *)
(* any point in between.                                                   *)
(***************************************************************************)
EXTENDS Integers, Sequences, FiniteSets, SequencesExt

CONSTANTS Trees,    \* what may be at the path: a function from relative paths
          Changes,  \* what a file may be replaced by
          MaxEdits  \* bound: changes made by other programs

VARIABLES fs,      \* the tree on the host's filesystem
          import,  \* the import in progress or done
          store,   \* the PathInfos put
          edits,   \* changes made so far
          before   \* the tree and edits when the import started (specification only)

vars == <<fs, import, store, edits, before>>

(* the nodes of a tree; the contents 1 and 2 have the same size, 3 another *)
Dir == [type |-> "directory", content |-> 0, executable |-> FALSE]
Link == [type |-> "symlink", content |-> 0, executable |-> TRUE] \* dangling; mode 777
File(c, x) == [type |-> "regular", content |-> c, executable |-> x]
Size(c) == IF c = 3 THEN 2 ELSE 1
Stat(n) == [executable |-> n.executable, size |-> Size(n.content)]

Root == <<>>
Exists(p) == p \in DOMAIN fs
Children(p) == {q \in DOMAIN fs : q # Root /\ Front(q) = p}

(***************************************************************************)
(* Calls: the builtin and its arguments.  An expected hash is that of the  *)
(* tree or file as somebody saw it, here as it is when the call is made.   *)
(***************************************************************************)
Nar(node) == [kind |-> "nar", of |-> node]
Flat(content) == [kind |-> "flat", of |-> Root :> File(content, FALSE)]
NoHash == [kind |-> "none", of |-> << >>]

Idle == [phase |-> "idle"]

Call(name, filter, recursive, sha256) ==
    [phase |-> "start", name |-> name, filter |-> filter, recursive |-> recursive,
     sha256 |-> sha256, frames |-> <<>>, entries |-> <<>>, seen |-> << >>, node |-> << >>]

Fail == import' = [import EXCEPT !.phase = "failed"] /\ UNCHANGED <<fs, store, edits, before>>

(* a filter answers for every entry below the root, or fails *)
Answers == [DOMAIN fs \ {Root} -> {"keep", "drop"}]
Filters == Answers \cup {[p \in DOMAIN fs \ {Root} |-> "error"]}
KeepAll == [p \in DOMAIN fs \ {Root} |-> "keep"]

Begin ==
    /\ import = Idle
    /\ \E recursive \in BOOLEAN, filter \in Filters, name \in {"valid", "invalid"},
          hash \in {NoHash, Nar(fs)} \cup {Flat(c) : c \in {fs[Root].content}} :
          import' = Call(name, filter, recursive, hash)
    /\ before' = <<fs, edits>>
    /\ UNCHANGED <<fs, store, edits>>

(* "${path}": no filter, always recursive, whatever is at the root *)
BeginCoercion ==
    /\ import = Idle
    /\ import' = [Call("valid", KeepAll, TRUE, NoHash) EXCEPT !.phase = "walk"]
    /\ before' = <<fs, edits>>
    /\ UNCHANGED <<fs, store, edits>>

(***************************************************************************)
(* import_helper: the name is checked, then the type of the path, links    *)
(* followed.  A regular file goes to the blob service as it is read, never *)
(* executable, past the filter.                                            *)
(***************************************************************************)
Started == import.phase = "start" /\ import.name = "valid"

FlatMatches(content) ==
    import.recursive \/ import.sha256 = NoHash \/ import.sha256 = Flat(content)

ImportFile ==
    /\ Started /\ fs[Root].type = "regular"
    /\ IF FlatMatches(fs[Root].content)
       THEN /\ import' = [import EXCEPT !.phase = "ingested",
                                        !.node = Root :> File(fs[Root].content, FALSE),
                                        !.seen = Root :> Stat(fs[Root])]
            /\ UNCHANGED <<fs, store, edits, before>>
       ELSE Fail

ImportDirectory ==
    /\ Started /\ fs[Root].type = "directory" /\ import.recursive
    /\ import' = [import EXCEPT !.phase = "walk"]
    /\ UNCHANGED <<fs, store, edits, before>>

RefuseStart ==
    /\ import.phase = "start"
    /\ \/ import.name = "invalid"
       \/ fs[Root].type = "directory" /\ ~import.recursive
       \/ fs[Root].type \in {"unknown", "symlink"}
    /\ Fail

(***************************************************************************)
(* filtered_ingest, and the walk of ingest_path: the root first, then the  *)
(* entries of each directory, listed when the directory is reached.  A     *)
(* directory that is filtered out is not entered.                          *)
(***************************************************************************)
Listing(p) == {<<q, fs[q].type>> : q \in Children(p)}

Enter(p, type, frames) ==
    IF type = "directory" THEN Append(frames, Listing(p)) ELSE frames

WalkRoot ==
    /\ import.phase = "walk" /\ import.entries = <<>>
    /\ import' = [import EXCEPT !.entries = << <<Root, fs[Root].type>> >>,
                                !.frames = Enter(Root, fs[Root].type, <<>>)]
    /\ UNCHANGED <<fs, store, edits, before>>

Skipped(frames, type) == IF type = "directory" THEN Front(frames) ELSE frames

(* walkdir enters a directory as it yields it; skip_current_dir leaves it *)
WalkNext ==
    /\ import.phase = "walk" /\ import.frames # <<>> /\ Last(import.frames) # {}
    /\ \E e \in Last(import.frames) :
          LET rest == [import.frames EXCEPT ![Len(import.frames)] = @ \ {e}]
              entered == Enter(e[1], e[2], rest)
              lost == e[2] = "directory" /\ ~Exists(e[1])
              answer == import.filter[e[1]]
          IN  CASE answer = "error" \/ (answer = "keep" /\ lost) -> Fail
                [] answer = "keep" /\ ~lost ->
                     /\ import' = [import EXCEPT !.entries = Append(@, e), !.frames = entered]
                     /\ UNCHANGED <<fs, store, edits, before>>
                [] answer = "drop" ->
                     /\ import' = [import EXCEPT !.frames = Skipped(entered, e[2])]
                     /\ UNCHANGED <<fs, store, edits, before>>

WalkUp ==
    /\ import.phase = "walk" /\ import.frames # <<>> /\ Last(import.frames) = {}
    /\ import' = [import EXCEPT !.frames = Front(@)]
    /\ UNCHANGED <<fs, store, edits, before>>

WalkDone ==
    /\ import.phase = "walk" /\ import.entries # <<>> /\ import.frames = <<>>
    /\ import' = [import EXCEPT !.phase = "read"]
    /\ UNCHANGED <<fs, store, edits, before>>

(***************************************************************************)
(* dir_entry_to_ingestion_entry, for up to 50 entries at a time: a file's  *)
(* metadata first, its contents later; whatever is at the path by then.    *)
(***************************************************************************)
Unread == {i \in DOMAIN import.entries : import.entries[i][1] \notin DOMAIN import.node}

Took(p, n) == [import EXCEPT !.node = @ @@ (p :> n)]

(* a file is read if it is there, under the size and mode it had when stat'ed *)
ReadEntry ==
    /\ import.phase = "read"
    /\ \E i \in Unread :
          LET p == import.entries[i][1]
              type == import.entries[i][2]
              stated == p \in DOMAIN import.seen
          IN  \/ /\ type = "directory"
                 /\ import' = Took(p, Dir)
              \/ /\ type = "symlink" /\ Exists(p) /\ fs[p].type = "symlink"
                 /\ import' = Took(p, Link)
              \/ /\ type = "regular" /\ Exists(p) /\ ~stated
                 /\ import' = [import EXCEPT !.seen = @ @@ (p :> Stat(fs[p]))]
              \/ /\ type = "regular" /\ stated /\ Exists(p) /\ fs[p].type = "regular"
                 /\ import' = Took(p, File(fs[p].content, import.seen[p].executable))
    /\ UNCHANGED <<fs, store, edits, before>>

ReadFails ==
    /\ import.phase = "read"
    /\ \E i \in Unread :
          LET p == import.entries[i][1]
              type == import.entries[i][2]
          IN  \/ type = "unknown"
              \/ type # "directory" /\ ~Exists(p)
              \/ type = "symlink" /\ Exists(p) /\ fs[p].type # "symlink"
              \/ type = "regular" /\ p \in DOMAIN import.seen /\ Exists(p) /\ fs[p].type # "regular"
    /\ Fail

(* ingest_entries is given the entries last to first: children come before *)
(* their directory, and the root comes last                                *)
Stream == Reverse(import.entries)

IngestDone ==
    /\ import.phase = "read" /\ Unread = {}
    /\ import' = [import EXCEPT !.phase = "ingested"]
    /\ UNCHANGED <<fs, store, edits, before>>

(***************************************************************************)
(* The NAR is rendered from the store: a file whose blob does not have the *)
(* size its node says stops it.  Then the hashes are compared, the store   *)
(* path is computed and the PathInfo put.                                  *)
(***************************************************************************)
calculate_nar(node) ==
    \A p \in DOMAIN node : node[p].type = "regular" => import.seen[p].size = Size(node[p].content)

NarMatches(node) == import.sha256 = NoHash \/ import.sha256 = Nar(node)

PathInfo(node, ca) ==
    [store_path |-> <<import.name, ca>>, node |-> node, sizes |-> import.seen,
     nar_sha256 |-> Nar(node), ca |-> ca]

Persist ==
    /\ import.phase = "ingested"
    /\ LET flat == ~import.recursive
           ca == IF flat THEN Flat(import.node[Root].content) ELSE Nar(import.node)
       IN  IF calculate_nar(import.node) /\ (flat \/ NarMatches(import.node))
           THEN /\ store' = store \cup {PathInfo(import.node, ca)}
                /\ import' = [import EXCEPT !.phase = "done"]
                /\ UNCHANGED <<fs, edits, before>>
           ELSE Fail

(* another program replaces a file, or removes something *)
Edit ==
    /\ edits < MaxEdits /\ edits' = edits + 1
    /\ \E p \in DOMAIN fs :
          \/ fs[p].type = "regular" /\ \E n \in Changes : fs' = [fs EXCEPT ![p] = n]
          \/ Children(p) = {} /\ p # Root
             /\ fs' = [q \in DOMAIN fs \ {p} |-> fs[q]]
    /\ UNCHANGED <<import, store, before>>

Init ==
    /\ fs \in Trees /\ before = <<fs, 0>>
    /\ import = Idle /\ store = {} /\ edits = 0

Importing ==
    \/ Begin \/ BeginCoercion \/ ImportFile \/ ImportDirectory \/ RefuseStart
    \/ (import # Idle /\ (\/ WalkRoot \/ WalkNext \/ WalkUp \/ WalkDone
                          \/ ReadEntry \/ ReadFails \/ IngestDone \/ Persist))

Next == Importing \/ Edit

Spec == Init /\ [][Next]_vars

(***************************************************************************)
(* Properties.                                                             *)
(***************************************************************************)
TypeOK ==
    /\ edits \in 0 .. MaxEdits
    /\ import # Idle => /\ DOMAIN import.node \subseteq DOMAIN before[1]
                        /\ DOMAIN import.seen \subseteq DOMAIN before[1]

(* The entries kept can be ingested: read from the last to the first, as     *)
(* filtered_ingest hands them to ingest_entries, every entry comes before    *)
(* the directory it is in, which is among them, and the root comes last.     *)
Ingestible ==
    import # Idle /\ import.phase = "read" =>
        /\ Last(Stream)[1] = Root
        /\ \A i \in 1 .. Len(Stream) - 1 : \E j \in i + 1 .. Len(Stream) :
              Stream[j][1] = Front(Stream[i][1]) /\ Stream[j][2] = "directory"

Kept(p) == \A n \in 1 .. Len(p) : import.filter[SubSeq(p, 1, n)] = "keep"

(* What is imported is the tree without what the filter refused and what is   *)
(* below that, and nothing else is missing, if nobody changed it meanwhile.   *)
(* (A regular file at the root never is executable in the store.)             *)
FilteredTree ==
    import # Idle /\ import.phase = "done" /\ edits = before[2] =>
        /\ DOMAIN import.node = {p \in DOMAIN before[1] : Kept(p)}
        /\ fs[Root].type # "regular" =>
              \A p \in DOMAIN import.node : import.node[p] = before[1][p]

(* A file is stat'ed and read at different times, and may be replaced in     *)
(* between.  Then an import has the mode of one file and the content of the  *)
(* other, but only if both have the same size: otherwise the NAR cannot be   *)
(* rendered and nothing is put.  (For one change during the import.)         *)
NoTornSizes ==
    import # Idle /\ import.phase = "done" /\ edits <= before[2] + 1 =>
        \A p \in {q \in DOMAIN import.node : import.node[q].type = "regular"} :
            \E old, new \in {t \in {before[1], fs} : p \in DOMAIN t} :
                /\ import.node[p].content = new[p].content
                /\ p # Root => import.node[p].executable = old[p].executable
                /\ Size(old[p].content) = Size(new[p].content)

(* An import with an expected sha256 only succeeds with contents that have   *)
(* it, flat or as a NAR as asked, even if the files changed on the way.      *)
HashHonoured ==
    import # Idle /\ import.phase = "done" /\ import.sha256 # NoHash =>
        import.sha256 = IF import.recursive THEN Nar(import.node)
                        ELSE Flat(import.node[Root].content)

=============================================================================
