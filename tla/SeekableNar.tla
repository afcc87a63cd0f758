---------------------------- MODULE SeekableNar ----------------------------
(***************************************************************************)
(* The three ways in which the store serves a castore node as a NAR        *)
(* (store/src/nar): SimpleRenderer's write_nar, the seekable Reader, which *)
(* cuts the NAR into literal segments and holes for blobs, and the listing *)
(* that says at which offset each file is.                                 *)
(*                                                                         *)
(* The user of the Reader reads and seeks as tokio's read and seek do, may *)
(* drop a seek that is not complete, and may go on after an error.         *)
(***************************************************************************)
EXTENDS NarWriter, FiniteSets

CONSTANTS Roots,        \* castore nodes; a directory that the service lacks is not known
          Held,         \* what blobs the blob service may have: how many bytes of each, or -1
          Targets,      \* where the user seeks to
          Amounts       \* how large its buffers are

VARIABLES root, held,
          segments, position_bytes, position_index, seeking, current_blob,  \* Reader
          phase,        \* "new", "failed", "idle", "seeking", "panic"
          result,       \* of the last call
          fault         \* the blob service has failed
vars == <<root, held, segments, position_bytes, position_index, seeking, current_blob, phase, result, fault>>

Byte(d, i) == [t |-> "byte", d |-> d, i |-> i]
blob(d, n) == [i \in 1..n |-> Byte(d, i)]

\* The reference: the archive of the tree below a node.
RECURSIVE Tree(_)
Tree(node) ==
    CASE node.type = "symlink" -> node
      [] node.type = "regular" -> [type |-> "regular", exe |-> node.exe, contents |-> blob(node.digest, node.size)]
      [] node.type = "directory" ->
            [type |-> "directory", entries |-> [i \in DOMAIN node.entries |-> <<node.entries[i][1], Tree(node.entries[i][2])>>]]
Nar == Render(Tree(root))

\* A node and all below it.
RECURSIVE Below(_)
Below(node) == {node} \union (IF node.type # "directory" THEN {}
                              ELSE UNION {Below(node.entries[i][2]) : i \in DOMAIN node.entries})
Known(node) == node.type = "directory" => node.known
Complete == \A node \in Below(root) : Known(node)
Intact == \A node \in Below(root) : node.type = "regular" => held[node.digest] = node.size

-----------------------------------------------------------------------------
(* renderer.rs.  An error leaves the rest unwritten. *)
Written(ok, toks) == [ok |-> ok, toks |-> toks]
Then(w, toks) == IF w.ok THEN [w EXCEPT !.toks = @ \o toks] ELSE w
\* The async writer's Node::file: the reader must hold exactly size bytes.
file(w, node) ==
    LET all == Then(w, fileOpen(node.exe, node.size) \o blob(node.digest, node.size) \o fileClose(node.size))
    IN  [all EXCEPT !.ok = @ /\ held[node.digest] = node.size]
RECURSIVE write_node(_, _), write_entries(_, _, _)
write_node(w, node) ==
    CASE ~w.ok -> w
      [] w.ok /\ node.type = "symlink" -> Then(w, symlink(node.target))
      [] w.ok /\ node.type = "regular" -> IF held[node.digest] = -1 THEN [w EXCEPT !.ok = FALSE] ELSE file(w, node)
      [] w.ok /\ node.type = "directory" ->
            IF ~node.known THEN [w EXCEPT !.ok = FALSE]
            ELSE Then(write_entries(Then(w, <<T("DIR")>>), node.entries, 1), close(node.entries # <<>>))
write_entries(w, entries, i) ==
    IF i > Len(entries) THEN w
    ELSE write_entries(write_node(Then(w, entry(i > 1, entries[i][1])), entries[i][2]), entries, i + 1)
write_nar == write_node(Written(TRUE, <<T("NAR")>>), root)

-----------------------------------------------------------------------------
(* listing.rs: a writer that only counts, and the sizes of files added to it *)
RECURSIVE produce_listing_inner(_, _), list_entries(_, _, _, _)
nar_offset(bytes_written, node) == bytes_written
produce_listing_inner(node, written) ==
    CASE node.type = "symlink" -> [entry |-> node, written |-> written + Len(symlink(node.target))]
      [] node.type = "regular" ->
            LET at == written + Len(fileOpen(node.exe, node.size))
            IN  [entry |-> [type |-> "regular", size |-> node.size, executable |-> node.exe, nar_offset |-> nar_offset(at, node)],
                 written |-> at + node.size + Len(fileClose(node.size))]
      [] node.type = "directory" ->
            LET l == list_entries(node.entries, 1, written + 1, <<>>)
            IN  [entry |-> [type |-> "directory", entries |-> l.entries],
                 written |-> l.written + Len(close(node.entries # <<>>))]
list_entries(entries, i, written, done) ==
    IF i > Len(entries) THEN [entries |-> done, written |-> written]
    ELSE LET l == produce_listing_inner(entries[i][2], written + Len(entry(i > 1, entries[i][1])))
         IN  list_entries(entries, i + 1, l.written, Append(done, <<entries[i][1], l.entry>>))
\* For a root that the service does not have, get_recursive is an empty stream,
\* the validator is asked nothing, and the lookup finds no directory.
produce_listing ==
    CASE ~Known(root) -> [type |-> "panic"]
      [] Known(root) /\ ~Complete -> [type |-> "error"]
      [] OTHER -> produce_listing_inner(root, 1).entry

\* ListingEntry::locate: 0 stands for ".", -1 for ".." and a leading "/".
RECURSIVE locate(_, _)
locate(cur, path) ==
    IF path = <<>> THEN cur
    ELSE CASE Head(path) = 0 -> locate(cur, Tail(path))
           [] Head(path) = -1 -> [type |-> "error"]
           [] Head(path) > 0 ->
                 IF cur.type # "directory" THEN [type |-> "none"]
                 ELSE LET there == {i \in DOMAIN cur.entries : cur.entries[i][1] = Head(path)}
                      IN  IF there = {} THEN [type |-> "none"] ELSE locate(cur.entries[CHOOSE i \in there : TRUE][2], Tail(path))

-----------------------------------------------------------------------------
(* seekable.rs: building the segments *)
Literal(toks) == [kind |-> "literal", toks |-> toks, digest |-> 0, size |-> Len(toks)]
Blob(node) == [kind |-> "blob", toks |-> <<>>, digest |-> node.digest, size |-> node.size]
Push(acc, data) == [acc EXCEPT !.segments = Append(@, [offset |-> acc.offset, data |-> data]), !.offset = @ + data.size]
flush_segment(acc) == [Push(acc, Literal(acc.cur)) EXCEPT !.cur = <<>>]
RECURSIVE walk_node(_, _), walk_entries(_, _, _)
walk_node(acc, node) ==
    CASE node.type = "symlink" -> [acc EXCEPT !.cur = @ \o symlink(node.target)]
      [] node.type = "regular" ->
            LET before == flush_segment([acc EXCEPT !.cur = @ \o fileOpen(node.exe, node.size)])
            IN  [Push(before, Blob(node)) EXCEPT !.cur = fileClose(node.size)]
      [] node.type = "directory" ->
            LET all == walk_entries([acc EXCEPT !.cur = @ \o <<T("DIR")>>], node.entries, 1)
            IN  [all EXCEPT !.cur = @ \o close(node.entries # <<>>)]
walk_entries(acc, entries, i) ==
    IF i > Len(entries) THEN acc
    ELSE walk_entries(walk_node([acc EXCEPT !.cur = @ \o entry(i > 1, entries[i][1])], entries[i][2]), entries, i + 1)
new_with_directory_graph == flush_segment(walk_node([segments |-> <<>>, offset |-> 0, cur |-> <<T("NAR")>>], root)).segments

stream_len == Last(segments).offset + Last(segments).data.size

-----------------------------------------------------------------------------
(* TryMaybeDone: a reader that is being opened, is there, or is gone.  A     *)
(* "doomed" one will unwrap the output of a reader that was not there.       *)
Gone == [s |-> "gone", d |-> 0, at |-> 0]
Opening(d, at) == [s |-> "future", d |-> d, at |-> at]
Doomed == [s |-> "doomed", d |-> 0, at |-> 0]
is_terminated(b) == b.s \in {"gone", "done"}
\* What polling it may come to.
Polls(b) ==
    CASE b.s = "done" -> {[how |-> "ok", b |-> b]}
      [] b.s = "future" -> {[how |-> "err", b |-> Gone]}
                           \union (IF held[b.d] = -1 THEN {} ELSE {[how |-> "ok", b |-> [b EXCEPT !.s = "done"]]})
      [] OTHER -> {[how |-> "panic", b |-> Gone]}

Data(i) == segments[i].data
\* slice::binary_search_by_key: of several segments with the offset any one (the
\* last, as the standard library is today); else the one before its place.
Found(pos) ==
    LET upto == {i \in DOMAIN segments : segments[i].offset <= pos}
    IN  {i \in upto : segments[i].offset = pos \/ \A j \in upto : segments[j].offset # pos /\ i >= j}
\* What start_seek makes of the blob reader b, for a new position p in segment i.
SeekBlob(b, p, i) ==
    CASE Data(i).kind = "literal" -> Gone
      [] Data(i).kind = "blob" /\ p = position_bytes -> b
      [] Data(i).kind = "blob" /\ p # position_bytes /\ i = position_index /\ b.s # "done" -> Doomed
      [] OTHER -> Opening(Data(i).digest, p - segments[i].offset)

\* The blob reader is not where the position is.
Strayed ==
    /\ current_blob.s = "done" /\ position_index <= Len(segments)
    /\ current_blob.at # position_bytes - segments[position_index].offset
\* The position is in the hole of an empty file.
InEmptyHole ==
    /\ position_index <= Len(segments)
    /\ Data(position_index).kind = "blob" /\ Data(position_index).size = 0

Returns(op, ok, data) ==
    result' = [op |-> op, ok |-> ok, at |-> position_bytes, data |-> data, strayed |-> Strayed]
Blames(how, b) == fault' = (fault \/ (how = "err" /\ held[b.d] # -1))
Panic == phase' = "panic" /\ UNCHANGED <<segments, position_bytes, position_index, seeking, current_blob, result>>

New ==
    /\ phase = "new"
    /\ \/ ~Known(root) /\ phase' = "panic" /\ UNCHANGED segments
       \/ Known(root) /\ ~Complete /\ phase' = "failed" /\ UNCHANGED segments
       \/ Complete /\ phase' = "idle" /\ segments' = new_with_directory_graph
    /\ UNCHANGED <<root, held, position_bytes, position_index, seeking, current_blob, result, fault>>

start_seek(b, target) ==
    LET p == IF target < stream_len THEN target ELSE stream_len
    IN  \E i \in Found(p) :
            /\ position_bytes' = p /\ position_index' = i /\ seeking' = TRUE
            /\ current_blob' = SeekBlob(b, p, i)
\* What poll_complete may come to.
Completes == IF is_terminated(current_blob) THEN {[how |-> "ok", b |-> current_blob]} ELSE Polls(current_blob)
\* tokio's seek completes what is going on, and starts; poll_complete ends it.
Seek ==
    /\ phase = "idle"
    /\ \E r \in Completes :
         /\ Blames(r.how, current_blob)
         /\ CASE r.how = "panic" -> Panic
              [] r.how = "err" -> /\ current_blob' = r.b /\ Returns("seek", FALSE, <<>>)
                                  /\ UNCHANGED <<segments, position_bytes, position_index, seeking, phase>>
              [] r.how = "ok" -> /\ \E t \in Targets : start_seek(r.b, t)
                                 /\ phase' = "seeking" /\ UNCHANGED <<segments, result>>
    /\ UNCHANGED <<root, held>>
poll_complete ==
    /\ phase = "seeking"
    /\ \E r \in Completes :
         /\ Blames(r.how, current_blob)
         /\ IF r.how = "panic" THEN Panic
            ELSE /\ current_blob' = r.b /\ seeking' = (r.how = "err") /\ phase' = "idle"
                 /\ Returns("seek", r.how = "ok", <<>>)
                 /\ UNCHANGED <<segments, position_bytes, position_index>>
    /\ UNCHANGED <<root, held>>
\* The seek is dropped before it is complete.
Abandon ==
    /\ phase = "seeking" /\ phase' = "idle" /\ Returns("seek", TRUE, <<>>)
    /\ UNCHANGED <<root, held, segments, position_bytes, position_index, seeking, current_blob, fault>>

\* After a read of n bytes: on past the segments that are at their end, which
\* includes holes of no size.
Onward(p) == LET ended == {i \in position_index..Len(segments) : \A j \in position_index..i : p - segments[j].offset >= Data(j).size}
             IN  position_index + Cardinality(ended)
Advance(b, data) ==
    LET p == position_bytes + Len(data)
        i == Onward(p)
    IN  /\ position_bytes' = p /\ position_index' = i
        /\ current_blob' = (CASE i = position_index -> b
                              [] i # position_index /\ i <= Len(segments) /\ Data(i).kind = "blob" -> Opening(Data(i).digest, 0)
                              [] OTHER -> Gone)
        /\ Returns("read", TRUE, data)
ReadFails(b) == current_blob' = b /\ Returns("read", FALSE, <<>>) /\ UNCHANGED <<position_bytes, position_index>>
ReadEnd == Returns("read", TRUE, <<>>) /\ UNCHANGED <<position_bytes, position_index, seeking, current_blob, fault, phase>>
ReadLiteral(n) ==
    LET at   == position_bytes - segments[position_index].offset
        toks == Data(position_index).toks
        size == IF n < Len(toks) - at THEN n ELSE Len(toks) - at
    IN  Advance(current_blob, SubSeq(toks, at + 1, at + size)) /\ UNCHANGED <<seeking, fault, phase>>
\* The blob's reader gives between 1 and n bytes, none when it has no more, or an
\* error.  What is more than the hole takes is refused, and has been read.
ReadBlob(n) ==
    LET d    == Data(position_index).digest
        most == segments[position_index].offset + Data(position_index).size - position_bytes
    IN  \E r \in Polls(current_blob) :
          CASE r.how = "panic" -> Panic /\ UNCHANGED fault
            [] r.how = "err" -> ReadFails(r.b) /\ Blames(r.how, current_blob) /\ UNCHANGED <<seeking, phase>>
            [] r.how = "ok" ->
                 /\ seeking' = FALSE /\ UNCHANGED phase
                 /\ \/ ReadFails(r.b) /\ fault' = TRUE
                    \/ \E k \in 0..n :
                         /\ k <= held[d] - r.b.at /\ (k = 0 => held[d] <= r.b.at)
                         /\ IF k = 0 \/ k > most THEN ReadFails([r.b EXCEPT !.at = @ + k])
                            ELSE Advance([r.b EXCEPT !.at = @ + k], [i \in 1..k |-> Byte(d, r.b.at + i)])
                         /\ UNCHANGED fault
poll_read ==
    /\ phase = "idle"
    /\ \E n \in Amounts :
         CASE position_index > Len(segments) -> ReadEnd
           [] position_index <= Len(segments) /\ Data(position_index).kind = "literal" -> ReadLiteral(n)
           [] OTHER -> ReadBlob(n)
    /\ UNCHANGED <<root, held, segments>>

Init == /\ root \in Roots /\ held \in Held
        /\ segments = <<>> /\ position_bytes = 0 /\ position_index = 1 /\ seeking = FALSE
        /\ current_blob = Gone /\ phase = "new" /\ fault = FALSE
        /\ result = [op |-> "none", ok |-> TRUE, at |-> 0, data |-> <<>>, strayed |-> FALSE]
Over == phase \in {"failed", "panic"} /\ UNCHANGED vars
Next == New \/ Seek \/ poll_complete \/ Abandon \/ poll_read \/ Over
Spec == Init /\ [][Next]_vars

-----------------------------------------------------------------------------
\* Whatever was read and sought before, also after errors, what a read returns
\* are the bytes of the NAR at the position it was made at, and it returns none
\* only at the end of the NAR (poll_read and start_seek, seekable.rs).  A blob that
\* is longer than recorded is excepted from the read on that was refused for it,
\* which has taken its bytes from the blob's reader but not moved the position:
\* for that blob, and no other, the reader and the position part.
ReadsNar ==
    /\ result.op = "read" /\ result.ok /\ ~result.strayed =>
        /\ result.data = SubSeq(Nar, result.at + 1, result.at + Len(result.data))
        /\ result.data = <<>> => result.at = Len(Nar)
    /\ Strayed => held[Data(position_index).digest] > Data(position_index).size

\* As long as the services deliver, no call fails or panics: the blob reader is
\* there whenever the position is in a hole (the unwrap and expect of
\* seekable.rs), and reads step over empty files.  Only the search of a seek can
\* leave the position in an empty hole, which shares its offset with the segment
\* behind it, and only from there does a read fail or panic.
NoneFails ==
    Complete /\ Intact /\ ~fault =>
        /\ phase = "panic" => InEmptyHole
        /\ phase = "idle" => result.ok \/ (result.op = "read" /\ InEmptyHole)
        /\ phase = "idle" /\ result.op = "read" /\ result.ok => ~InEmptyHole

\* The three views agree: the segments make up the NAR that write_nar writes,
\* write_nar fails just when a directory or a blob is not there as recorded, and
\* each file of the listing is, at its offset, the file that its path names.
RECURSIVE Paths(_)
Paths(node) == {<<>>} \union (IF node.type # "directory" THEN {}
                              ELSE UNION {{<<node.entries[i][1]>> \o p : p \in Paths(node.entries[i][2])} : i \in DOMAIN node.entries})
ViewsAgree ==
    phase = "idle" /\ result.op = "none" =>
        /\ stream_len = Len(Nar)
        /\ write_nar.ok <=> Complete /\ Intact
        /\ write_nar.ok => write_nar.toks = Nar
        /\ \A path \in Paths(root) :
             LET e == locate(produce_listing, path)
                 n == locate(root, path)
             IN  /\ e.type = n.type
                 /\ e.type = "regular" => SubSeq(Nar, e.nar_offset + 1, e.nar_offset + e.size) = blob(n.digest, n.size)

=============================================================================
