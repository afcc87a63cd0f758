----------------------------- MODULE NarArchive -----------------------------
(***************************************************************************)
(* Reading and writing NARs (nix-compat/src/nar): open, Node, FileReader   *)
(* and DirReader of the readers, with the status that debug builds keep to *)
(* catch readers that are used out of turn, and the writers as copy() and  *)
(* its async twin drive them.                                              *)
(*                                                                         *)
(* An archive is a sequence of the tokens of nar/wire, of strings, of the  *)
(* lengths and bytes of files, and of padding.  A user calls the readers   *)
(* in any order that Rust's borrows allow: it may drop one before it is    *)
(* exhausted, and go on after an error.                                    *)
(***************************************************************************)
EXTENDS NarWriter

CONSTANTS Archives,     \* well-formed archives
          Inputs,       \* what is read: those, and damaged ones
          BadNames,     \* names (numbers) that are empty, ".", "..", or hold "/" or NUL
          Amounts       \* how much of a file one call asks for

VARIABLES input,        \* what is read
          pos,          \* how much of it has been
          stack,        \* the readers that exist, each borrowed from the one below it
          poisoned,     \* ArchiveReaderStatus, shared by all of them
          state,        \* "start", "reading", "panic"
          failed,       \* a call has returned an error
          copying,      \* the user is copy(): it follows the rules
          out           \* what the writer has written
vars == <<input, pos, stack, poisoned, state, failed, copying, out>>

-----------------------------------------------------------------------------
(* read.rs: each reads one thing, or fails *)
Next_(p) == IF p < Len(input) THEN input[p + 1] ELSE T("eof")
token(p, t) == Next_(p).t = t
bytes(p) == Next_(p).t = "str"
\* What was read is gone also when it was not what it should be.
After(p) == IF p < Len(input) THEN p + 1 ELSE p

Turn(s, ready) == IF s = <<>> THEN s ELSE Append(Front(s), [Last(s) EXCEPT !.ready = ready])
\* A reader; a directory's has len 0 once it has returned None.
Reader(kind, len) == [kind |-> kind, len |-> len, size |-> len, prev |-> 0, ready |-> TRUE]
\* The new reader may be used, and the one it borrows from must wait.
child_Unnoticed(s, r) == Append(s, r)
child(s, r) == Append(Turn(s, FALSE), r)
\* This reader is done, and the one it was borrowed from may go on.
ready_parent(s) == Append(Turn(Front(s), TRUE), [Last(s) EXCEPT !.ready = FALSE])

Nothing == [type |-> "none"]
Ok(p, s, node) == [ok |-> TRUE, poison |-> FALSE, pos |-> p, stack |-> s, node |-> node]
Err(p, s, poison) == [ok |-> FALSE, poison |-> poison, pos |-> p, stack |-> s, node |-> Nothing]

\* FileReader::new: an empty file is at its end already.
NewFile(p, s, exe, len) ==
    LET node == [type |-> "regular", exe |-> exe, len |-> len]
    IN  IF len > 0 THEN Ok(p, child(s, Reader("file", len)), node)
        ELSE IF token(p, "PAR") THEN Ok(p + 1, ready_parent(child(s, Reader("file", 0))), node)
        ELSE Err(After(p), Turn(s, FALSE), FALSE)
\* Node::new, at p, over the readers s.  A wrong tag, and a wrong end of an empty
\* file, do not poison; but the parent keeps waiting for a child that never was.
NodeNew(p, s) ==
    LET kind == Next_(p).t
        n    == Next_(p + 1)
        lost == Turn(s, FALSE)
    IN  CASE kind = "SYM" /\ ~(bytes(p + 1) /\ n.v \notin BadNames /\ token(p + 2, "PAR")) -> Err(After(p + 1), lost, TRUE)
          [] kind = "SYM" /\ bytes(p + 1) /\ n.v \notin BadNames /\ token(p + 2, "PAR") ->
                Ok(p + 3, s, [type |-> "symlink", target |-> n.v])
          [] kind \in {"REG", "EXE"} /\ n.t # "len" -> Err(After(p + 1), lost, TRUE)
          [] kind \in {"REG", "EXE"} /\ n.t = "len" -> NewFile(p + 2, s, kind = "EXE", n.v)
          [] kind = "DIR" -> Ok(p + 1, child(s, Reader("dir", 1)), [type |-> "directory"])
          [] OTHER -> Err(After(p), lost, FALSE)

\* A name that is not allowed, or not above the one before it.
NameError(p, s) == Err(p, s, TRUE)
\* DirReader::next: the end of the entry before, then another entry or the end.
next(p, s, r) ==
    LET q == IF r.prev = 0 THEN p ELSE p + 1
        n == Next_(q + 1)
    IN  CASE r.prev # 0 /\ ~token(p, "PAR") -> Err(After(p), s, TRUE)
          [] (r.prev # 0 => token(p, "PAR")) /\ token(q, "PAR") ->
                Ok(q + 1, ready_parent(Append(Front(s), [r EXCEPT !.len = 0])), [type |-> "end"])
          [] (r.prev # 0 => token(p, "PAR")) /\ token(q, "ENT") ->
                IF ~bytes(q + 1) THEN Err(After(q + 1), s, TRUE)
                ELSE IF n.v \in BadNames \/ r.prev >= n.v THEN NameError(q + 2, s)
                ELSE IF ~token(q + 2, "NOD") THEN Err(After(q + 2), s, TRUE)
                ELSE NodeNew(q + 3, Append(Front(s), [r EXCEPT !.prev = n.v]))
          [] OTHER -> Err(After(q), s, TRUE)

\* FileReader::finish: the padding, and the end of the node.
finish(p, s, r) ==
    LET q == p + Len(Pad(r.size))
    IN  IF (Pad(r.size) # <<>> => token(p, "pad")) /\ token(q, "PAR") THEN Ok(q + 1, ready_parent(s), Nothing)
        ELSE Err(After(p), s, TRUE)
\* FileReader::read, which fill_buf and consume do in two steps: n bytes, and
\* with the last of them the end of the node.
read(p, s, r, n) ==
    LET left == [r EXCEPT !.len = @ - n]
        t    == Append(Front(s), left)
    IN  CASE \E i \in 0..n - 1 : ~token(p + i, "byte") -> Err(After(p), s, TRUE)
          [] (\A i \in 0..n - 1 : token(p + i, "byte")) /\ left.len > 0 -> Ok(p + n, t, Nothing)
          [] OTHER -> finish(p + n, t, left)

-----------------------------------------------------------------------------
\* copy_node: what the writer is told of the node that was read.
WriteNode(node) ==
    CASE node.type = "symlink" -> symlink(node.target)
      [] node.type = "regular" -> fileOpen(node.exe, node.len) \o (IF node.len = 0 THEN fileClose(0) ELSE <<>>)
      [] node.type = "directory" -> <<T("DIR")>>
      [] OTHER -> <<>>
file(n, need, size) == [i \in 1..n |-> T("byte")] \o (IF n = need THEN fileClose(size) ELSE <<>>)

Applies(r, toks) ==
    /\ pos' = r.pos /\ stack' = r.stack
    /\ poisoned' = (poisoned \/ r.poison) /\ failed' = (failed \/ ~r.ok)
    /\ state' = "reading"
    /\ out' = IF copying /\ r.ok THEN out \o toks ELSE out
    /\ UNCHANGED <<input, copying>>
\* check_correct: a reader that is not to be used any more panics.
Correct(r) == ~poisoned /\ r.ready
Panics == state' = "panic" /\ UNCHANGED <<input, pos, stack, poisoned, failed, copying, out>>
\* What copy() does not do: it stops at an error, and at the end.
Allowed(r) == copying => ~failed /\ r.len > 0

open == /\ state = "start"
        /\ IF token(0, "NAR") THEN LET r == NodeNew(1, <<>>) IN Applies(r, <<T("NAR")>> \o WriteNode(r.node))
           ELSE Applies(Err(0, <<>>, FALSE), <<>>)
Next_Entry ==
    /\ state = "reading" /\ stack # <<>> /\ Last(stack).kind = "dir" /\ Allowed(Last(stack))
    /\ IF Correct(Last(stack))
       THEN LET d == Last(stack)
                r == next(pos, stack, d)
            IN  Applies(r, IF r.node.type = "end" THEN close(d.prev # 0)
                           ELSE entry(d.prev # 0, r.stack[Len(stack)].prev) \o WriteNode(r.node))
       ELSE Panics
Read == /\ state = "reading" /\ stack # <<>> /\ Last(stack).kind = "file" /\ Last(stack).len > 0
        /\ Allowed(Last(stack))
        /\ \E a \in Amounts :
             IF Correct(Last(stack))
             THEN \E n \in 1..(IF a < Last(stack).len THEN a ELSE Last(stack).len) :
                    Applies(read(pos, stack, Last(stack), n), file(n, Last(stack).len, Last(stack).size))
             ELSE Panics
\* A reader goes out of scope; copy() drops those that it has read to their end.
Drop == /\ state = "reading" /\ stack # <<>>
        /\ copying => ~failed /\ Last(stack).len = 0
        /\ stack' = Front(stack)
        /\ UNCHANGED <<input, pos, poisoned, state, failed, copying, out>>

Init == /\ input \in Inputs /\ pos = 0 /\ stack = <<>> /\ poisoned = FALSE
        /\ state = "start" /\ failed = FALSE /\ copying \in BOOLEAN /\ out = <<>>
Done == /\ state = "panic" \/ (state = "reading" /\ (stack = <<>> \/ (copying /\ failed)))
        /\ UNCHANGED vars
Next == open \/ Next_Entry \/ Read \/ Drop \/ Done
Spec == Init /\ [][Next]_vars /\ WF_vars(open \/ Next_Entry \/ Read \/ Drop)

-----------------------------------------------------------------------------
\* What copy() has written is at every step exactly what it has read (copy.rs,
\* and the writers: where an entry is closed differs between the two sides).
Copies == copying /\ ~failed /\ state = "reading" => out = SubSeq(input, 1, pos)

\* "This verifies its syntactical correctness" (copy.rs): copy() comes to the
\* end without an error just for archives.  And whatever readers a user drops
\* half-read and uses again, an archive is never called invalid because of it:
\* check_correct stops the user first.
AcceptsExactly ==
    /\ copying /\ state = "reading" /\ stack = <<>> /\ ~failed => SubSeq(input, 1, pos) \in Archives
    /\ failed => ~\E a \in Archives : IsPrefix(a, input)

\* copy() never panics, and comes to an end.
Busy == copying /\ ~(state = "reading" /\ (failed \/ stack = <<>>))
=============================================================================
